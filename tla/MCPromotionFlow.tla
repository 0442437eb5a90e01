--------------------------- MODULE MCPromotionFlow ---------------------------
(* PromotionFlow with one caller of each kind.                              *)
EXTENDS PromotionFlow, TLC

Symmetry == Permutations(Attempts) \cup Permutations(Gates)
=============================================================================
