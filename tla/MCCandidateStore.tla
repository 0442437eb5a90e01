-------------------------- MODULE MCCandidateStore --------------------------
(* CandidateStore on small sets of candidates, attempts and clients.        *)
EXTENDS CandidateStore, TLC

Symmetry == Permutations(Candidates) \cup Permutations(Attempts)
              \cup Permutations(Clients)
=============================================================================
