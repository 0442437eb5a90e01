----------------------------- MODULE PythonLists -----------------------------
(***************************************************************************)
(* What the code does with lists: an element taken out, and a              *)
(* comprehension with a condition.                                         *)
(***************************************************************************)
EXTENDS Naturals, Sequences, SequencesExt

\* A list: its length and what stands at each position.
IsList(s) == Len(s) \in Nat /\ s = [i \in 1 .. Len(s) |-> s[i]]

\* s without its first element c.
Without(s, c) ==
  IF c \in ToSet(s) THEN RemoveAt(s, CHOOSE i \in DOMAIN s : s[i] = c) ELSE s

\* The elements of s at these positions, in the order of s.
Picked(s, at) ==
  LET upTo[n \in 0 .. Len(s)] ==
        IF n = 0 THEN <<>>
        ELSE IF n \in at THEN Append(upTo[n - 1], s[n]) ELSE upTo[n - 1]
  IN upTo[Len(s)]
=============================================================================
