---------------------------- MODULE MCEventStore ----------------------------
(* EventStore on a handful of events and two processes.                     *)
EXTENDS EventStore, TLC

Symmetry == Permutations(Events) \cup Permutations(Writers)
=============================================================================
