----------------------------- MODULE MCTraceCache -----------------------------
(* TraceCache with three calls and room for one decision, so that two        *)
(* threads can trim it at once while a third scans it.                       *)
EXTENDS TraceCache, TLC

Symmetry == Permutations(Calls)
=============================================================================
