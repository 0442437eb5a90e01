----------------------------- MODULE MCHookFlow -----------------------------
(* HookFlow with two overlapping calls, one worker and a cache for one       *)
(* decision, so that calls queue, time out behind each other and evict each  *)
(* other's decisions.                                                        *)
EXTENDS HookFlow
=============================================================================
