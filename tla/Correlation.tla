----------------------------- MODULE Correlation ------------------------------
(***************************************************************************)
(* What pre_tool_call and post_tool_call may expect of the TraceCache that *)
(* links them: a decision that was put is handed out once at most, and to  *)
(* nobody after the cache has dropped it; a call whose pop returns nothing *)
(* has no decision in the cache.  When decisions are dropped is left open. *)
(***************************************************************************)
CONSTANT Calls

VARIABLES
  held,    \* the calls whose decision is in the cache
  answers  \* what the pop of a call has come to

vars == <<held, answers>>

Answers == {"none", "found", "missing", "raised"}

Init == held = {} /\ answers = [c \in Calls |-> "none"]

Answer(c, a) == answers[c] = "none" /\ answers' = [answers EXCEPT ![c] = a]

Put(c) ==
  /\ c \notin held /\ answers[c] = "none"
  /\ held' = held \cup {c}
  /\ UNCHANGED answers

Drop(c) ==
  /\ c \in held
  /\ held' = held \ {c}
  /\ UNCHANGED answers

Hand(c) ==
  /\ c \in held
  /\ held' = held \ {c}
  /\ Answer(c, "found")

Miss(c) ==
  /\ c \notin held
  /\ Answer(c, "missing")
  /\ UNCHANGED held

Fail(c) == Answer(c, "raised") /\ UNCHANGED held

Next == \E c \in Calls : Put(c) \/ Drop(c) \/ Hand(c) \/ Miss(c) \/ Fail(c)

Spec == Init /\ [][Next]_vars
=============================================================================
