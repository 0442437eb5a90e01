------------------------- MODULE CandidateLifecycle -------------------------
(***************************************************************************)
(* What the StateStore promises about candidates and promotion attempts,   *)
(* with each operation one atomic step on the current state: the lifecycle *)
(* of data-model.md and of schemas.ALLOWED_CANDIDATE_TRANSITIONS.  No      *)
(* transition rows, no timestamps, no operation in flight.                 *)
(*                                                                         *)
(* CandidateStore implements it as long as one client at a time is inside  *)
(* an operation (CandidateStore!Lifecycle, CandidateStoreProofs).          *)
(***************************************************************************)
CONSTANTS Candidates, Attempts, NoCandidate

VARIABLES status, promotable, attemptOf, attemptStatus

vars == <<status, promotable, attemptOf, attemptStatus>>

\* The statuses a candidate may take next.
Successors ==
  [none      |-> {"detected"},
   detected  |-> {"candidate", "archived"},
   candidate |-> {"approved", "rejected", "archived"},
   approved  |-> {"promoted", "archived"},
   promoted  |-> {"dangling", "archived"},
   dangling  |-> {"archived"},
   rejected  |-> {"archived"},
   archived  |-> {}]

Init ==
  /\ status = [c \in Candidates |-> "none"]
  /\ promotable = [c \in Candidates |-> FALSE]
  /\ attemptOf = [a \in Attempts |-> NoCandidate]
  /\ attemptStatus = [a \in Attempts |-> "none"]

Detect(c, p) ==
  /\ status[c] = "none"
  /\ status' = [status EXCEPT ![c] = "detected"]
  /\ promotable' = [promotable EXCEPT ![c] = p]
  /\ UNCHANGED <<attemptOf, attemptStatus>>

\* A reviewer's decision, or the auto-promoter's.
Move(c, to) ==
  /\ status[c] # "none"
  /\ to \in Successors[status[c]]
  /\ status' = [status EXCEPT ![c] = to]
  /\ UNCHANGED <<promotable, attemptOf, attemptStatus>>

\* Promoted candidates with no recent activity become dangling together.
Dangle(cs) ==
  /\ \A c \in cs : status[c] = "promoted"
  /\ status' = [c \in Candidates |-> IF c \in cs THEN "dangling" ELSE status[c]]
  /\ UNCHANGED <<promotable, attemptOf, attemptStatus>>

Open(a, c) ==
  /\ attemptStatus[a] = "none"
  /\ status[c] = "approved"
  /\ promotable[c]
  /\ attemptOf' = [attemptOf EXCEPT ![a] = c]
  /\ attemptStatus' = [attemptStatus EXCEPT ![a] = "pending"]
  /\ UNCHANGED <<status, promotable>>

Succeed(a) ==
  /\ attemptStatus[a] = "pending"
  /\ status[attemptOf[a]] = "approved"
  /\ attemptStatus' = [attemptStatus EXCEPT ![a] = "succeeded"]
  /\ status' = [status EXCEPT ![attemptOf[a]] = "promoted"]
  /\ UNCHANGED <<promotable, attemptOf>>

Fail(a) ==
  /\ attemptStatus[a] = "pending"
  /\ attemptStatus' = [attemptStatus EXCEPT ![a] = "failed"]
  /\ UNCHANGED <<status, promotable, attemptOf>>

Next ==
  \/ \E c \in Candidates, p \in BOOLEAN : Detect(c, p)
  \/ \E c \in Candidates : \E to \in Successors[status[c]] : Move(c, to)
  \/ \E cs \in SUBSET Candidates : Dangle(cs)
  \/ \E a \in Attempts, c \in Candidates : Open(a, c)
  \/ \E a \in Attempts : Succeed(a) \/ Fail(a)

Spec == Init /\ [][Next]_vars
=============================================================================
