--------------------------- MODULE CandidateStore ---------------------------
(***************************************************************************)
(* The candidate tables of the StateStore (storage/repository.py): the     *)
(* rows of candidates, candidate_transitions and promotion_attempts, and   *)
(* every operation that writes them.                                       *)
(*                                                                         *)
(* Several processes (the Hermes plugin, the CLI) share one state.db, each *)
(* call on a connection of its own.  Python's sqlite3 opens a transaction  *)
(* only at the first INSERT, UPDATE or DELETE, so the SELECT a call starts *)
(* with runs outside the transaction that follows: an operation is two     *)
(* steps, Start* (the reads and the checks on them) and Commit* (the write *)
(* transaction, serialised by SQLite), and other clients may commit in     *)
(* between.  A Commit that fails (SQLITE_BUSY after the 3 s busy_timeout,  *)
(* a constraint, a crash of the process) rolls back: Abort.                *)
(*                                                                         *)
(* A call whose checks fail raises before it writes; it has no step.       *)
(***************************************************************************)
EXTENDS Naturals, Sequences

CONSTANTS Candidates,   \* candidate ids
          Attempts,     \* promotion attempt ids
          Clients,      \* connections: tool handlers, hooks, CLI commands
          NoCandidate   \* the candidate of an attempt id not in the table

ASSUME NoCandidateAssumption == NoCandidate \notin Candidates

VARIABLES
  status,        \* candidates.status, "none" where there is no row
  promotable,    \* candidates.promotable
  reviewedAt,    \* the candidates whose reviewed_at is set
  promotedAt,    \* the candidates whose promoted_at is set
  transitions,   \* candidate_transitions of each candidate, in commit order
  attemptOf,     \* promotion_attempts.candidate_id
  attemptStatus, \* promotion_attempts.status, "none" where there is no row
  op             \* what each client has read and is about to write

vars == <<status, promotable, reviewedAt, promotedAt, transitions, attemptOf,
          attemptStatus, op>>
attempts == <<attemptOf, attemptStatus>>

Statuses == {"detected", "candidate", "approved", "promoted", "dangling",
             "rejected", "archived"}

\* Mutation of Allowed: a candidate may be promoted without a review.
AllowedUnreviewed ==
  {<<"detected", "candidate">>, <<"detected", "archived">>,
   <<"candidate", "approved">>, <<"candidate", "promoted">>,
   <<"promoted", "archived">>, <<"promoted", "dangling">>}

\* schemas.ALLOWED_CANDIDATE_TRANSITIONS
Allowed ==
  {<<"detected", "candidate">>, <<"detected", "archived">>,
   <<"candidate", "approved">>, <<"candidate", "rejected">>,
   <<"candidate", "archived">>,
   <<"approved", "promoted">>, <<"approved", "archived">>,
   <<"promoted", "archived">>, <<"promoted", "dangling">>,
   <<"dangling", "archived">>,
   <<"rejected", "archived">>}

Reviews == {"approved", "rejected"}

Idle == [kind |-> "idle"]

Ops ==
  {Idle}
  \cup [kind : {"transition"}, candidate : Candidates, from : Statuses, to : Statuses]
  \cup [kind : {"promote"}, candidate : Candidates]
  \cup [kind : {"complete"}, attempt : Attempts, succeeded : BOOLEAN]
  \cup [kind : {"dangling"}, stale : SUBSET Candidates]

TransitionRows == [from : Statuses \cup {"none"}, to : Statuses]

\* Mutation of Row: the columns swapped in the INSERT.
RowSwapped(from, to) == [from |-> to, to |-> from]

Row(from, to) == [from |-> from, to |-> to]

TypeOK ==
  /\ status \in [Candidates -> Statuses \cup {"none"}]
  /\ promotable \in [Candidates -> BOOLEAN]
  /\ reviewedAt \in SUBSET Candidates
  /\ promotedAt \in SUBSET Candidates
  /\ transitions \in [Candidates -> Seq(TransitionRows)]
  /\ attemptOf \in [Attempts -> Candidates \cup {NoCandidate}]
  /\ attemptStatus \in [Attempts -> {"none", "pending", "succeeded", "failed"}]
  /\ op \in [Clients -> Ops]

Init ==
  /\ status = [c \in Candidates |-> "none"]
  /\ promotable = [c \in Candidates |-> FALSE]
  /\ reviewedAt = {}
  /\ promotedAt = {}
  /\ transitions = [c \in Candidates |-> <<>>]
  /\ attemptOf = [a \in Attempts |-> NoCandidate]
  /\ attemptStatus = [a \in Attempts |-> "none"]
  /\ op = [k \in Clients |-> Idle]

----------------------------------------------------------------------------
(* What a call checks before it writes.                                    *)

MayTransition(c, to) == <<status[c], to>> \in Allowed

\* Mutation of MayPromote: the status check dropped.
MayPromoteUnapproved(c) == status[c] # "none" /\ promotable[c]

\* Mutation of MayPromote: the promotable check dropped.
MayPromoteUngated(c) == status[c] = "approved"

MayPromote(c) == status[c] = "approved" /\ promotable[c]

\* Mutation of MayComplete: the early return on a finished attempt dropped.
MayCompleteAgain(a) == attemptStatus[a] # "none"

MayComplete(a) == attemptStatus[a] = "pending"

\* Mutation of MayFinalise: the candidate is not validated again.
MayFinaliseUnchecked(c) == status[c] # "none"

MayFinalise(c) == MayTransition(c, "promoted")

\* Mutation of MayDangle: approved candidates are selected as well.
MayDangleOpen(cs) == \A c \in cs : status[c] \in {"approved", "promoted"}

MayDangle(cs) == \A c \in cs : status[c] = "promoted"

----------------------------------------------------------------------------
(* What its transaction writes.                                            *)

(* The transition rows of the candidates in cs, each cs moving to `to`.     *)
Logged(cs, from, to) ==
  [c \in Candidates |->
     IF c \in cs THEN Append(transitions[c], Row(from, to)) ELSE transitions[c]]

Moved(cs, to) == [c \in Candidates |-> IF c \in cs THEN to ELSE status[c]]

\* Mutation of Reviewed: reviewed_at = ?, without the COALESCE.
ReviewedOverwrite(c, to) == IF to \in Reviews THEN reviewedAt \cup {c} ELSE reviewedAt \ {c}

(* COALESCE keeps a reviewed_at that is already set.                        *)
Reviewed(c, to) == IF to \in Reviews THEN reviewedAt \cup {c} ELSE reviewedAt

----------------------------------------------------------------------------
(* create_candidate: one transaction, no read before it.  Every caller      *)
(* passes status detected; from_status of the first row is "none".          *)
CreateCandidate(k, c, p) ==
  /\ op[k] = Idle
  /\ status[c] = "none"
  /\ status' = Moved({c}, "detected")
  /\ promotable' = [promotable EXCEPT ![c] = p]
  /\ transitions' = Logged({c}, "none", "detected")
  /\ UNCHANGED <<reviewedAt, promotedAt, attempts, op>>

(* transition_candidate: the SELECT and validate_candidate_transition ...   *)
StartTransition(k, c, to) ==
  /\ op[k] = Idle
  /\ MayTransition(c, to)
  /\ op' = [op EXCEPT ![k] = [kind |-> "transition", candidate |-> c,
                              from |-> status[c], to |-> to]]
  /\ UNCHANGED <<status, promotable, reviewedAt, promotedAt, transitions, attempts>>

(* ... and the UPDATE, which names the candidate but not the status it had  *)
(* when it was read.                                                        *)
CommitTransition(k) ==
  /\ op[k].kind = "transition"
  /\ LET c == op[k].candidate
         to == op[k].to
     IN /\ status' = Moved({c}, to)
        /\ reviewedAt' = Reviewed(c, to)
        /\ promotedAt' = IF to = "promoted" THEN promotedAt \cup {c} ELSE promotedAt
        /\ transitions' = Logged({c}, op[k].from, to)
  /\ op' = [op EXCEPT ![k] = Idle]
  /\ UNCHANGED <<promotable, attempts>>

(* create_promotion_attempt: SELECT status, promotable, then INSERT.        *)
StartPromote(k, c) ==
  /\ op[k] = Idle
  /\ MayPromote(c)
  /\ op' = [op EXCEPT ![k] = [kind |-> "promote", candidate |-> c]]
  /\ UNCHANGED <<status, promotable, reviewedAt, promotedAt, transitions, attempts>>

CommitPromote(k, a) ==
  /\ op[k].kind = "promote"
  /\ attemptStatus[a] = "none"
  /\ attemptOf' = [attemptOf EXCEPT ![a] = op[k].candidate]
  /\ attemptStatus' = [attemptStatus EXCEPT ![a] = "pending"]
  /\ op' = [op EXCEPT ![k] = Idle]
  /\ UNCHANGED <<status, promotable, reviewedAt, promotedAt, transitions>>

(* complete_promotion_attempt: the attempt is read before the transaction,  *)
(* the candidate inside it.  Where the candidate may no longer be promoted  *)
(* the call raises, and the transaction rolls back (Abort).                 *)
StartComplete(k, a, succeeded) ==
  /\ op[k] = Idle
  /\ MayComplete(a)
  /\ op' = [op EXCEPT ![k] = [kind |-> "complete", attempt |-> a,
                              succeeded |-> succeeded]]
  /\ UNCHANGED <<status, promotable, reviewedAt, promotedAt, transitions, attempts>>

CompleteSucceeded(k) ==
  /\ op[k].kind = "complete"
  /\ op[k].succeeded
  /\ LET c == attemptOf[op[k].attempt]
     IN /\ MayFinalise(c)
        /\ status' = Moved({c}, "promoted")
        /\ promotedAt' = promotedAt \cup {c}
        /\ transitions' = Logged({c}, status[c], "promoted")
  /\ attemptStatus' = [attemptStatus EXCEPT ![op[k].attempt] = "succeeded"]
  /\ op' = [op EXCEPT ![k] = Idle]
  /\ UNCHANGED <<promotable, reviewedAt, attemptOf>>

CompleteFailed(k) ==
  /\ op[k].kind = "complete"
  /\ ~op[k].succeeded
  /\ attemptStatus' = [attemptStatus EXCEPT ![op[k].attempt] = "failed"]
  /\ op' = [op EXCEPT ![k] = Idle]
  /\ UNCHANGED <<status, promotable, reviewedAt, promotedAt, transitions, attemptOf>>

(* mark_dangling_candidates: the SELECT finds the promoted candidates whose *)
(* updated_at is before the cutoff (any set of promoted ones: the age is    *)
(* not modelled); one transaction then marks them all.                      *)
StartDangling(k, stale) ==
  /\ op[k] = Idle
  /\ stale # {}
  /\ MayDangle(stale)
  /\ op' = [op EXCEPT ![k] = [kind |-> "dangling", stale |-> stale]]
  /\ UNCHANGED <<status, promotable, reviewedAt, promotedAt, transitions, attempts>>

(* Mutation of CommitDangling: the transition rows are not inserted.       *)
CommitDanglingUnlogged(k) ==
  /\ op[k].kind = "dangling"
  /\ status' = Moved(op[k].stale, "dangling")
  /\ op' = [op EXCEPT ![k] = Idle]
  /\ UNCHANGED <<promotable, reviewedAt, promotedAt, transitions, attempts>>

CommitDangling(k) ==
  /\ op[k].kind = "dangling"
  /\ status' = Moved(op[k].stale, "dangling")
  /\ transitions' = Logged(op[k].stale, "promoted", "dangling")
  /\ op' = [op EXCEPT ![k] = Idle]
  /\ UNCHANGED <<promotable, reviewedAt, promotedAt, attempts>>

(* connect() rolls back on any exception, and a process that dies leaves    *)
(* nothing of its open transaction.                                         *)
Abort(k) ==
  /\ op[k] # Idle
  /\ op' = [op EXCEPT ![k] = Idle]
  /\ UNCHANGED <<status, promotable, reviewedAt, promotedAt, transitions, attempts>>

Next ==
  \E k \in Clients :
    \/ \E c \in Candidates, p \in BOOLEAN : CreateCandidate(k, c, p)
    \/ \E c \in Candidates, to \in Statuses : StartTransition(k, c, to)
    \/ CommitTransition(k)
    \/ \E c \in Candidates : StartPromote(k, c)
    \/ \E a \in Attempts : CommitPromote(k, a)
    \/ \E a \in Attempts, succeeded \in BOOLEAN : StartComplete(k, a, succeeded)
    \/ CompleteSucceeded(k)
    \/ CompleteFailed(k)
    \/ \E stale \in SUBSET Candidates : StartDangling(k, stale)
    \/ CommitDangling(k)
    \/ Abort(k)

Spec == Init /\ [][Next]_vars

----------------------------------------------------------------------------
(* Properties that hold however the clients' operations interleave.         *)

Log(c) == transitions[c]
Visited(c, s) == \E i \in 1 .. Len(Log(c)) : Log(c)[i].to = s

StatusEndsLog ==
  \A c \in Candidates :
    IF Log(c) = <<>> THEN status[c] = "none" ELSE status[c] = Log(c)[Len(Log(c))].to

StampsMatchLog ==
  \A c \in Candidates :
    /\ c \in reviewedAt <=> (Visited(c, "approved") \/ Visited(c, "rejected"))
    /\ c \in promotedAt <=> Visited(c, "promoted")

\* The candidates row agrees with the audit trail the same transactions
\* leave: the status is the to_status of the last transition row, and the two
\* timestamps are set exactly when a row records the review or promotion.
RowMatchesLog == StatusEndsLog /\ StampsMatchLog

\* A stale read is never an invented one: the from_status of every transition
\* row after the first is a status that an earlier row gave the candidate, and
\* the two statuses of a row are an allowed transition.
LogIsCausal ==
  \A c \in Candidates : \A i \in 1 .. Len(Log(c)) :
    IF i = 1
    THEN Log(c)[i] = Row("none", "detected")
    ELSE /\ <<Log(c)[i].from, Log(c)[i].to>> \in Allowed
         /\ \E j \in 1 .. (i - 1) : Log(c)[j].to = Log(c)[i].from

\* Nothing reaches promoted or dangling that no reviewer approved: before a
\* row of the trail that promotes the candidate there is one that approves it,
\* and before one that marks it dangling there is one that promotes it.
ApprovedBeforePromoted ==
  \A c \in Candidates :
    /\ status[c] \in {"promoted", "dangling"} => Visited(c, "approved")
    /\ \A i \in 1 .. Len(Log(c)) :
         Log(c)[i].to \in {"promoted", "dangling"} =>
           \E j \in 1 .. (i - 1) :
             Log(c)[j].to = IF Log(c)[i].to = "promoted" THEN "approved" ELSE "promoted"

AttemptIsApproved(a) ==
  attemptStatus[a] # "none" =>
    /\ attemptOf[a] \in Candidates
    /\ promotable[attemptOf[a]]
    /\ Visited(attemptOf[a], "approved")

\* A promotion attempt is only ever opened for a candidate that was approved
\* and is promotable.
AttemptsFollowApproval == \A a \in Attempts : AttemptIsApproved(a)

\* data-model.md: "A successful promotion attempt transitions the candidate
\* from approved to promoted atomically": because complete_promotion_attempt
\* re-reads the candidate inside its transaction, no other client can come
\* between, and an attempt never succeeds without that step.
PromotionIsAtomic ==
  [][\A a \in Attempts :
       attemptStatus'[a] = "succeeded" /\ attemptStatus[a] # "succeeded" =>
         /\ status[attemptOf[a]] = "approved"
         /\ status'[attemptOf[a]] = "promoted"]_vars

----------------------------------------------------------------------------
(* Properties that need the clients' operations not to interleave.          *)

\* schemas.validate_candidate_transition, data-model.md "Candidate lifecycle":
\* every change of a candidate's status is an allowed transition of the status
\* it had.
LifecycleSteps ==
  [][\A c \in Candidates :
       \/ status'[c] = status[c]
       \/ status[c] = "none" /\ status'[c] = "detected"
       \/ <<status[c], status'[c]>> \in Allowed]_vars

\* The audit trail of a candidate reads as one path: each row starts where the
\* row before it ended.
TrailIsAPath ==
  \A c \in Candidates : \A i \in 2 .. Len(Log(c)) :
    Log(c)[i].from = Log(c)[i - 1].to

\* However many attempts are opened for a candidate (nothing stops a second
\* pending one), one at most ends as succeeded.
OneSuccessPerCandidate ==
  \A a, b \in Attempts :
    /\ attemptStatus[a] = "succeeded"
    /\ attemptStatus[b] = "succeeded"
    /\ attemptOf[a] = attemptOf[b]
    => a = b

----------------------------------------------------------------------------
(* With one client the operations are atomic, and the store implements the  *)
(* lifecycle its documentation describes.                                   *)
Lifecycle == INSTANCE CandidateLifecycle WITH
       status <- status, promotable <- promotable,
       attemptOf <- attemptOf, attemptStatus <- attemptStatus

\* Every step of the store maps to one operation of the lifecycle, on the
\* state it finds, or to none.
ImplementsLifecycle == Lifecycle!Spec
=============================================================================
