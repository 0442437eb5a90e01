------------------------ MODULE CandidateStoreProofs ------------------------
(***************************************************************************)
(* Theorems about CandidateStore, for any sets of candidates, attempts and *)
(* clients: its invariants, and that it implements CandidateLifecycle      *)
(* where the operations do not overlap.                                    *)
(***************************************************************************)
EXTENDS CandidateStore, TLAPS

(* TypeOK alone is not inductive: complete_promotion_attempt follows        *)
(* attemptOf to a candidate, which must exist.                              *)
AttemptRows ==
  /\ \A a \in Attempts : attemptStatus[a] # "none" => attemptOf[a] \in Candidates
  /\ \A k \in Clients :
       op[k].kind = "complete" => attemptStatus[op[k].attempt] # "none"

TypeInv == TypeOK /\ AttemptRows

LEMMA InitTypeInv == Init => TypeInv
  BY DEF Init, TypeInv, AttemptRows, TypeOK, Ops, Idle

\* A commit that moves the candidates cs and logs their rows leaves the two
\* tables well typed.
LEMMA MoveTyped ==
  ASSUME TypeOK, NEW cs \in SUBSET Candidates,
         NEW from \in Statuses \cup {"none"}, NEW to \in Statuses,
         status' = Moved(cs, to), transitions' = Logged(cs, from, to)
  PROVE  /\ status' \in [Candidates -> Statuses \cup {"none"}]
         /\ transitions' \in [Candidates -> Seq(TransitionRows)]
  <1>1. status' \in [Candidates -> Statuses \cup {"none"}]
    BY DEF TypeOK, Moved
  <1>2. Row(from, to) \in TransitionRows
    BY DEF Row, TransitionRows
  <1>3. transitions' \in [Candidates -> Seq(TransitionRows)]
    <2>1. ASSUME NEW c \in Candidates
          PROVE  Append(transitions[c], Row(from, to)) \in Seq(TransitionRows)
      BY <1>2 DEF TypeOK
    <2>2. QED
      BY <2>1 DEF TypeOK, Logged
  <1>4. QED
    BY <1>1, <1>3

LEMMA NextTypeOK == TypeInv /\ [Next]_vars => TypeOK'
  <1> SUFFICES ASSUME TypeInv, [Next]_vars
               PROVE  TypeOK'
    OBVIOUS
  <1> TypeOK
    BY DEF TypeInv
  <1> USE DEF attempts
  <1>0. Idle \in Ops
    BY DEF Ops
  <1>1. ASSUME NEW k \in Clients, NEW c \in Candidates, NEW p \in BOOLEAN,
               CreateCandidate(k, c, p)
        PROVE  TypeOK'
    <2>1. "detected" \in Statuses /\ "none" \in Statuses \cup {"none"}
      BY DEF Statuses
    <2>2. /\ status' \in [Candidates -> Statuses \cup {"none"}]
          /\ transitions' \in [Candidates -> Seq(TransitionRows)]
      BY <1>1, <2>1, MoveTyped DEF CreateCandidate
    <2>3. QED
      BY <1>1, <2>2 DEF TypeOK, CreateCandidate
  <1>2. ASSUME NEW k \in Clients, NEW c \in Candidates, NEW to \in Statuses,
               StartTransition(k, c, to)
        PROVE  TypeOK'
    <2>1. status[c] \in Statuses
      BY <1>2 DEF StartTransition, MayTransition, Allowed, Statuses
    <2>2. op' \in [Clients -> Ops]
      BY <1>2, <2>1 DEF TypeOK, StartTransition, Ops
    <2>3. QED
      BY <1>2, <2>2 DEF TypeOK, StartTransition
  <1>3. ASSUME NEW k \in Clients, CommitTransition(k)
        PROVE  TypeOK'
    <2>1. /\ op[k].candidate \in Candidates
          /\ op[k].from \in Statuses
          /\ op[k].to \in Statuses
      BY <1>3 DEF TypeOK, CommitTransition, Ops, Idle
    <2>2. /\ status' \in [Candidates -> Statuses \cup {"none"}]
          /\ transitions' \in [Candidates -> Seq(TransitionRows)]
      BY <1>3, <2>1, MoveTyped DEF CommitTransition
    <2>3. reviewedAt' \in SUBSET Candidates /\ promotedAt' \in SUBSET Candidates
      BY <1>3, <2>1 DEF TypeOK, CommitTransition, Reviewed
    <2>4. QED
      BY <1>0, <1>3, <2>2, <2>3 DEF TypeOK, CommitTransition
  <1>4. ASSUME NEW k \in Clients, NEW c \in Candidates, StartPromote(k, c)
        PROVE  TypeOK'
    BY <1>4 DEF TypeOK, StartPromote, Ops
  <1>5. ASSUME NEW k \in Clients, NEW a \in Attempts, CommitPromote(k, a)
        PROVE  TypeOK'
    <2>1. op[k].candidate \in Candidates
      BY <1>5 DEF TypeOK, CommitPromote, Ops, Idle
    <2>2. QED
      BY <1>0, <1>5, <2>1 DEF TypeOK, CommitPromote
  <1>6. ASSUME NEW k \in Clients, NEW a \in Attempts, NEW succeeded \in BOOLEAN,
               StartComplete(k, a, succeeded)
        PROVE  TypeOK'
    BY <1>6 DEF TypeOK, StartComplete, Ops
  <1>7. ASSUME NEW k \in Clients, CompleteSucceeded(k)
        PROVE  TypeOK'
    <2> DEFINE c == attemptOf[op[k].attempt]
    <2>1. op[k].attempt \in Attempts
      BY <1>7 DEF TypeOK, CompleteSucceeded, Ops, Idle
    <2>3. c \in Candidates
      BY <1>7, <2>1 DEF CompleteSucceeded, TypeInv, AttemptRows
    <2>4. status[c] \in Statuses \cup {"none"} /\ "promoted" \in Statuses
      BY <2>3 DEF TypeOK, Statuses
    <2>5. status' = Moved({c}, "promoted") /\ transitions' = Logged({c}, status[c], "promoted")
      BY <1>7 DEF CompleteSucceeded
    <2>6. /\ status' \in [Candidates -> Statuses \cup {"none"}]
          /\ transitions' \in [Candidates -> Seq(TransitionRows)]
      BY <2>3, <2>4, <2>5, MoveTyped
    <2>7. QED
      BY <1>0, <1>7, <2>1, <2>3, <2>6 DEF TypeOK, CompleteSucceeded
  <1>8. ASSUME NEW k \in Clients, CompleteFailed(k)
        PROVE  TypeOK'
    <2>1. op[k].attempt \in Attempts
      BY <1>8 DEF TypeOK, CompleteFailed, Ops, Idle
    <2>2. QED
      BY <1>0, <1>8, <2>1 DEF TypeOK, CompleteFailed
  <1>9. ASSUME NEW k \in Clients, NEW stale \in SUBSET Candidates,
               StartDangling(k, stale)
        PROVE  TypeOK'
    BY <1>9 DEF TypeOK, StartDangling, Ops
  <1>10. ASSUME NEW k \in Clients, CommitDangling(k)
         PROVE  TypeOK'
    <2>1. op[k].stale \in SUBSET Candidates
      BY <1>10 DEF TypeOK, CommitDangling, Ops, Idle
    <2>2. "promoted" \in Statuses \cup {"none"} /\ "dangling" \in Statuses
      BY DEF Statuses
    <2>3. /\ status' \in [Candidates -> Statuses \cup {"none"}]
          /\ transitions' \in [Candidates -> Seq(TransitionRows)]
      BY <1>10, <2>1, <2>2, MoveTyped DEF CommitDangling
    <2>4. QED
      BY <1>0, <1>10, <2>3 DEF TypeOK, CommitDangling
  <1>11. ASSUME NEW k \in Clients, Abort(k)
         PROVE  TypeOK'
    BY <1>0, <1>11 DEF TypeOK, Abort
  <1>12. CASE UNCHANGED vars
    BY <1>12 DEF TypeOK, vars
  <1>13. QED
    BY <1>1, <1>2, <1>3, <1>4, <1>5, <1>6, <1>7, <1>8, <1>9, <1>10, <1>11, <1>12
       DEF Next

LEMMA NextAttemptRows == TypeInv /\ [Next]_vars => AttemptRows'
  <1> SUFFICES ASSUME TypeInv, [Next]_vars
               PROVE  AttemptRows'
    OBVIOUS
  <1> TypeOK /\ AttemptRows
    BY DEF TypeInv
  <1> USE DEF attempts, AttemptRows
  <1>1. ASSUME NEW k \in Clients, NEW c \in Candidates, NEW p \in BOOLEAN,
               CreateCandidate(k, c, p)
        PROVE  AttemptRows'
    BY <1>1 DEF CreateCandidate
  <1>2. ASSUME NEW k \in Clients, NEW c \in Candidates, NEW to \in Statuses,
               StartTransition(k, c, to)
        PROVE  AttemptRows'
    BY <1>2 DEF TypeOK, StartTransition
  <1>3. ASSUME NEW k \in Clients, CommitTransition(k)
        PROVE  AttemptRows'
    BY <1>3 DEF TypeOK, CommitTransition, Idle
  <1>4. ASSUME NEW k \in Clients, NEW c \in Candidates, StartPromote(k, c)
        PROVE  AttemptRows'
    BY <1>4 DEF TypeOK, StartPromote
  <1>5. ASSUME NEW k \in Clients, NEW a \in Attempts, CommitPromote(k, a)
        PROVE  AttemptRows'
    <2>1. op[k].candidate \in Candidates
      BY <1>5 DEF TypeOK, CommitPromote, Ops, Idle
    <2>2. \A l \in Clients : op[l].kind = "complete" => op[l].attempt \in Attempts
      BY DEF TypeOK, Ops, Idle
    <2>3. QED
      BY <1>5, <2>1, <2>2 DEF TypeOK, CommitPromote, Idle
  <1>6. ASSUME NEW k \in Clients, NEW a \in Attempts, NEW succeeded \in BOOLEAN,
               StartComplete(k, a, succeeded)
        PROVE  AttemptRows'
    BY <1>6 DEF TypeOK, StartComplete, MayComplete
  <1>7. ASSUME NEW k \in Clients, CompleteSucceeded(k)
        PROVE  AttemptRows'
    <2>1. \A l \in Clients : op[l].kind = "complete" => op[l].attempt \in Attempts
      BY DEF TypeOK, Ops, Idle
    <2>2. QED
      BY <1>7, <2>1 DEF TypeOK, CompleteSucceeded, Idle
  <1>8. ASSUME NEW k \in Clients, CompleteFailed(k)
        PROVE  AttemptRows'
    <2>1. \A l \in Clients : op[l].kind = "complete" => op[l].attempt \in Attempts
      BY DEF TypeOK, Ops, Idle
    <2>2. QED
      BY <1>8, <2>1 DEF TypeOK, CompleteFailed, Idle
  <1>9. ASSUME NEW k \in Clients, NEW stale \in SUBSET Candidates,
               StartDangling(k, stale)
        PROVE  AttemptRows'
    BY <1>9 DEF TypeOK, StartDangling
  <1>10. ASSUME NEW k \in Clients, CommitDangling(k)
         PROVE  AttemptRows'
    BY <1>10 DEF TypeOK, CommitDangling, Idle
  <1>11. ASSUME NEW k \in Clients, Abort(k)
         PROVE  AttemptRows'
    BY <1>11 DEF TypeOK, Abort, Idle
  <1>12. CASE UNCHANGED vars
    BY <1>12 DEF vars
  <1>13. QED
    BY <1>1, <1>2, <1>3, <1>4, <1>5, <1>6, <1>7, <1>8, <1>9, <1>10, <1>11, <1>12
       DEF Next

\* Every variable keeps its type; TypeInv is the invariant that is inductive.
THEOREM TypeCorrect == Spec => []TypeOK
  <1>1. Init => TypeInv
    BY InitTypeInv
  <1>2. TypeInv /\ [Next]_vars => TypeInv'
    BY NextTypeOK, NextAttemptRows DEF TypeInv
  <1>3. TypeInv => TypeOK
    BY DEF TypeInv
  <1>4. QED
    BY <1>1, <1>2, <1>3, PTL DEF Spec

----------------------------------------------------------------------------
(* The audit trail under any interleaving.                                 *)

\* The trails of the candidates in cs are longer by the row (from, to).
LogGrows(cs, from, to) ==
  \A c \in Candidates :
    /\ Len(transitions[c]) \in Nat
    /\ Len(transitions'[c]) = IF c \in cs THEN Len(transitions[c]) + 1
                                         ELSE Len(transitions[c])
    /\ \A i \in 1 .. Len(transitions[c]) : transitions'[c][i] = transitions[c][i]
    /\ c \in cs => transitions'[c][Len(transitions[c]) + 1] = Row(from, to)

LEMMA MoveExtendsLog ==
  ASSUME TypeOK, NEW cs \in SUBSET Candidates,
         NEW from \in Statuses \cup {"none"}, NEW to \in Statuses,
         transitions' = Logged(cs, from, to)
  PROVE  LogGrows(cs, from, to)
  <1> SUFFICES ASSUME NEW c \in Candidates
               PROVE  /\ Len(transitions[c]) \in Nat
                      /\ Len(transitions'[c]) = IF c \in cs THEN Len(transitions[c]) + 1
                                                           ELSE Len(transitions[c])
                      /\ \A i \in 1 .. Len(transitions[c]) :
                           transitions'[c][i] = transitions[c][i]
                      /\ c \in cs =>
                           transitions'[c][Len(transitions[c]) + 1] = Row(from, to)
    BY DEF LogGrows
  <1>1. transitions[c] \in Seq(TransitionRows)
    BY DEF TypeOK
  <1>2. Row(from, to) \in TransitionRows
    BY DEF Row, TransitionRows
  <1>3. transitions'[c] = IF c \in cs THEN Append(transitions[c], Row(from, to))
                                      ELSE transitions[c]
    BY DEF Logged
  <1>4. QED
    BY <1>1, <1>2, <1>3

LEMMA MoveVisits ==
  ASSUME TypeOK, NEW cs \in SUBSET Candidates,
         NEW from \in Statuses \cup {"none"}, NEW to \in Statuses,
         transitions' = Logged(cs, from, to), NEW c \in Candidates, NEW s
  PROVE  Visited(c, s)' <=> Visited(c, s) \/ (c \in cs /\ s = to)
  <1>0. LogGrows(cs, from, to)
    BY MoveExtendsLog
  <1>1. Visited(c, s) => Visited(c, s)'
    BY <1>0 DEF LogGrows, Visited, Log
  <1>2. ASSUME c \in cs, s = to
        PROVE  Visited(c, s)'
    <2>1. transitions'[c][Len(transitions[c]) + 1].to = to
      BY <1>2, <1>0 DEF LogGrows, Row
    <2>2. Len(transitions[c]) + 1 \in 1 .. Len(transitions'[c])
      BY <1>2, <1>0 DEF LogGrows
    <2>3. QED
      BY <1>2, <2>1, <2>2 DEF Visited, Log
  <1>3. ASSUME Visited(c, s)', ~ Visited(c, s)
        PROVE  c \in cs /\ s = to
    <2>1. PICK i \in 1 .. Len(transitions'[c]) : transitions'[c][i].to = s
      BY <1>3 DEF Visited, Log
    <2>2. i \notin 1 .. Len(transitions[c])
      BY <1>3, <2>1, <1>0 DEF LogGrows, Visited, Log
    <2>3. c \in cs /\ i = Len(transitions[c]) + 1
      BY <2>1, <2>2, <1>0 DEF LogGrows
    <2>4. QED
      BY <2>1, <2>3, <1>0 DEF LogGrows, Row
  <1>4. QED
    BY <1>1, <1>2, <1>3

Trail == StatusEndsLog /\ LogIsCausal

\* A commit keeps the trail when, for each candidate it moves, it makes the
\* first row or starts from a status the candidate has had.
LEMMA MoveKeepsTrail ==
  ASSUME TypeOK, Trail, NEW cs \in SUBSET Candidates,
         NEW from \in Statuses \cup {"none"}, NEW to \in Statuses,
         status' = Moved(cs, to), transitions' = Logged(cs, from, to),
         \A c \in cs : \/ /\ status[c] = "none"
                         /\ Row(from, to) = Row("none", "detected")
                      \/ /\ Visited(c, from)
                         /\ <<from, to>> \in Allowed
  PROVE  Trail'
  <1>0. LogGrows(cs, from, to)
    BY MoveExtendsLog
  <1>1. StatusEndsLog'
    <2> SUFFICES ASSUME NEW c \in Candidates
                 PROVE  IF transitions'[c] = <<>> THEN status'[c] = "none"
                        ELSE status'[c] = transitions'[c][Len(transitions'[c])].to
      BY DEF StatusEndsLog, Log
    <2>1. CASE c \in cs
      <3>1. status'[c] = to
        BY <2>1 DEF Moved
      <3>2. /\ Len(transitions'[c]) = Len(transitions[c]) + 1
            /\ transitions'[c][Len(transitions'[c])] = Row(from, to)
            /\ Len(transitions[c]) \in Nat
        BY <2>1, <1>0 DEF LogGrows
      <3>3. transitions'[c] # <<>>
        BY <3>2
      <3>4. QED
        BY <3>1, <3>2, <3>3 DEF Row
    <2>2. CASE c \notin cs
      BY <2>2 DEF StatusEndsLog, Trail, Moved, Logged, Log
    <2>3. QED
      BY <2>1, <2>2
  <1>2. LogIsCausal'
    <2> SUFFICES ASSUME NEW c \in Candidates, NEW i \in 1 .. Len(transitions'[c])
                 PROVE  IF i = 1
                        THEN transitions'[c][i] = Row("none", "detected")
                        ELSE /\ <<transitions'[c][i].from, transitions'[c][i].to>> \in Allowed
                             /\ \E j \in 1 .. (i - 1) :
                                  transitions'[c][j].to = transitions'[c][i].from
      BY DEF LogIsCausal, Log
    <2>1. CASE i \in 1 .. Len(transitions[c])
      <3>1. IF i = 1
            THEN transitions[c][i] = Row("none", "detected")
            ELSE /\ <<transitions[c][i].from, transitions[c][i].to>> \in Allowed
                 /\ \E j \in 1 .. (i - 1) : transitions[c][j].to = transitions[c][i].from
        BY <2>1 DEF LogIsCausal, Log, Trail
      <3>2. \A j \in 1 .. i : transitions'[c][j] = transitions[c][j]
        BY <2>1, <1>0 DEF LogGrows
      <3>3. QED
        BY <3>1, <3>2
    <2>2. CASE i \notin 1 .. Len(transitions[c])
      <3>1. /\ c \in cs
            /\ i = Len(transitions[c]) + 1
            /\ transitions'[c][i] = Row(from, to)
            /\ Len(transitions[c]) \in Nat
        BY <2>2, <1>0 DEF LogGrows
      <3>2. CASE status[c] = "none" /\ Row(from, to) = Row("none", "detected")
        <4>1. transitions[c] = <<>>
          <5> SUFFICES ASSUME transitions[c] # <<>>
                       PROVE  FALSE
            OBVIOUS
          <5>1. transitions[c] \in Seq(TransitionRows)
            BY DEF TypeOK
          <5>2. Len(transitions[c]) \in 1 .. Len(transitions[c])
            BY <5>1
          <5>3. transitions[c][Len(transitions[c])] \in TransitionRows
            BY <5>1, <5>2
          <5>4. QED
            BY <5>3, <3>2 DEF StatusEndsLog, Trail, Log, Statuses, TransitionRows
        <4>2. i = 1
          BY <3>1, <4>1
        <4>3. QED
          BY <3>1, <3>2, <4>2
      <3>3. CASE Visited(c, from) /\ <<from, to>> \in Allowed
        <4>1. PICK j \in 1 .. Len(transitions[c]) : transitions[c][j].to = from
          BY <3>3 DEF Visited, Log
        <4>2. i # 1 /\ j \in 1 .. (i - 1) /\ transitions'[c][j].to = from
          BY <3>1, <4>1, <1>0 DEF LogGrows
        <4>3. QED
          BY <3>1, <3>3, <4>2 DEF Row
      <3>4. QED
        BY <3>1, <3>2, <3>3
    <2>3. QED
      BY <2>1, <2>2
  <1>3. QED
    BY <1>1, <1>2 DEF Trail

(* What a client is about to act on was true when it read it: a status the   *)
(* candidate had, an approval it was given.                                 *)
ReadIsReal(k) ==
  /\ op[k].kind = "transition" =>
       /\ Visited(op[k].candidate, op[k].from)
       /\ <<op[k].from, op[k].to>> \in Allowed
  /\ op[k].kind = "promote" =>
       promotable[op[k].candidate] /\ Visited(op[k].candidate, "approved")
  /\ op[k].kind = "dangling" => \A c \in op[k].stale : Visited(c, "promoted")

ReadsAreReal == \A k \in Clients : ReadIsReal(k)

\* The inductive invariant.  LogIsCausal needs that a client holds only what
\* the candidate really was (ReadsAreReal), which needs nothing but that the
\* trail only grows; the attempts hold because the reads do.
IInv ==
  /\ TypeInv
  /\ Trail
  /\ ReadsAreReal
  /\ AttemptsFollowApproval

LEMMA InitIInv == Init => IInv
  <1> SUFFICES ASSUME Init
               PROVE  IInv
    OBVIOUS
  <1>1. TypeInv
    BY InitTypeInv
  <1>2. Trail
    BY DEF Init, Trail, StatusEndsLog, LogIsCausal, Log
  <1>3. ReadsAreReal
    BY DEF Init, ReadsAreReal, ReadIsReal, Idle
  <1>4. AttemptsFollowApproval
    BY DEF Init, AttemptsFollowApproval, AttemptIsApproved
  <1>5. QED
    BY <1>1, <1>2, <1>3, <1>4 DEF IInv

\* A candidate's status is one its trail visits.
LEMMA StatusVisited ==
  ASSUME TypeOK, Trail, NEW c \in Candidates, status[c] # "none"
  PROVE  Visited(c, status[c])
  <1>1. transitions[c] \in Seq(TransitionRows) /\ transitions[c] # <<>>
    BY DEF TypeOK, Trail, StatusEndsLog, Log
  <1>2. Len(transitions[c]) \in 1 .. Len(transitions[c])
    BY <1>1
  <1>3. transitions[c][Len(transitions[c])].to = status[c]
    BY <1>1 DEF Trail, StatusEndsLog, Log
  <1>4. QED
    BY <1>2, <1>3 DEF Visited, Log

\* Trails that keep what they visited, and candidates that keep promotable
\* once approved, keep every read and every attempt justified.
VisitedNext(c, s) == \E i \in 1 .. Len(transitions'[c]) : transitions'[c][i].to = s

Grows == \A c \in Candidates, s \in Statuses : Visited(c, s) => VisitedNext(c, s)

KeepsPromotable ==
  \A c \in Candidates : Visited(c, "approved") => promotable'[c] = promotable[c]

LEMMA MoveGrows ==
  ASSUME TypeOK, NEW cs \in SUBSET Candidates,
         NEW from \in Statuses \cup {"none"}, NEW to \in Statuses,
         transitions' = Logged(cs, from, to)
  PROVE  Grows
  <1>1. LogGrows(cs, from, to)
    BY MoveExtendsLog
  <1>2. QED
    BY <1>1 DEF Grows, LogGrows, Visited, VisitedNext, Log

\* Operations in flight, and what they hold.
LEMMA OpFields ==
  ASSUME TypeOK, NEW k \in Clients
  PROVE  /\ op[k].kind = "transition" =>
              /\ op[k].candidate \in Candidates
              /\ op[k].from \in Statuses
              /\ op[k].to \in Statuses
         /\ op[k].kind = "promote" => op[k].candidate \in Candidates
         /\ op[k].kind = "complete" =>
              op[k].attempt \in Attempts /\ op[k].succeeded \in BOOLEAN
         /\ op[k].kind = "dangling" => op[k].stale \in SUBSET Candidates
  BY DEF TypeOK, Ops, Idle

\* A client whose operation a step leaves alone, or ends, keeps its read real.
LEMMA StepKeepsRead ==
  ASSUME TypeOK, ReadsAreReal, Grows, KeepsPromotable,
         NEW l \in Clients, op'[l] = op[l] \/ op'[l] = Idle
  PROVE  ReadIsReal(l)'
  <1>1. CASE op'[l] = Idle
    BY <1>1 DEF Idle, ReadIsReal
  <1>2. CASE op'[l] = op[l]
    <2>1. "approved" \in Statuses /\ "promoted" \in Statuses
      BY DEF Statuses
    <2>2. ReadIsReal(l)
      BY DEF ReadsAreReal
    <2>3. CASE op[l].kind = "transition"
      <3>1. VisitedNext(op[l].candidate, op[l].from)
        BY <2>2, <2>3, OpFields DEF Grows, ReadIsReal
      <3>2. QED
        BY <1>2, <2>2, <2>3, <3>1 DEF ReadIsReal, Visited, VisitedNext, Log
    <2>4. CASE op[l].kind = "promote"
      <3>1. VisitedNext(op[l].candidate, "approved") /\ promotable'[op[l].candidate]
        BY <2>1, <2>2, <2>4, OpFields DEF Grows, KeepsPromotable, ReadIsReal
      <3>2. QED
        BY <1>2, <2>4, <3>1 DEF ReadIsReal, Visited, VisitedNext, Log
    <2>5. CASE op[l].kind = "dangling"
      <3>1. \A c \in op[l].stale : VisitedNext(c, "promoted")
        BY <2>1, <2>2, <2>5, OpFields DEF Grows, ReadIsReal
      <3>2. QED
        BY <1>2, <2>5, <3>1 DEF ReadIsReal, Visited, VisitedNext, Log
    <2>6. CASE op[l].kind \notin {"transition", "promote", "dangling"}
      BY <1>2, <2>6 DEF ReadIsReal
    <2>7. QED
      BY <2>3, <2>4, <2>5, <2>6
  <1>3. QED
    BY <1>1, <1>2

LEMMA StepKeepsAttempt ==
  ASSUME TypeOK, AttemptsFollowApproval, Grows, KeepsPromotable,
         NEW a \in Attempts, attemptStatus[a] # "none", attemptOf'[a] = attemptOf[a]
  PROVE  AttemptIsApproved(a)'
  <1>1. AttemptIsApproved(a) /\ "approved" \in Statuses
    BY DEF AttemptsFollowApproval, Statuses
  <1>2. /\ attemptOf[a] \in Candidates
        /\ promotable'[attemptOf[a]]
        /\ VisitedNext(attemptOf[a], "approved")
    BY <1>1 DEF AttemptIsApproved, Grows, KeepsPromotable
  <1>3. QED
    BY <1>2 DEF AttemptIsApproved, Visited, VisitedNext, Log

\* A step that leaves the candidates and their trails alone.
LEMMA QuietStep ==
  ASSUME Trail, status' = status, transitions' = transitions, promotable' = promotable
  PROVE  Trail' /\ Grows /\ KeepsPromotable
  BY DEF Trail, StatusEndsLog, LogIsCausal, Log, Grows, Visited, VisitedNext, KeepsPromotable

\* A step that changes no attempt.
LEMMA AttemptsUntouched ==
  ASSUME TypeOK, AttemptsFollowApproval, Grows, KeepsPromotable,
         attemptOf' = attemptOf, attemptStatus' = attemptStatus
  PROVE  AttemptsFollowApproval'
  <1> SUFFICES ASSUME NEW a \in Attempts
               PROVE  AttemptIsApproved(a)'
    BY DEF AttemptsFollowApproval
  <1>1. CASE attemptStatus[a] = "none"
    BY <1>1 DEF AttemptIsApproved
  <1>2. CASE attemptStatus[a] # "none"
    BY <1>2, StepKeepsAttempt
  <1>3. QED
    BY <1>1, <1>2

\* A step that ends the operation of client k or none.
LEMMA OpEnds ==
  ASSUME TypeOK, ReadsAreReal, Grows, KeepsPromotable,
         NEW k \in Clients, op' = op \/ op' = [op EXCEPT ![k] = Idle]
  PROVE  ReadsAreReal'
  <1> SUFFICES ASSUME NEW l \in Clients
               PROVE  ReadIsReal(l)'
    BY DEF ReadsAreReal
  <1>1. op'[l] = op[l] \/ op'[l] = Idle
    BY DEF TypeOK
  <1>2. QED
    BY <1>1, StepKeepsRead

\* A step that starts operation r of client k.
LEMMA OpStarts ==
  ASSUME TypeOK, ReadsAreReal, Grows, KeepsPromotable,
         NEW k \in Clients, NEW r, op' = [op EXCEPT ![k] = r], ReadIsReal(k)'
  PROVE  ReadsAreReal'
  <1> SUFFICES ASSUME NEW l \in Clients
               PROVE  ReadIsReal(l)'
    BY DEF ReadsAreReal
  <1>1. CASE l = k
    BY <1>1
  <1>2. CASE l # k
    <2>1. op'[l] = op[l]
      BY <1>2 DEF TypeOK
    <2>2. QED
      BY <2>1, StepKeepsRead
  <1>3. QED
    BY <1>1, <1>2

\* The rest of IInv, which every step keeps when TypeInv holds before it.
Evidence == Trail /\ ReadsAreReal /\ AttemptsFollowApproval

LEMMA NextEvidence == IInv /\ [Next]_vars => Evidence'
  <1> SUFFICES ASSUME IInv, [Next]_vars
               PROVE  Evidence'
    OBVIOUS
  <1> TypeOK /\ AttemptRows /\ Trail /\ ReadsAreReal /\ AttemptsFollowApproval
    BY DEF IInv, TypeInv
  <1> USE DEF Evidence, attempts
  <1>1. ASSUME NEW k \in Clients, NEW c \in Candidates, NEW p \in BOOLEAN,
               CreateCandidate(k, c, p)
        PROVE  Evidence'
    <2>1. /\ "detected" \in Statuses
          /\ status[c] = "none"
          /\ status' = Moved({c}, "detected")
          /\ transitions' = Logged({c}, "none", "detected")
          /\ op' = op /\ attemptOf' = attemptOf /\ attemptStatus' = attemptStatus
      BY <1>1 DEF CreateCandidate, Statuses
    <2>2. Trail'
      <3>1. {c} \in SUBSET Candidates /\ "none" \in Statuses \cup {"none"}
        OBVIOUS
      <3>2. \A d \in {c} : status[d] = "none" /\ Row("none", "detected") = Row("none", "detected")
        BY <2>1
      <3>3. QED
        BY <2>1, <3>1, <3>2, MoveKeepsTrail
    <2>3. Grows
      BY <2>1, MoveGrows
    <2>4. KeepsPromotable
      <3>1. Log(c) = <<>>
        <4> SUFFICES ASSUME Log(c) # <<>>
                     PROVE  FALSE
          OBVIOUS
        <4>1. transitions[c] \in Seq(TransitionRows)
          BY DEF TypeOK
        <4>2. Len(transitions[c]) \in 1 .. Len(transitions[c])
          BY <4>1 DEF Log
        <4>3. transitions[c][Len(transitions[c])] \in TransitionRows
          BY <4>1, <4>2
        <4>4. QED
          BY <2>1, <4>3 DEF Trail, StatusEndsLog, Log, Statuses, TransitionRows
      <3>2. ~ Visited(c, "approved")
        BY <3>1 DEF Visited
      <3>3. QED
        BY <1>1, <3>2 DEF CreateCandidate, KeepsPromotable, TypeOK
    <2>5. QED
      BY <2>1, <2>2, <2>3, <2>4, OpEnds, AttemptsUntouched
  <1>2. ASSUME NEW k \in Clients, NEW c \in Candidates, NEW to \in Statuses,
               StartTransition(k, c, to)
        PROVE  Evidence'
    <2>1. Trail' /\ Grows /\ KeepsPromotable
      BY <1>2, QuietStep DEF StartTransition
    <2>2. <<status[c], to>> \in Allowed /\ status[c] \in Statuses /\ status[c] # "none"
      BY <1>2 DEF StartTransition, MayTransition, Allowed, Statuses
    <2>3. VisitedNext(c, status[c])
      BY <2>1, <2>2, StatusVisited DEF Grows
    <2>4. op'[k] = [kind |-> "transition", candidate |-> c, from |-> status[c], to |-> to]
      BY <1>2 DEF StartTransition, TypeOK
    <2>5. ReadIsReal(k)'
      BY <2>2, <2>3, <2>4 DEF ReadIsReal, Visited, VisitedNext, Log
    <2>6. QED
      BY <1>2, <2>1, <2>5, OpStarts, AttemptsUntouched DEF StartTransition
  <1>3. ASSUME NEW k \in Clients, CommitTransition(k)
        PROVE  Evidence'
    <2> DEFINE c == op[k].candidate
    <2>1. /\ op[k].kind = "transition"
          /\ c \in Candidates /\ op[k].from \in Statuses /\ op[k].to \in Statuses
          /\ status' = Moved({c}, op[k].to)
          /\ transitions' = Logged({c}, op[k].from, op[k].to)
          /\ promotable' = promotable
          /\ op' = [op EXCEPT ![k] = Idle]
          /\ attemptOf' = attemptOf /\ attemptStatus' = attemptStatus
      BY <1>3, OpFields DEF CommitTransition
    <2>2. Visited(c, op[k].from) /\ <<op[k].from, op[k].to>> \in Allowed
      BY <2>1 DEF ReadsAreReal, ReadIsReal
    <2> HIDE DEF c
    <2>3. Trail'
      BY <2>1, <2>2, MoveKeepsTrail
    <2>4. Grows
      BY <2>1, MoveGrows
    <2>5. KeepsPromotable
      BY <2>1 DEF KeepsPromotable
    <2>6. QED
      BY <2>1, <2>3, <2>4, <2>5, OpEnds, AttemptsUntouched
  <1>4. ASSUME NEW k \in Clients, NEW c \in Candidates, StartPromote(k, c)
        PROVE  Evidence'
    <2>1. Trail' /\ Grows /\ KeepsPromotable
      BY <1>4, QuietStep DEF StartPromote
    <2>2. status[c] = "approved" /\ promotable[c] /\ "approved" \in Statuses
      BY <1>4 DEF StartPromote, MayPromote, Statuses
    <2>3. VisitedNext(c, "approved")
      BY <2>1, <2>2, StatusVisited DEF Grows
    <2>4. op'[k] = [kind |-> "promote", candidate |-> c] /\ promotable'[c]
      BY <1>4, <2>2 DEF StartPromote, TypeOK
    <2>5. ReadIsReal(k)'
      BY <2>3, <2>4 DEF ReadIsReal, Visited, VisitedNext, Log
    <2>6. QED
      BY <1>4, <2>1, <2>5, OpStarts, AttemptsUntouched DEF StartPromote
  <1>5. ASSUME NEW k \in Clients, NEW a \in Attempts, CommitPromote(k, a)
        PROVE  Evidence'
    <2>1. Trail' /\ Grows /\ KeepsPromotable
      BY <1>5, QuietStep DEF CommitPromote
    <2>2. ReadsAreReal'
      BY <1>5, <2>1, OpEnds DEF CommitPromote
    <2>3. ASSUME NEW b \in Attempts
          PROVE  AttemptIsApproved(b)'
      <3>1. CASE b = a
        <4>1. /\ op[k].candidate \in Candidates
              /\ promotable[op[k].candidate]
              /\ Visited(op[k].candidate, "approved")
          BY <1>5, OpFields DEF CommitPromote, ReadsAreReal, ReadIsReal
        <4>2. /\ attemptOf'[a] = op[k].candidate
              /\ promotable' = promotable /\ transitions' = transitions
          BY <1>5 DEF CommitPromote, TypeOK
        <4>3. QED
          BY <3>1, <4>1, <4>2 DEF AttemptIsApproved, Visited, Log
      <3>2. CASE b # a /\ attemptStatus[b] = "none"
        BY <1>5, <3>2 DEF CommitPromote, TypeOK, AttemptIsApproved
      <3>3. CASE b # a /\ attemptStatus[b] # "none"
        <4>1. attemptOf'[b] = attemptOf[b]
          BY <1>5, <3>3 DEF CommitPromote, TypeOK
        <4>2. QED
          BY <2>1, <3>3, <4>1, StepKeepsAttempt
      <3>4. QED
        BY <3>1, <3>2, <3>3
    <2>4. QED
      BY <2>1, <2>2, <2>3 DEF AttemptsFollowApproval
  <1>6. ASSUME NEW k \in Clients, NEW a \in Attempts, NEW succeeded \in BOOLEAN,
               StartComplete(k, a, succeeded)
        PROVE  Evidence'
    <2>1. Trail' /\ Grows /\ KeepsPromotable
      BY <1>6, QuietStep DEF StartComplete
    <2>2. ReadIsReal(k)'
      BY <1>6 DEF StartComplete, TypeOK, ReadIsReal
    <2>3. QED
      BY <1>6, <2>1, <2>2, OpStarts, AttemptsUntouched DEF StartComplete
  <1>7. ASSUME NEW k \in Clients, CompleteSucceeded(k)
        PROVE  Evidence'
    <2> DEFINE a == op[k].attempt
               c == attemptOf[a]
    <2>1. /\ a \in Attempts /\ attemptStatus[a] # "none" /\ c \in Candidates
      BY <1>7, OpFields DEF CompleteSucceeded, AttemptRows
    <2>2. /\ <<status[c], "promoted">> \in Allowed
          /\ status' = Moved({c}, "promoted")
          /\ transitions' = Logged({c}, status[c], "promoted")
          /\ promotable' = promotable
          /\ op' = [op EXCEPT ![k] = Idle]
          /\ attemptOf' = attemptOf
          /\ attemptStatus' = [attemptStatus EXCEPT ![a] = "succeeded"]
      BY <1>7 DEF CompleteSucceeded, MayFinalise, MayTransition
    <2>3. status[c] \in Statuses /\ status[c] # "none" /\ "promoted" \in Statuses
      BY <2>2 DEF Allowed, Statuses
    <2>4. Visited(c, status[c])
      BY <2>1, <2>3, StatusVisited
    <2> HIDE DEF a, c
    <2>5. Trail'
      BY <2>1, <2>2, <2>3, <2>4, MoveKeepsTrail
    <2>6. Grows
      BY <2>1, <2>2, <2>3, MoveGrows
    <2>7. KeepsPromotable
      BY <2>2 DEF KeepsPromotable
    <2>8. ReadsAreReal'
      BY <2>2, <2>6, <2>7, OpEnds
    <2>9. ASSUME NEW b \in Attempts
          PROVE  AttemptIsApproved(b)'
      <3>1. CASE attemptStatus[b] = "none"
        <4>1. b # a
          BY <2>1, <3>1
        <4>2. attemptStatus'[b] = "none"
          BY <2>2, <3>1, <4>1 DEF TypeOK
        <4>3. QED
          BY <4>2 DEF AttemptIsApproved
      <3>2. CASE attemptStatus[b] # "none"
        BY <2>2, <2>6, <2>7, <3>2, StepKeepsAttempt
      <3>3. QED
        BY <3>1, <3>2
    <2>10. QED
      BY <2>5, <2>8, <2>9 DEF AttemptsFollowApproval
  <1>8. ASSUME NEW k \in Clients, CompleteFailed(k)
        PROVE  Evidence'
    <2>1. Trail' /\ Grows /\ KeepsPromotable
      BY <1>8, QuietStep DEF CompleteFailed
    <2>2. ReadsAreReal'
      BY <1>8, <2>1, OpEnds DEF CompleteFailed
    <2>3. op[k].attempt \in Attempts /\ attemptStatus[op[k].attempt] # "none"
      BY <1>8, OpFields DEF CompleteFailed, AttemptRows
    <2>4. ASSUME NEW b \in Attempts
          PROVE  AttemptIsApproved(b)'
      <3>1. CASE attemptStatus[b] = "none"
        BY <1>8, <2>3, <3>1 DEF CompleteFailed, TypeOK, AttemptIsApproved
      <3>2. CASE attemptStatus[b] # "none"
        BY <1>8, <2>1, <3>2, StepKeepsAttempt DEF CompleteFailed
      <3>3. QED
        BY <3>1, <3>2
    <2>5. QED
      BY <2>1, <2>2, <2>4 DEF AttemptsFollowApproval
  <1>9. ASSUME NEW k \in Clients, NEW stale \in SUBSET Candidates,
               StartDangling(k, stale)
        PROVE  Evidence'
    <2>1. Trail' /\ Grows /\ KeepsPromotable
      BY <1>9, QuietStep DEF StartDangling
    <2>2. \A c \in stale : VisitedNext(c, "promoted")
      <3> SUFFICES ASSUME NEW c \in stale
                   PROVE  VisitedNext(c, "promoted")
        OBVIOUS
      <3>1. c \in Candidates /\ status[c] = "promoted" /\ "promoted" \in Statuses
        BY <1>9 DEF StartDangling, MayDangle, Statuses
      <3>2. QED
        BY <2>1, <3>1, StatusVisited DEF Grows
    <2>3. op'[k] = [kind |-> "dangling", stale |-> stale]
      BY <1>9 DEF StartDangling, TypeOK
    <2>4. ReadIsReal(k)'
      BY <2>2, <2>3 DEF ReadIsReal, Visited, VisitedNext, Log
    <2>5. QED
      BY <1>9, <2>1, <2>4, OpStarts, AttemptsUntouched DEF StartDangling
  <1>10. ASSUME NEW k \in Clients, CommitDangling(k)
         PROVE  Evidence'
    <2> DEFINE cs == op[k].stale
    <2>1. /\ op[k].kind = "dangling"
          /\ cs \in SUBSET Candidates
          /\ status' = Moved(cs, "dangling")
          /\ transitions' = Logged(cs, "promoted", "dangling")
          /\ promotable' = promotable
          /\ op' = [op EXCEPT ![k] = Idle]
          /\ attemptOf' = attemptOf /\ attemptStatus' = attemptStatus
      BY <1>10, OpFields DEF CommitDangling
    <2>2. \A c \in cs : Visited(c, "promoted")
      BY <2>1 DEF ReadsAreReal, ReadIsReal
    <2>3. /\ "promoted" \in Statuses /\ "dangling" \in Statuses
          /\ <<"promoted", "dangling">> \in Allowed
      BY DEF Statuses, Allowed
    <2> HIDE DEF cs
    <2>4. Trail'
      BY <2>1, <2>2, <2>3, MoveKeepsTrail
    <2>5. Grows
      BY <2>1, <2>3, MoveGrows
    <2>6. KeepsPromotable
      BY <2>1 DEF KeepsPromotable
    <2>7. QED
      BY <2>1, <2>4, <2>5, <2>6, OpEnds, AttemptsUntouched
  <1>11. ASSUME NEW k \in Clients, Abort(k)
         PROVE  Evidence'
    <2>1. Trail' /\ Grows /\ KeepsPromotable
      BY <1>11, QuietStep DEF Abort
    <2>2. QED
      BY <1>11, <2>1, OpEnds, AttemptsUntouched DEF Abort
  <1>12. CASE UNCHANGED vars
    <2>1. Trail' /\ Grows /\ KeepsPromotable
      BY <1>12, QuietStep DEF vars
    <2>2. ReadsAreReal'
      BY <1>12 DEF vars, ReadsAreReal, ReadIsReal, Visited, Log
    <2>3. QED
      BY <1>12, <2>1, <2>2, AttemptsUntouched DEF vars
  <1>13. QED
    BY <1>1, <1>2, <1>3, <1>4, <1>5, <1>6, <1>7, <1>8, <1>9, <1>10, <1>11, <1>12
       DEF Next

LEMMA Invariance == Spec => []IInv
  <1>1. Init => IInv
    BY InitIInv
  <1>2. IInv /\ [Next]_vars => IInv'
    BY NextTypeOK, NextAttemptRows, NextEvidence DEF IInv, TypeInv, Evidence
  <1>3. QED
    BY <1>1, <1>2, PTL DEF Spec

\* Whatever the clients interleave, every row of the audit trail starts from a
\* status the candidate really had and is an allowed transition.
THEOREM CausalTrail == Spec => []LogIsCausal
  <1>1. IInv => LogIsCausal
    BY DEF IInv, Trail
  <1>2. QED
    BY <1>1, Invariance, PTL

\* No attempt is opened for a candidate nobody approved, by any interleaving.
THEOREM OnlyApprovedAttempts == Spec => []AttemptsFollowApproval
  <1>1. IInv => AttemptsFollowApproval
    BY DEF IInv
  <1>2. QED
    BY <1>1, Invariance, PTL

\* No interleaving takes to promoted, or on to dangling, a candidate that no
\* reviewer approved.
THEOREM NoPromotionWithoutApproval == Spec => []ApprovedBeforePromoted
  <1>1. IInv => ApprovedBeforePromoted
    <2> SUFFICES ASSUME IInv, NEW c \in Candidates
                 PROVE  /\ status[c] \in {"promoted", "dangling"} => Visited(c, "approved")
                        /\ \A i \in 1 .. Len(Log(c)) :
                             Log(c)[i].to \in {"promoted", "dangling"} =>
                               \E j \in 1 .. (i - 1) :
                                 Log(c)[j].to = IF Log(c)[i].to = "promoted"
                                                THEN "approved" ELSE "promoted"
      BY DEF ApprovedBeforePromoted
    <2>1. TypeOK /\ Trail
      BY DEF IInv, TypeInv
    <2>2. Log(c) \in Seq(TransitionRows)
      BY <2>1 DEF TypeOK, Log
    <2>3. ASSUME NEW i \in 1 .. Len(Log(c)), Log(c)[i].to \in {"promoted", "dangling"}
          PROVE  \E j \in 1 .. (i - 1) :
                   Log(c)[j].to = IF Log(c)[i].to = "promoted" THEN "approved" ELSE "promoted"
      <3>1. i # 1
        <4> SUFFICES ASSUME i = 1
                     PROVE  FALSE
          OBVIOUS
        <4>1. Log(c)[i] = Row("none", "detected")
          BY <2>1 DEF Trail, LogIsCausal
        <4>2. Log(c)[i].to = "detected"
          BY <4>1 DEF Row
        <4>3. QED
          BY <2>3, <4>2
      <3>2. /\ <<Log(c)[i].from, Log(c)[i].to>> \in Allowed
            /\ \E j \in 1 .. (i - 1) : Log(c)[j].to = Log(c)[i].from
        BY <2>1, <3>1 DEF Trail, LogIsCausal
      <3>3. Log(c)[i].from = IF Log(c)[i].to = "promoted" THEN "approved" ELSE "promoted"
        BY <2>3, <3>2 DEF Allowed
      <3>4. QED
        BY <3>2, <3>3
    <2>4. ASSUME Visited(c, "promoted")
          PROVE  Visited(c, "approved")
      BY <2>2, <2>3, <2>4 DEF Visited
    <2>5. ASSUME Visited(c, "dangling")
          PROVE  Visited(c, "promoted")
      BY <2>2, <2>3, <2>5 DEF Visited
    <2>6. ASSUME status[c] \in {"promoted", "dangling"}
          PROVE  Visited(c, "approved")
      <3>1. Visited(c, status[c])
        BY <2>1, <2>6, StatusVisited
      <3>2. QED
        BY <2>4, <2>5, <2>6, <3>1
    <2>7. QED
      BY <2>3, <2>6
  <1>2. QED
    BY <1>1, Invariance, PTL

----------------------------------------------------------------------------
(* The candidates row and the trail.                                       *)

\* A transaction that moves the candidates in cs stamps them as it logs them.
LEMMA MoveStamps ==
  ASSUME TypeOK, StampsMatchLog, NEW cs \in SUBSET Candidates,
         NEW from \in Statuses \cup {"none"}, NEW to \in Statuses,
         transitions' = Logged(cs, from, to),
         reviewedAt' = IF to \in Reviews THEN reviewedAt \cup cs ELSE reviewedAt,
         promotedAt' = IF to = "promoted" THEN promotedAt \cup cs ELSE promotedAt
  PROVE  StampsMatchLog'
  <1> SUFFICES ASSUME NEW c \in Candidates
               PROVE  /\ c \in reviewedAt' <=>
                           (Visited(c, "approved")' \/ Visited(c, "rejected")')
                      /\ c \in promotedAt' <=> Visited(c, "promoted")'
    BY DEF StampsMatchLog
  <1>1. /\ Visited(c, "approved")' <=> Visited(c, "approved") \/ (c \in cs /\ to = "approved")
        /\ Visited(c, "rejected")' <=> Visited(c, "rejected") \/ (c \in cs /\ to = "rejected")
        /\ Visited(c, "promoted")' <=> Visited(c, "promoted") \/ (c \in cs /\ to = "promoted")
    BY MoveVisits
  <1>2. QED
    BY <1>1 DEF StampsMatchLog, Reviews

LEMMA NextStamps == TypeInv /\ StampsMatchLog /\ [Next]_vars => StampsMatchLog'
  <1> SUFFICES ASSUME TypeInv, StampsMatchLog, [Next]_vars
               PROVE  StampsMatchLog'
    OBVIOUS
  <1> TypeOK /\ AttemptRows
    BY DEF TypeInv
  <1> {"detected", "promoted", "dangling"} \subseteq Statuses
      /\ {"detected", "promoted", "dangling"} \cap Reviews = {}
    BY DEF Statuses, Reviews
  <1>1. ASSUME NEW k \in Clients, NEW c \in Candidates, NEW p \in BOOLEAN,
               CreateCandidate(k, c, p)
        PROVE  StampsMatchLog'
    BY <1>1, MoveStamps DEF CreateCandidate
  <1>2. ASSUME NEW k \in Clients, CommitTransition(k)
        PROVE  StampsMatchLog'
    <2>1. /\ {op[k].candidate} \in SUBSET Candidates
          /\ op[k].from \in Statuses \cup {"none"} /\ op[k].to \in Statuses
      BY <1>2, OpFields DEF CommitTransition
    <2>2. /\ transitions' = Logged({op[k].candidate}, op[k].from, op[k].to)
          /\ reviewedAt' = IF op[k].to \in Reviews THEN reviewedAt \cup {op[k].candidate}
                                                  ELSE reviewedAt
          /\ promotedAt' = IF op[k].to = "promoted" THEN promotedAt \cup {op[k].candidate}
                                                   ELSE promotedAt
      BY <1>2 DEF CommitTransition, Reviewed
    <2>3. QED
      BY <2>1, <2>2, MoveStamps
  <1>3. ASSUME NEW k \in Clients, CompleteSucceeded(k)
        PROVE  StampsMatchLog'
    <2> DEFINE c == attemptOf[op[k].attempt]
    <2>1. c \in Candidates /\ status[c] \in Statuses \cup {"none"}
      BY <1>3, OpFields DEF CompleteSucceeded, AttemptRows, TypeOK
    <2>2. /\ transitions' = Logged({c}, status[c], "promoted")
          /\ reviewedAt' = reviewedAt /\ promotedAt' = promotedAt \cup {c}
      BY <1>3 DEF CompleteSucceeded
    <2> HIDE DEF c
    <2>3. QED
      BY <2>1, <2>2, MoveStamps
  <1>4. ASSUME NEW k \in Clients, CommitDangling(k)
        PROVE  StampsMatchLog'
    <2>1. op[k].stale \in SUBSET Candidates
      BY <1>4, OpFields DEF CommitDangling
    <2>2. /\ transitions' = Logged(op[k].stale, "promoted", "dangling")
          /\ reviewedAt' = reviewedAt /\ promotedAt' = promotedAt
      BY <1>4 DEF CommitDangling
    <2>3. QED
      BY <2>1, <2>2, MoveStamps
  <1>5. CASE UNCHANGED <<reviewedAt, promotedAt, transitions>>
    BY <1>5 DEF StampsMatchLog, Visited, Log
  <1>6. QED
    BY <1>1, <1>2, <1>3, <1>4, <1>5
       DEF Next, vars, StartTransition, StartPromote, CommitPromote, StartComplete,
           CompleteFailed, StartDangling, Abort

\* The candidates row and the audit trail agree after every transaction.
THEOREM RowsMatchTrails == Spec => []RowMatchesLog
  <1>1. Init => StampsMatchLog
    <2> SUFFICES ASSUME Init, NEW c \in Candidates
                 PROVE  /\ c \in reviewedAt <=> (Visited(c, "approved") \/ Visited(c, "rejected"))
                        /\ c \in promotedAt <=> Visited(c, "promoted")
      BY DEF StampsMatchLog
    <2>1. Log(c) = <<>>
      BY DEF Init, Log
    <2>2. \A s : ~ Visited(c, s)
      BY <2>1 DEF Visited
    <2>3. QED
      BY <2>2 DEF Init
  <1>2. IInv /\ StampsMatchLog /\ [Next]_vars => StampsMatchLog'
    BY NextStamps DEF IInv
  <1>3. IInv /\ StampsMatchLog => RowMatchesLog
    BY DEF IInv, Trail, RowMatchesLog
  <1>4. QED
    BY <1>1, <1>2, <1>3, Invariance, PTL DEF Spec

----------------------------------------------------------------------------
(* What the transactions guarantee step by step: that an attempt succeeds   *)
(* only together with its promotion (any clients), and that operations      *)
(* which do not overlap implement CandidateLifecycle.                       *)

LEMMA TypeInvariance == Spec => []TypeInv
  BY InitTypeInv, NextTypeOK, NextAttemptRows, PTL DEF Spec, TypeInv

\* The commit that marks an attempt succeeded moves its candidate from approved
\* to promoted, however many clients run.
LEMMA PromotionStep ==
  ASSUME TypeInv, [Next]_vars, NEW a \in Attempts,
         attemptStatus'[a] = "succeeded", attemptStatus[a] # "succeeded"
  PROVE  status[attemptOf[a]] = "approved" /\ status'[attemptOf[a]] = "promoted"
  <1> TypeOK /\ AttemptRows
    BY DEF TypeInv
  <1>1. attemptStatus' # attemptStatus
    OBVIOUS
  <1>2. ASSUME NEW k \in Clients, CompleteSucceeded(k)
        PROVE  status[attemptOf[a]] = "approved" /\ status'[attemptOf[a]] = "promoted"
    <2>1. a = op[k].attempt
      BY <1>2 DEF CompleteSucceeded, TypeOK
    <2>2. attemptOf[a] \in Candidates
      BY <1>2, <2>1 DEF CompleteSucceeded, AttemptRows
    <2>3. status[attemptOf[a]] = "approved"
      BY <1>2, <2>1 DEF CompleteSucceeded, MayFinalise, MayTransition, Allowed
    <2>4. status'[attemptOf[a]] = "promoted"
      BY <1>2, <2>1, <2>2 DEF CompleteSucceeded, Moved
    <2>5. QED
      BY <2>3, <2>4
  <1>3. ASSUME NEW k \in Clients, NEW b \in Attempts, CommitPromote(k, b)
        PROVE  FALSE
    BY <1>3 DEF CommitPromote, TypeOK
  <1>4. ASSUME NEW k \in Clients, CompleteFailed(k)
        PROVE  FALSE
    BY <1>4 DEF CompleteFailed, TypeOK
  <1>5. QED
    BY <1>1, <1>2, <1>3, <1>4
       DEF Next, vars, attempts, CreateCandidate, StartTransition, CommitTransition,
           StartPromote, StartComplete, StartDangling, CommitDangling, Abort

THEOREM AtomicPromotion == Spec => PromotionIsAtomic
  <1>1. TypeInv /\ [Next]_vars =>
          [\A a \in Attempts :
             attemptStatus'[a] = "succeeded" /\ attemptStatus[a] # "succeeded" =>
               /\ status[attemptOf[a]] = "approved"
               /\ status'[attemptOf[a]] = "promoted"]_vars
    BY PromotionStep
  <1>2. QED
    BY <1>1, TypeInvariance, PTL DEF Spec, PromotionIsAtomic

----------------------------------------------------------------------------
(* One client at a time.                                                   *)

Serial == \A k, l \in Clients : k = l

\* What a client read is still so.
Fresh(k) ==
  /\ op[k].kind = "transition" => status[op[k].candidate] = op[k].from
  /\ op[k].kind = "promote" => MayPromote(op[k].candidate)
  /\ op[k].kind = "complete" => MayComplete(op[k].attempt)
  /\ op[k].kind = "dangling" => MayDangle(op[k].stale)

ReadsAreFresh == \A k \in Clients : Fresh(k)

SerialInv == IInv /\ ReadsAreFresh

LEMMA NextFresh ==
  ASSUME Serial, SerialInv, [Next]_vars
  PROVE  ReadsAreFresh'
  <1> TypeOK /\ ReadsAreFresh
    BY DEF SerialInv, IInv, TypeInv
  <1> SUFFICES ASSUME NEW l \in Clients
               PROVE  Fresh(l)'
    BY DEF ReadsAreFresh
  <1> USE DEF attempts
  <1>1. \A k \in Clients : k = l
    BY DEF Serial
  <1>2. ASSUME op'[l] = Idle
        PROVE  Fresh(l)'
    BY <1>2 DEF Fresh, Idle
  <1>3. ASSUME NEW c \in Candidates, NEW p \in BOOLEAN, CreateCandidate(l, c, p)
        PROVE  Fresh(l)'
    BY <1>2, <1>3 DEF CreateCandidate
  <1>4. ASSUME NEW c \in Candidates, NEW to \in Statuses, StartTransition(l, c, to)
        PROVE  Fresh(l)'
    <2>1. /\ op'[l] = [kind |-> "transition", candidate |-> c,
                       from |-> status[c], to |-> to]
          /\ status' = status
      BY <1>4 DEF StartTransition, TypeOK
    <2>2. QED
      BY <2>1 DEF Fresh
  <1>5. ASSUME NEW c \in Candidates, StartPromote(l, c)
        PROVE  Fresh(l)'
    <2>1. /\ op'[l] = [kind |-> "promote", candidate |-> c]
          /\ status' = status /\ promotable' = promotable /\ MayPromote(c)
      BY <1>5 DEF StartPromote, TypeOK
    <2>2. QED
      BY <2>1 DEF Fresh, MayPromote
  <1>6. ASSUME NEW a \in Attempts, NEW succeeded \in BOOLEAN, StartComplete(l, a, succeeded)
        PROVE  Fresh(l)'
    <2>1. /\ op'[l] = [kind |-> "complete", attempt |-> a, succeeded |-> succeeded]
          /\ attemptStatus' = attemptStatus /\ MayComplete(a)
      BY <1>6 DEF StartComplete, TypeOK
    <2>2. QED
      BY <2>1 DEF Fresh, MayComplete
  <1>7. ASSUME NEW stale \in SUBSET Candidates, StartDangling(l, stale)
        PROVE  Fresh(l)'
    <2>1. /\ op'[l] = [kind |-> "dangling", stale |-> stale]
          /\ status' = status /\ MayDangle(stale)
      BY <1>7 DEF StartDangling, TypeOK
    <2>2. QED
      BY <2>1 DEF Fresh, MayDangle
  <1>8. ASSUME \/ CommitTransition(l)
               \/ \E a \in Attempts : CommitPromote(l, a)
               \/ CompleteSucceeded(l)
               \/ CompleteFailed(l)
               \/ CommitDangling(l)
               \/ Abort(l)
        PROVE  Fresh(l)'
    <2>1. op'[l] = Idle
      BY <1>8 DEF CommitTransition, CommitPromote, CompleteSucceeded, CompleteFailed,
                  CommitDangling, Abort, TypeOK
    <2>2. QED
      BY <1>2, <2>1
  <1>9. CASE UNCHANGED vars
    <2>1. Fresh(l)
      BY DEF ReadsAreFresh
    <2>2. QED
      BY <1>9, <2>1 DEF vars, Fresh, MayPromote, MayComplete, MayDangle
  <1>10. QED
    BY <1>1, <1>3, <1>4, <1>5, <1>6, <1>7, <1>8, <1>9 DEF Next

LEMMA SerialInvariance ==
  ASSUME Serial
  PROVE  Spec => []SerialInv
  <1>1. Init => ReadsAreFresh
    BY DEF Init, ReadsAreFresh, Fresh, Idle
  <1>2. SerialInv /\ [Next]_vars => ReadsAreFresh'
    BY NextFresh
  <1>3. IInv /\ ReadsAreFresh <=> SerialInv
    BY DEF SerialInv
  <1>4. QED
    BY <1>1, <1>2, <1>3, Invariance, PTL DEF Spec

LEMMA LifecycleInit == Init => Lifecycle!Init
  BY DEF Init, Lifecycle!Init

\* The transitions the store validates are those of the lifecycle.
LEMMA AllowedIsSuccessor ==
  ASSUME NEW s, NEW to, <<s, to>> \in Allowed
  PROVE  s # "none" /\ to \in Lifecycle!Successors[s]
  BY DEF Allowed, Lifecycle!Successors

\* A commit maps to the lifecycle's operation, because what the client read is
\* fresh; every other step maps to a stutter.
LEMMA LifecycleNext ==
  ASSUME SerialInv, [Next]_vars
  PROVE  [Lifecycle!Next]_(Lifecycle!vars)
  <1> TypeOK /\ AttemptRows /\ ReadsAreReal /\ ReadsAreFresh
    BY DEF SerialInv, IInv, TypeInv
  <1> USE DEF attempts, Lifecycle!vars
  <1>1. ASSUME NEW k \in Clients, NEW c \in Candidates, NEW p \in BOOLEAN,
               CreateCandidate(k, c, p)
        PROVE  Lifecycle!Next
    <2>1. status' = [status EXCEPT ![c] = "detected"]
      BY <1>1 DEF CreateCandidate, Moved, TypeOK
    <2>2. Lifecycle!Detect(c, p)
      BY <1>1, <2>1 DEF CreateCandidate, Lifecycle!Detect
    <2>3. QED
      BY <2>2 DEF Lifecycle!Next
  <1>2. ASSUME NEW k \in Clients, CommitTransition(k)
        PROVE  Lifecycle!Next
    <2> DEFINE c == op[k].candidate
               to == op[k].to
    <2>1. /\ op[k].kind = "transition"
          /\ c \in Candidates
          /\ status' = Moved({c}, to)
          /\ promotable' = promotable /\ attemptOf' = attemptOf
          /\ attemptStatus' = attemptStatus
      BY <1>2, OpFields DEF CommitTransition
    <2>2. <<status[c], to>> \in Allowed
      BY <2>1 DEF ReadsAreReal, ReadIsReal, ReadsAreFresh, Fresh
    <2> HIDE DEF c, to
    <2>3. status' = [status EXCEPT ![c] = to]
      BY <2>1 DEF Moved, TypeOK
    <2>4. status[c] # "none" /\ to \in Lifecycle!Successors[status[c]]
      BY <2>2, AllowedIsSuccessor
    <2>5. Lifecycle!Move(c, to)
      BY <2>1, <2>3, <2>4 DEF Lifecycle!Move
    <2>6. QED
      BY <2>1, <2>4, <2>5 DEF Lifecycle!Next
  <1>3. ASSUME NEW k \in Clients, NEW a \in Attempts, CommitPromote(k, a)
        PROVE  Lifecycle!Next
    <2>1. op[k].candidate \in Candidates /\ MayPromote(op[k].candidate)
      BY <1>3, OpFields DEF CommitPromote, ReadsAreFresh, Fresh
    <2>2. Lifecycle!Open(a, op[k].candidate)
      BY <1>3, <2>1 DEF CommitPromote, MayPromote, Lifecycle!Open
    <2>3. QED
      BY <2>1, <2>2 DEF Lifecycle!Next
  <1>4. ASSUME NEW k \in Clients, CompleteSucceeded(k)
        PROVE  Lifecycle!Next
    <2> DEFINE a == op[k].attempt
    <2>1. /\ a \in Attempts /\ attemptOf[a] \in Candidates
          /\ attemptStatus[a] = "pending"
      BY <1>4, OpFields DEF CompleteSucceeded, AttemptRows, ReadsAreFresh, Fresh, MayComplete
    <2>2. /\ status[attemptOf[a]] = "approved"
          /\ status' = [status EXCEPT ![attemptOf[a]] = "promoted"]
      BY <1>4, <2>1
         DEF CompleteSucceeded, MayFinalise, MayTransition, Allowed, Moved, TypeOK
    <2>3. Lifecycle!Succeed(a)
      BY <1>4, <2>1, <2>2 DEF CompleteSucceeded, Lifecycle!Succeed
    <2>4. QED
      BY <2>1, <2>3 DEF Lifecycle!Next
  <1>5. ASSUME NEW k \in Clients, CompleteFailed(k)
        PROVE  Lifecycle!Next
    <2>1. op[k].attempt \in Attempts /\ attemptStatus[op[k].attempt] = "pending"
      BY <1>5, OpFields DEF CompleteFailed, ReadsAreFresh, Fresh, MayComplete
    <2>2. Lifecycle!Fail(op[k].attempt)
      BY <1>5, <2>1 DEF CompleteFailed, Lifecycle!Fail
    <2>3. QED
      BY <2>1, <2>2 DEF Lifecycle!Next
  <1>6. ASSUME NEW k \in Clients, CommitDangling(k)
        PROVE  Lifecycle!Next
    <2>1. op[k].stale \in SUBSET Candidates /\ MayDangle(op[k].stale)
      BY <1>6, OpFields DEF CommitDangling, ReadsAreFresh, Fresh
    <2>2. Lifecycle!Dangle(op[k].stale)
      BY <1>6, <2>1 DEF CommitDangling, MayDangle, Moved, Lifecycle!Dangle
    <2>3. QED
      BY <2>1, <2>2 DEF Lifecycle!Next
  <1>7. QED
    BY <1>1, <1>2, <1>3, <1>4, <1>5, <1>6
       DEF Next, vars, StartTransition, StartPromote, StartComplete, StartDangling, Abort

\* With operations that do not overlap, the store implements the documented
\* lifecycle, for any number of candidates and attempts.
THEOREM SerialRefinement ==
  ASSUME Serial
  PROVE  Spec => ImplementsLifecycle
  BY LifecycleNext, LifecycleInit, SerialInvariance, PTL
     DEF Spec, ImplementsLifecycle, Lifecycle!Spec

----------------------------------------------------------------------------
(* What the lifecycle gives a store whose operations do not overlap.       *)

\* The statuses a candidate never leaves for approved.
Closed == {"promoted", "dangling", "archived"}

SucceededIsClosed ==
  \A a \in Attempts : attemptStatus[a] = "succeeded" => status[attemptOf[a]] \in Closed

SuccessInv == SucceededIsClosed /\ OneSuccessPerCandidate

\* A second attempt of a candidate finds it closed, so that it cannot succeed.
LEMMA LifecycleKeepsSuccess ==
  ASSUME TypeInv, SuccessInv, Lifecycle!Next
  PROVE  SuccessInv'
  <1> TypeOK /\ AttemptRows /\ SucceededIsClosed /\ OneSuccessPerCandidate
    BY DEF TypeInv, SuccessInv
  <1>a. \A a \in Attempts : attemptStatus[a] = "succeeded" => attemptOf[a] \in Candidates
    BY DEF AttemptRows
  <1>0. ASSUME attemptOf' = attemptOf, attemptStatus' = attemptStatus,
               \A c \in Candidates : status[c] \in Closed => status'[c] \in Closed
        PROVE  SuccessInv'
    BY <1>0, <1>a DEF SuccessInv, SucceededIsClosed, OneSuccessPerCandidate
  <1>1. ASSUME NEW c \in Candidates, NEW p \in BOOLEAN, Lifecycle!Detect(c, p)
        PROVE  SuccessInv'
    <2>1. \A d \in Candidates : status[d] \in Closed => status'[d] \in Closed
      BY <1>1 DEF Lifecycle!Detect, Closed, TypeOK
    <2>2. QED
      BY <1>0, <1>1, <2>1 DEF Lifecycle!Detect
  <1>2. ASSUME NEW c \in Candidates, NEW to \in Lifecycle!Successors[status[c]],
               Lifecycle!Move(c, to)
        PROVE  SuccessInv'
    <2>1. status[c] \in Closed => to \in Closed
      BY DEF Closed, Lifecycle!Successors
    <2>2. \A d \in Candidates : status[d] \in Closed => status'[d] \in Closed
      BY <1>2, <2>1 DEF Lifecycle!Move, TypeOK
    <2>3. QED
      BY <1>0, <1>2, <2>2 DEF Lifecycle!Move
  <1>3. ASSUME NEW cs \in SUBSET Candidates, Lifecycle!Dangle(cs)
        PROVE  SuccessInv'
    <2>1. \A d \in Candidates : status[d] \in Closed => status'[d] \in Closed
      BY <1>3 DEF Lifecycle!Dangle, Closed
    <2>2. QED
      BY <1>0, <1>3, <2>1 DEF Lifecycle!Dangle
  <1>4. ASSUME NEW a \in Attempts, NEW c \in Candidates, Lifecycle!Open(a, c)
        PROVE  SuccessInv'
    <2>1. \A b \in Attempts : attemptStatus'[b] = "succeeded" =>
            b # a /\ attemptStatus[b] = "succeeded" /\ attemptOf'[b] = attemptOf[b]
      BY <1>4 DEF Lifecycle!Open, TypeOK
    <2>2. status' = status
      BY <1>4 DEF Lifecycle!Open
    <2>3. QED
      BY <2>1, <2>2 DEF SuccessInv, SucceededIsClosed, OneSuccessPerCandidate
  <1>5. ASSUME NEW a \in Attempts, Lifecycle!Succeed(a)
        PROVE  SuccessInv'
    <2>1. /\ status[attemptOf[a]] = "approved" /\ attemptOf[a] \in Candidates
          /\ attemptOf' = attemptOf
          /\ status' = [status EXCEPT ![attemptOf[a]] = "promoted"]
      BY <1>5 DEF Lifecycle!Succeed, AttemptRows
    <2>2. \A b \in Attempts : attemptStatus'[b] = "succeeded" =>
            b = a \/ attemptStatus[b] = "succeeded"
      BY <1>5 DEF Lifecycle!Succeed, TypeOK
    <2>3. \A b \in Attempts : attemptStatus[b] = "succeeded" => attemptOf[b] # attemptOf[a]
      BY <2>1 DEF SucceededIsClosed, Closed
    <2>4. \A b \in Attempts : attemptStatus[b] = "succeeded" =>
            status'[attemptOf[b]] \in Closed
      BY <2>1, <2>3, <1>a DEF SucceededIsClosed, TypeOK
    <2>5. status'[attemptOf[a]] \in Closed
      BY <2>1 DEF Closed, TypeOK
    <2>6. QED
      BY <2>1, <2>2, <2>3, <2>4, <2>5 DEF SuccessInv, SucceededIsClosed, OneSuccessPerCandidate
  <1>6. ASSUME NEW a \in Attempts, Lifecycle!Fail(a)
        PROVE  SuccessInv'
    <2>1. \A b \in Attempts : attemptStatus'[b] = "succeeded" => attemptStatus[b] = "succeeded"
      BY <1>6 DEF Lifecycle!Fail, TypeOK
    <2>2. attemptOf' = attemptOf /\ status' = status
      BY <1>6 DEF Lifecycle!Fail
    <2>3. QED
      BY <2>1, <2>2 DEF SuccessInv, SucceededIsClosed, OneSuccessPerCandidate
  <1>7. QED
    BY <1>1, <1>2, <1>3, <1>4, <1>5, <1>6 DEF Lifecycle!Next

\* With operations that do not overlap, one attempt of a candidate at most
\* succeeds, however many were opened for it.
THEOREM OneAttemptSucceeds ==
  ASSUME Serial
  PROVE  Spec => []OneSuccessPerCandidate
  <1>1. Init => SuccessInv
    BY DEF Init, SuccessInv, SucceededIsClosed, OneSuccessPerCandidate
  <1>2. SerialInv /\ SuccessInv /\ [Next]_vars => SuccessInv'
    <2> SUFFICES ASSUME SerialInv, SuccessInv, [Next]_vars
                 PROVE  SuccessInv'
      OBVIOUS
    <2>1. CASE Lifecycle!Next
      BY <2>1, LifecycleKeepsSuccess DEF SerialInv, IInv
    <2>2. CASE UNCHANGED Lifecycle!vars
      BY <2>2 DEF Lifecycle!vars, SuccessInv, SucceededIsClosed, OneSuccessPerCandidate
    <2>3. QED
      BY <2>1, <2>2, LifecycleNext
  <1>3. SuccessInv => OneSuccessPerCandidate
    BY DEF SuccessInv
  <1>4. QED
    BY <1>1, <1>2, <1>3, SerialInvariance, PTL DEF Spec

\* A row that starts from the present status continues the path.
LEMMA MoveKeepsPath ==
  ASSUME TypeOK, StatusEndsLog, TrailIsAPath, NEW cs \in SUBSET Candidates,
         NEW from \in Statuses \cup {"none"}, NEW to \in Statuses,
         transitions' = Logged(cs, from, to),
         \A c \in cs : status[c] = from
  PROVE  TrailIsAPath'
  <1> SUFFICES ASSUME NEW c \in Candidates, NEW i \in 2 .. Len(transitions'[c])
               PROVE  transitions'[c][i].from = transitions'[c][i - 1].to
    BY DEF TrailIsAPath, Log
  <1>1. LogGrows(cs, from, to)
    BY MoveExtendsLog
  <1>2. transitions[c] \in Seq(TransitionRows)
    BY DEF TypeOK
  <1>3. CASE i \in 2 .. Len(transitions[c])
    <2>1. transitions[c][i].from = transitions[c][i - 1].to
      BY <1>3 DEF TrailIsAPath, Log
    <2>2. i \in 1 .. Len(transitions[c]) /\ i - 1 \in 1 .. Len(transitions[c])
      BY <1>2, <1>3
    <2>3. QED
      BY <1>1, <2>1, <2>2 DEF LogGrows
  <1>4. CASE i \notin 2 .. Len(transitions[c])
    <2>1. c \in cs /\ i = Len(transitions[c]) + 1 /\ Len(transitions[c]) # 0
      BY <1>1, <1>2, <1>4 DEF LogGrows
    <2>2. status[c] = transitions[c][Len(transitions[c])].to
      BY <1>2, <2>1 DEF StatusEndsLog, Log
    <2>3. /\ transitions'[c][i - 1] = transitions[c][Len(transitions[c])]
          /\ transitions'[c][i].from = from
      BY <1>1, <1>2, <2>1 DEF LogGrows, Row
    <2>4. QED
      BY <2>1, <2>2, <2>3
  <1>5. QED
    BY <1>3, <1>4

LEMMA NextPath == SerialInv /\ TrailIsAPath /\ [Next]_vars => TrailIsAPath'
  <1> SUFFICES ASSUME SerialInv, TrailIsAPath, [Next]_vars
               PROVE  TrailIsAPath'
    OBVIOUS
  <1> TypeOK /\ AttemptRows /\ StatusEndsLog /\ ReadsAreFresh
    BY DEF SerialInv, IInv, TypeInv, Trail
  <1> {"detected", "promoted", "dangling"} \subseteq Statuses
    BY DEF Statuses
  <1>1. ASSUME NEW k \in Clients, NEW c \in Candidates, NEW p \in BOOLEAN,
               CreateCandidate(k, c, p)
        PROVE  TrailIsAPath'
    BY <1>1, MoveKeepsPath DEF CreateCandidate
  <1>2. ASSUME NEW k \in Clients, CommitTransition(k)
        PROVE  TrailIsAPath'
    <2>1. /\ {op[k].candidate} \in SUBSET Candidates
          /\ op[k].from \in Statuses \cup {"none"} /\ op[k].to \in Statuses
      BY <1>2, OpFields DEF CommitTransition
    <2>2. /\ transitions' = Logged({op[k].candidate}, op[k].from, op[k].to)
          /\ status[op[k].candidate] = op[k].from
      BY <1>2 DEF CommitTransition, ReadsAreFresh, Fresh
    <2>3. QED
      BY <2>1, <2>2, MoveKeepsPath
  <1>3. ASSUME NEW k \in Clients, CompleteSucceeded(k)
        PROVE  TrailIsAPath'
    <2> DEFINE c == attemptOf[op[k].attempt]
    <2>1. c \in Candidates /\ status[c] \in Statuses \cup {"none"}
      BY <1>3, OpFields DEF CompleteSucceeded, AttemptRows, TypeOK
    <2>2. transitions' = Logged({c}, status[c], "promoted")
      BY <1>3 DEF CompleteSucceeded
    <2> HIDE DEF c
    <2>3. QED
      BY <2>1, <2>2, MoveKeepsPath
  <1>4. ASSUME NEW k \in Clients, CommitDangling(k)
        PROVE  TrailIsAPath'
    <2>1. op[k].stale \in SUBSET Candidates /\ \A c \in op[k].stale : status[c] = "promoted"
      BY <1>4, OpFields DEF CommitDangling, ReadsAreFresh, Fresh, MayDangle
    <2>2. transitions' = Logged(op[k].stale, "promoted", "dangling")
      BY <1>4 DEF CommitDangling
    <2>3. QED
      BY <2>1, <2>2, MoveKeepsPath
  <1>5. CASE UNCHANGED transitions
    BY <1>5 DEF TrailIsAPath, Log
  <1>6. QED
    BY <1>1, <1>2, <1>3, <1>4, <1>5
       DEF Next, vars, StartTransition, StartPromote, CommitPromote, StartComplete,
           CompleteFailed, StartDangling, Abort

\* With operations that do not overlap, the rows of candidate_transitions read
\* as one path.
THEOREM OnePath ==
  ASSUME Serial
  PROVE  Spec => []TrailIsAPath
  <1>1. Init => TrailIsAPath
    BY DEF Init, TrailIsAPath, Log
  <1>2. SerialInv /\ TrailIsAPath /\ [Next]_vars => TrailIsAPath'
    BY NextPath
  <1>3. QED
    BY <1>1, <1>2, SerialInvariance, PTL DEF Spec
=============================================================================
