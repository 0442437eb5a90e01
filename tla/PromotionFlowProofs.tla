------------------------ MODULE PromotionFlowProofs ------------------------
(***************************************************************************)
(* Theorems about PromotionFlow, for any sets of candidates, attempts,     *)
(* reviewers, hooks, scanners and relation types.  They rest on the        *)
(* invariant of the store (CandidateStoreProofs), which the flow keeps     *)
(* because every step of it is a step of the store or leaves it alone.     *)
(***************************************************************************)
EXTENDS PromotionFlow, CandidateStoreProofs, FiniteSetTheorems

(* What each scanner holds has its type, and a scanner past the gates has a *)
(* candidate it passed.                                                     *)
ScanShape ==
  /\ scan \in [Scanners -> [stage : Stages, queue : Seq(Candidates)]]
  /\ \A k \in Scanners : scan[k].stage \notin {"off", "visit"} => scan[k].queue # <<>>

FlowShape ==
  /\ ScanShape
  /\ relations \in SUBSET [source : Candidates, target : Candidates, type : RelationTypes]
  /\ clear \in SUBSET Candidates

LEMMA FlowShapeInit == FlowInit => FlowShape
  BY DEF FlowInit, FlowShape, ScanShape, NotScanning, Stages

LEMMA CurrentTyped ==
  ASSUME ScanShape, NEW k \in Scanners, scan[k].queue # <<>>
  PROVE  Current(k) \in Candidates /\ Tail(scan[k].queue) \in Seq(Candidates)
  <1>1. scan[k].queue \in Seq(Candidates)
    BY DEF ScanShape
  <1>2. QED
    BY <1>1 DEF Current

LEMMA NewestFirstTyped ==
  ASSUME NEW cs \in SUBSET Candidates, NEW q \in NewestFirst(cs)
  PROVE  q \in Seq(cs) /\ Len(q) = Cardinality(cs)
  <1>1. Cardinality(cs) \in Nat
    BY CandidatesAssumption, FS_Subset, FS_CardinalityType
  <1>2. q \in [1 .. Cardinality(cs) -> cs]
    BY DEF NewestFirst
  <1>3. QED
    BY <1>1, <1>2

\* What a scanner does to its own record.
ScanMoves(k) ==
  \/ UNCHANGED scan
  \/ scan' = [scan EXCEPT ![k] = NotScanning]
  \/ \E q \in Seq(Candidates) : scan' = [scan EXCEPT ![k] = [stage |-> "visit", queue |-> q]]
  \/ \E stage \in Stages :
       scan[k].queue # <<>> /\ scan' = [scan EXCEPT ![k].stage = stage]

LEMMA ScansMove ==
  ASSUME ScanShape, NEW k \in Scanners, Scan(k)
  PROVE  ScanMoves(k)
  <1> USE DEF ScanMoves
  <1>1. ASSUME BeginScan(k)
        PROVE  ScanMoves(k)
    <2> DEFINE cs == {c \in Candidates : status[c] = "approved"}
    <2>1. PICK q \in NewestFirst(cs) :
            scan' = [scan EXCEPT ![k] = [stage |-> "visit", queue |-> q]]
      BY <1>1 DEF BeginScan
    <2>2. q \in Seq(cs) /\ cs \in SUBSET Candidates
      BY <2>1, NewestFirstTyped
    <2>3. q \in Seq(Candidates)
      BY <2>2
    <2>4. QED
      BY <2>1, <2>3
  <1>2. ASSUME NextCandidate(k), scan[k].queue # <<>>
        PROVE  ScanMoves(k)
    BY <1>2, CurrentTyped DEF NextCandidate
  <1>3. ASSUME NEW stage \in Stages, Goto(k, stage), scan[k].queue # <<>>
        PROVE  ScanMoves(k)
    BY <1>3 DEF Goto
  <1>4. ASSUME StopScan(k)
        PROVE  ScanMoves(k)
    BY <1>4 DEF StopScan
  <1>5. {"passed", "attempt", "attempted", "transition"} \subseteq Stages
    BY DEF Stages
  <1>6. scan[k].stage \in {"passed", "attempt", "attempted", "transition"} =>
          scan[k].queue # <<>>
    BY DEF ScanShape
  <1>7. QED
    BY <1>1, <1>2, <1>3, <1>4, <1>5, <1>6
       DEF Scan, Visiting, PassGates, GateHolds, TooYoung, OpenAttempt, AttemptOpened,
           PromoteCurrent, CurrentPromoted, ScanRaises, ScanAborts, EndScan

LEMMA FlowShapeNext == FlowShape /\ [FlowNext]_flowVars => FlowShape'
  <1> SUFFICES ASSUME FlowShape, [FlowNext]_flowVars
               PROVE  FlowShape'
    OBVIOUS
  <1>1. ScanShape'
    <2>1. ScanShape
      BY DEF FlowShape
    <2>2. CASE UNCHANGED scan
      BY <2>1, <2>2 DEF ScanShape
    <2>3. ASSUME NEW k \in Scanners, Scan(k)
          PROVE  ScanShape'
      <3>1. ScanMoves(k)
        BY <2>1, <2>3, ScansMove
      <3>2. ASSUME NEW l \in Scanners
            PROVE  /\ scan'[l] \in [stage : Stages, queue : Seq(Candidates)]
                   /\ scan'[l].stage \notin {"off", "visit"} => scan'[l].queue # <<>>
        <4>1. CASE l # k
          BY <2>1, <3>1, <4>1 DEF ScanMoves, ScanShape
        <4>2. CASE UNCHANGED scan
          BY <2>1, <4>2 DEF ScanShape
        <4>3. CASE l = k /\ scan' = [scan EXCEPT ![k] = NotScanning]
          BY <2>1, <4>3 DEF ScanShape, NotScanning, Stages
        <4>4. ASSUME l = k, NEW q \in Seq(Candidates),
                     scan' = [scan EXCEPT ![k] = [stage |-> "visit", queue |-> q]]
              PROVE  /\ scan'[l] \in [stage : Stages, queue : Seq(Candidates)]
                     /\ scan'[l].stage \notin {"off", "visit"} => scan'[l].queue # <<>>
          BY <2>1, <4>4 DEF ScanShape, Stages
        <4>5. ASSUME l = k, NEW stage \in Stages, scan[k].queue # <<>>,
                     scan' = [scan EXCEPT ![k].stage = stage]
              PROVE  /\ scan'[l] \in [stage : Stages, queue : Seq(Candidates)]
                     /\ scan'[l].stage \notin {"off", "visit"} => scan'[l].queue # <<>>
          BY <2>1, <4>5 DEF ScanShape
        <4>6. QED
          BY <3>1, <4>1, <4>2, <4>3, <4>4, <4>5 DEF ScanMoves
      <3>3. scan' = [l \in Scanners |-> scan'[l]]
        BY <2>1, <3>1 DEF ScanMoves, ScanShape
      <3>4. QED
        BY <3>2, <3>3 DEF ScanShape
    <2>4. QED
      BY <2>2, <2>3
         DEF FlowNext, flowVars, Review, Relate, AddRelation, RemoveRelation, Observe
  <1>2. relations' \in SUBSET [source : Candidates, target : Candidates, type : RelationTypes]
    <2>1. CASE UNCHANGED relations
      BY <2>1 DEF FlowShape
    <2>2. ASSUME NEW k \in Reviewers, Relate(k)
          PROVE  relations' \in SUBSET [source : Candidates, target : Candidates,
                                        type : RelationTypes]
      <3>1. PICK c \in Candidates, d \in Candidates, t \in RelationTypes :
              LET r == [source |-> c, target |-> d, type |-> t]
              IN AddRelation(k, r) \/ RemoveRelation(k, r)
        BY <2>2 DEF Relate
      <3> DEFINE r == [source |-> c, target |-> d, type |-> t]
      <3>2. r \in [source : Candidates, target : Candidates, type : RelationTypes]
        OBVIOUS
      <3>3. relations' = relations \cup {r} \/ relations' = relations \ {r}
        BY <3>1 DEF AddRelation, RemoveRelation
      <3> HIDE DEF r
      <3>4. QED
        BY <3>2, <3>3 DEF FlowShape
    <2>3. QED
      BY <2>1, <2>2 DEF FlowNext, flowVars, Review, Observe, Scan
  <1>3. clear' \in SUBSET Candidates
    BY DEF FlowShape, FlowNext, flowVars, Recalled
  <1>4. QED
    BY <1>1, <1>2, <1>3 DEF FlowShape

LEMMA FlowIsStore == TypeOK /\ FlowShape /\ [FlowNext]_flowVars => [Next]_vars
  <1> SUFFICES ASSUME TypeOK, FlowShape, FlowNext
               PROVE  [Next]_vars
    BY DEF flowVars
  <1> USE CallersAssumption
  <1>1. ASSUME NEW k \in Reviewers, Review(k)
        PROVE  Next
    <2>1. ReviewTargets \subseteq Statuses
      BY DEF ReviewTargets, Statuses
    <2>2. QED
      BY <1>1, <2>1 DEF Review, CreateNext, Next
  <1>2. ASSUME NEW k \in Reviewers, Relate(k)
        PROVE  UNCHANGED vars
    BY <1>2 DEF Relate, AddRelation, RemoveRelation
  <1>3. ASSUME NEW k \in Hooks, Observe(k)
        PROVE  Next
    BY <1>3 DEF Observe, Next
  <1>4. ASSUME NEW k \in Scanners, Scan(k)
        PROVE  [Next]_vars
    <2>1. scan[k].stage \in {"passed", "attempted"} => Current(k) \in Candidates
      BY CurrentTyped DEF FlowShape, ScanShape
    <2>2. k \in Clients /\ "promoted" \in Statuses
      BY DEF Statuses
    <2>3. CASE BeginScan(k) \/ PassGates(k) \/ GateHolds(k) \/ TooYoung(k) \/ ScanRaises(k)
               \/ EndScan(k)
      BY <2>3 DEF BeginScan, PassGates, GateHolds, TooYoung, ScanRaises, EndScan
    <2>4. CASE OpenAttempt(k)
      BY <2>1, <2>2, <2>4 DEF OpenAttempt, Next
    <2>5. CASE AttemptOpened(k)
      BY <2>2, <2>5 DEF AttemptOpened, Next
    <2>6. CASE PromoteCurrent(k)
      BY <2>1, <2>2, <2>6 DEF PromoteCurrent, Next
    <2>7. CASE CurrentPromoted(k)
      BY <2>2, <2>7 DEF CurrentPromoted, Next
    <2>8. CASE ScanAborts(k)
      <3>1. CASE op[k] # Idle
        BY <2>2, <2>8, <3>1 DEF ScanAborts, Abort, Next
      <3>2. CASE op[k] = Idle
        <4>1. op' = op
          BY <2>8, <3>2 DEF ScanAborts, TypeOK
        <4>2. QED
          BY <2>8, <4>1 DEF ScanAborts, vars, attempts
      <3>3. QED
        BY <3>1, <3>2
    <2>9. QED
      BY <1>4, <2>3, <2>4, <2>5, <2>6, <2>7, <2>8 DEF Scan
  <1>5. QED
    BY <1>1, <1>2, <1>3, <1>4 DEF FlowNext

----------------------------------------------------------------------------
(* Every promotion has an attempt.                                         *)

Opened(c) == \E a \in Attempts : attemptStatus[a] # "none" /\ attemptOf[a] = c

PromotedOpened == \A c \in Candidates : Visited(c, "promoted") => Opened(c)

Safe(r) == r.kind = "transition" /\ r.to = "promoted" => Opened(r.candidate)

Openers == \A k \in Clients : Safe(op[k])

Past == {"passed", "attempt", "attempted", "transition"}

ScanHolds(k) ==
  /\ \A i \in 1 .. Len(scan[k].queue) : Visited(scan[k].queue[i], "approved")
  /\ scan[k].stage = "attempt" => op[k] = [kind |-> "promote", candidate |-> Current(k)]
  /\ scan[k].stage = "attempted" => Opened(Current(k))
  /\ scan[k].stage \in Past => Current(k) \in clear

\* The inductive invariant.  Whoever is about to write a promotion, a scanner
\* in its second transaction or a hook that finalises, knows of an attempt; a
\* scanner knows of one because between its two transactions nothing removes
\* it, and because its own connection does nothing else meanwhile.
FlowInv ==
  /\ IInv
  /\ FlowShape
  /\ PromotedOpened
  /\ Openers
  /\ \A k \in Scanners : ScanHolds(k)

\* An attempt that was opened stays, and stays its candidate's.
AttemptsStay ==
  \A a \in Attempts :
    attemptStatus[a] # "none" => attemptStatus'[a] # "none" /\ attemptOf'[a] = attemptOf[a]

LEMMA NextAttemptsStay == TypeInv /\ [Next]_vars => AttemptsStay
  <1> SUFFICES ASSUME TypeInv, [Next]_vars, NEW a \in Attempts, attemptStatus[a] # "none"
               PROVE  attemptStatus'[a] # "none" /\ attemptOf'[a] = attemptOf[a]
    BY DEF AttemptsStay
  <1> TypeOK
    BY DEF TypeInv
  <1>1. ASSUME NEW k \in Clients, NEW b \in Attempts, CommitPromote(k, b)
        PROVE  attemptStatus'[a] # "none" /\ attemptOf'[a] = attemptOf[a]
    BY <1>1 DEF CommitPromote, TypeOK
  <1>2. ASSUME NEW k \in Clients, CompleteSucceeded(k) \/ CompleteFailed(k)
        PROVE  attemptStatus'[a] # "none" /\ attemptOf'[a] = attemptOf[a]
    BY <1>2, OpFields DEF CompleteSucceeded, CompleteFailed, TypeOK
  <1>3. CASE UNCHANGED attempts
    BY <1>3 DEF attempts
  <1>4. CASE UNCHANGED vars
    BY <1>4 DEF vars
  <1>5. QED
    BY <1>1, <1>2, <1>3, <1>4
       DEF Next, attempts, CreateCandidate, StartTransition, CommitTransition, StartPromote,
           StartComplete, StartDangling, CommitDangling, Abort

LEMMA OpenedStays ==
  ASSUME AttemptsStay, NEW c, Opened(c)
  PROVE  Opened(c)'
  BY DEF AttemptsStay, Opened

\* A step moves candidates, logging it, or leaves the trail alone.
LogMoves ==
  \/ UNCHANGED transitions
  \/ \E cs \in SUBSET Candidates, from \in Statuses \cup {"none"}, to \in Statuses :
       /\ transitions' = Logged(cs, from, to)
       /\ to = "promoted" => \A c \in cs : Opened(c)

LEMMA NextLogMoves ==
  ASSUME IInv, Openers, [Next]_vars
  PROVE  LogMoves
  <1> TypeOK /\ AttemptRows
    BY DEF IInv, TypeInv
  <1> USE DEF LogMoves
  <1> {"detected", "promoted", "dangling"} \subseteq Statuses /\ "detected" # "promoted"
    BY DEF Statuses
  <1>1. ASSUME NEW k \in Clients, NEW c \in Candidates, NEW p \in BOOLEAN,
               CreateCandidate(k, c, p)
        PROVE  LogMoves
    BY <1>1 DEF CreateCandidate
  <1>2. ASSUME NEW k \in Clients, CommitTransition(k)
        PROVE  LogMoves
    <2>1. op[k].candidate \in Candidates /\ op[k].from \in Statuses /\ op[k].to \in Statuses
      BY <1>2, OpFields DEF CommitTransition
    <2>2. transitions' = Logged({op[k].candidate}, op[k].from, op[k].to)
      BY <1>2 DEF CommitTransition
    <2>3. op[k].to = "promoted" => Opened(op[k].candidate)
      BY <1>2 DEF CommitTransition, Openers, Safe
    <2>4. QED
      BY <2>1, <2>2, <2>3
  <1>3. ASSUME NEW k \in Clients, CompleteSucceeded(k)
        PROVE  LogMoves
    <2> DEFINE c == attemptOf[op[k].attempt]
    <2>1. /\ op[k].attempt \in Attempts /\ attemptStatus[op[k].attempt] # "none"
          /\ c \in Candidates
      BY <1>3, OpFields DEF CompleteSucceeded, AttemptRows
    <2>2. Opened(c)
      BY <2>1 DEF Opened
    <2>3. transitions' = Logged({c}, status[c], "promoted")
      BY <1>3 DEF CompleteSucceeded
    <2>4. status[c] \in Statuses \cup {"none"}
      BY <2>1 DEF TypeOK
    <2> HIDE DEF c
    <2>5. QED
      BY <2>1, <2>2, <2>3, <2>4
  <1>4. ASSUME NEW k \in Clients, CommitDangling(k)
        PROVE  LogMoves
    <2>1. op[k].stale \in SUBSET Candidates
      BY <1>4, OpFields DEF CommitDangling
    <2>2. transitions' = Logged(op[k].stale, "promoted", "dangling")
      BY <1>4 DEF CommitDangling
    <2>3. QED
      BY <2>1, <2>2
  <1>5. CASE UNCHANGED vars
    BY <1>5 DEF vars
  <1>6. QED
    BY <1>1, <1>2, <1>3, <1>4, <1>5
       DEF Next, StartTransition, StartPromote, CommitPromote, StartComplete, CompleteFailed,
           StartDangling, Abort

LEMMA NextGrows ==
  ASSUME IInv, Openers, [Next]_vars
  PROVE  Grows
  <1>1. CASE UNCHANGED transitions
    BY <1>1 DEF Grows, Visited, VisitedNext, Log
  <1>2. QED
    BY <1>1, NextLogMoves, MoveGrows DEF LogMoves, IInv, TypeInv

LEMMA NextPromotedOpened ==
  ASSUME IInv, PromotedOpened, Openers, [Next]_vars
  PROVE  PromotedOpened'
  <1> SUFFICES ASSUME NEW c \in Candidates, Visited(c, "promoted")'
               PROVE  Opened(c)'
    BY DEF PromotedOpened
  <1>1. AttemptsStay
    BY NextAttemptsStay DEF IInv
  <1>2. Visited(c, "promoted") \/ Opened(c)
    <2>1. CASE UNCHANGED transitions
      BY <2>1 DEF Visited, Log
    <2>2. ASSUME NEW cs \in SUBSET Candidates, NEW from \in Statuses \cup {"none"},
                 NEW to \in Statuses, transitions' = Logged(cs, from, to),
                 to = "promoted" => \A d \in cs : Opened(d)
          PROVE  Visited(c, "promoted") \/ Opened(c)
      BY <2>2, MoveVisits DEF IInv, TypeInv
    <2>3. QED
      BY <2>1, <2>2, NextLogMoves DEF LogMoves
  <1>3. Opened(c)
    BY <1>2 DEF PromotedOpened
  <1>4. QED
    BY <1>1, <1>3, OpenedStays

\* What a client does to what it holds: nothing, or it takes up r, which is
\* the promotion of a candidate only if that has an attempt.
OpMoves(k) == op' = op \/ \E r : Safe(r) /\ op' = [op EXCEPT ![k] = r]

LEMMA IdleSafe == Safe(Idle)
  BY DEF Safe, Idle

LEMMA ReviewMoves ==
  ASSUME NEW k \in Reviewers, Review(k)
  PROVE  OpMoves(k)
  <1>1. ASSUME NEW c \in Candidates, NEW to \in ReviewTargets, StartTransition(k, c, to)
        PROVE  OpMoves(k)
    <2> DEFINE r == [kind |-> "transition", candidate |-> c, from |-> status[c], to |-> to]
    <2>1. Safe(r) /\ op' = [op EXCEPT ![k] = r]
      BY <1>1 DEF StartTransition, Safe, ReviewTargets
    <2>2. QED
      BY <2>1 DEF OpMoves
  <1>2. ASSUME NEW c \in Candidates, StartPromote(k, c)
        PROVE  OpMoves(k)
    <2> DEFINE r == [kind |-> "promote", candidate |-> c]
    <2>1. Safe(r) /\ op' = [op EXCEPT ![k] = r]
      BY <1>2 DEF StartPromote, Safe
    <2>2. QED
      BY <2>1 DEF OpMoves
  <1>3. CASE op' = op \/ op' = [op EXCEPT ![k] = Idle]
    BY <1>3, IdleSafe DEF OpMoves
  <1>4. QED
    BY <1>1, <1>2, <1>3
       DEF Review, CreateNext, CreateCandidate, CommitTransition, CommitPromote, Abort

LEMMA ObserveMoves ==
  ASSUME NEW k \in Hooks, Observe(k)
  PROVE  OpMoves(k)
  <1>1. ASSUME NEW a \in Attempts, NEW succeeded \in BOOLEAN, StartComplete(k, a, succeeded)
        PROVE  OpMoves(k)
    <2> DEFINE r == [kind |-> "complete", attempt |-> a, succeeded |-> succeeded]
    <2>1. Safe(r) /\ op' = [op EXCEPT ![k] = r]
      BY <1>1 DEF StartComplete, Safe
    <2>2. QED
      BY <2>1 DEF OpMoves
  <1>2. CASE op' = [op EXCEPT ![k] = Idle]
    BY <1>2, IdleSafe DEF OpMoves
  <1>3. QED
    BY <1>1, <1>2 DEF Observe, CompleteSucceeded, CompleteFailed, Abort

LEMMA ScannerMoves ==
  ASSUME NEW k \in Scanners, Scan(k), ScanHolds(k)
  PROVE  OpMoves(k)
  <1>1. CASE OpenAttempt(k)
    <2> DEFINE r == [kind |-> "promote", candidate |-> Current(k)]
    <2>1. Safe(r) /\ op' = [op EXCEPT ![k] = r]
      BY <1>1 DEF OpenAttempt, StartPromote, Safe
    <2>2. QED
      BY <2>1 DEF OpMoves
  <1>2. CASE PromoteCurrent(k)
    <2> DEFINE r == [kind |-> "transition", candidate |-> Current(k),
                     from |-> status[Current(k)], to |-> "promoted"]
    <2>1. Safe(r) /\ op' = [op EXCEPT ![k] = r]
      BY <1>2 DEF PromoteCurrent, StartTransition, ScanHolds, Safe
    <2>2. QED
      BY <2>1 DEF OpMoves
  <1>3. CASE op' = op \/ op' = [op EXCEPT ![k] = Idle]
    BY <1>3, IdleSafe DEF OpMoves
  <1>4. QED
    BY <1>1, <1>2, <1>3
       DEF Scan, BeginScan, PassGates, GateHolds, TooYoung, AttemptOpened, CommitPromote,
           CurrentPromoted, CommitTransition, ScanRaises, ScanAborts, EndScan, vars

LEMMA OpenersKept ==
  ASSUME TypeOK, Openers, AttemptsStay, NEW k \in Clients, OpMoves(k)
  PROVE  Openers'
  <1> SUFFICES ASSUME NEW l \in Clients
               PROVE  Safe(op[l])'
    BY DEF Openers
  <1>1. op'[l] = op[l] \/ \E r : Safe(r) /\ op'[l] = r
    BY DEF OpMoves, TypeOK
  <1>2. Safe(op'[l])
    BY <1>1 DEF Openers
  <1>3. QED
    BY <1>2 DEF AttemptsStay, Opened, Safe

\* A scanner whose record and operation a step leaves alone.
LEMMA ScanKept ==
  ASSUME ScanShape, NEW l \in Scanners, ScanHolds(l), Grows, AttemptsStay,
         clear \subseteq clear', scan'[l] = scan[l], op'[l] = op[l]
  PROVE  ScanHolds(l)'
  <1>1. ASSUME NEW i \in 1 .. Len(scan[l].queue)
        PROVE  Visited(scan[l].queue[i], "approved")'
    <2>1. scan[l].queue[i] \in Candidates
      BY DEF ScanShape
    <2>2. Visited(scan[l].queue[i], "approved") /\ "approved" \in Statuses
      BY DEF ScanHolds, Statuses
    <2>3. VisitedNext(scan[l].queue[i], "approved")
      BY <2>1, <2>2 DEF Grows
    <2>4. QED
      BY <2>3 DEF Visited, VisitedNext, Log
  <1>2. Current(l)' = Current(l)
    BY DEF Current
  <1>3. scan[l].stage = "attempted" => Opened(Current(l))'
    BY <1>2 DEF ScanHolds, AttemptsStay, Opened
  <1>4. QED
    BY <1>1, <1>2, <1>3 DEF ScanHolds

QueueApproved(q) == \A i \in 1 .. Len(q) : Visited(q[i], "approved")

LEMMA QueueKept ==
  ASSUME NEW q \in Seq(Candidates), QueueApproved(q), Grows
  PROVE  QueueApproved(q)'
  <1> SUFFICES ASSUME NEW i \in 1 .. Len(q)
               PROVE  Visited(q[i], "approved")'
    BY DEF QueueApproved
  <1>1. q[i] \in Candidates /\ Visited(q[i], "approved") /\ "approved" \in Statuses
    BY DEF QueueApproved, Statuses
  <1>2. VisitedNext(q[i], "approved")
    BY <1>1 DEF Grows
  <1>3. QED
    BY <1>2 DEF Visited, VisitedNext, Log

\* A scanner that is between candidates, or off, holds nothing but a queue.
LEMMA ScanRests ==
  ASSUME NEW k \in Scanners, NEW q, QueueApproved(q)', NEW stage \in {"off", "visit"},
         scan'[k] = [stage |-> stage, queue |-> q]
  PROVE  ScanHolds(k)'
  BY DEF ScanHolds, QueueApproved, Past

LEMMA ScanOwn ==
  ASSUME FlowInv, NEW k \in Scanners, Scan(k), Recalled, Grows, AttemptsStay
  PROVE  ScanHolds(k)'
  <1> USE DEF Past
  <1> PICK c, q : c = Current(k) /\ q = scan[k].queue
    OBVIOUS
  <1>1. /\ TypeOK /\ ScanShape /\ ScanHolds(k) /\ k \in Clients /\ Trail
        /\ QueueApproved(q) /\ q \in Seq(Candidates) /\ clear \subseteq clear'
    BY CallersAssumption
       DEF FlowInv, IInv, TypeInv, FlowShape, ScanShape, ScanHolds, QueueApproved, Recalled
  <1>2. QueueApproved(q)'
    BY <1>1, QueueKept
  <1>3. ASSUME q # <<>>, NEW stage \in Past, Goto(k, stage), c \in clear',
               stage = "attempt" => op'[k] = [kind |-> "promote", candidate |-> c],
               stage = "attempted" => Opened(c)'
        PROVE  ScanHolds(k)'
    <2>1. scan'[k].queue = q /\ scan'[k].stage = stage
      BY <1>1, <1>3 DEF Goto, ScanShape
    <2>2. Current(k)' = c
      BY <2>1 DEF Current
    <2>3. \A i \in 1 .. Len(scan'[k].queue) : Visited(scan[k].queue[i], "approved")'
      BY <1>2, <2>1 DEF QueueApproved
    <2>4. stage = "attempted" => Opened(Current(k))'
      BY <1>3, <2>2 DEF Opened
    <2>5. QED
      BY <1>3, <2>1, <2>2, <2>3, <2>4 DEF ScanHolds
  <1>4. ASSUME q # <<>>, NextCandidate(k)
        PROVE  ScanHolds(k)'
    <2>1. Tail(q) \in Seq(Candidates) /\ QueueApproved(Tail(q))
      BY <1>1, <1>4 DEF QueueApproved
    <2>2. scan'[k] = [stage |-> "visit", queue |-> Tail(q)]
      BY <1>1, <1>4 DEF NextCandidate, ScanShape
    <2>3. QED
      BY <2>1, <2>2, QueueKept, ScanRests
  <1>5. ASSUME StopScan(k)
        PROVE  ScanHolds(k)'
    <2>1. scan'[k] = [stage |-> "off", queue |-> <<>>]
      BY <1>1, <1>5 DEF StopScan, NotScanning, ScanShape
    <2>2. QueueApproved(<<>>)'
      BY DEF QueueApproved
    <2>3. QED
      BY <2>1, <2>2, ScanRests
  <1>6. scan[k].stage \in Past => q # <<>> /\ c \in clear
    BY <1>1 DEF ScanShape, ScanHolds
  <1>7. CASE BeginScan(k)
    <2> DEFINE cs == {d \in Candidates : status[d] = "approved"}
    <2>1. PICK r \in NewestFirst(cs) :
            scan' = [scan EXCEPT ![k] = [stage |-> "visit", queue |-> r]]
      BY <1>7 DEF BeginScan
    <2>2. r \in Seq(cs) /\ cs \in SUBSET Candidates
      BY <2>1, NewestFirstTyped
    <2>3. QueueApproved(r)
      <3> SUFFICES ASSUME NEW i \in 1 .. Len(r)
                   PROVE  Visited(r[i], "approved")
        BY DEF QueueApproved
      <3>1. r[i] \in Candidates /\ status[r[i]] = "approved"
        BY <2>2
      <3>2. QED
        BY <1>1, <3>1, StatusVisited
    <2>4. r \in Seq(Candidates)
      BY <2>2
    <2>5. scan'[k] = [stage |-> "visit", queue |-> r]
      BY <1>1, <2>1 DEF ScanShape
    <2>6. QED
      BY <2>3, <2>4, <2>5, QueueKept, ScanRests
  <1>8. CASE PassGates(k)
    <2>1. q # <<>> /\ ~ Gated(c) /\ Goto(k, "passed") /\ UNCHANGED <<vars, relations>>
      BY <1>8 DEF PassGates, Visiting, Scan
    <2>2. c \in Candidates /\ Visited(c, "approved")
      BY <1>1, <2>1, CurrentTyped DEF QueueApproved, Current
    <2>3. Visited(c, "approved")' /\ ~ InConflict(c)'
      BY <2>1, <2>2 DEF vars, Visited, Log, Gated, Related, InConflict
    <2>4. c \in clear'
      BY <2>2, <2>3 DEF Recalled
    <2>5. QED
      BY <1>3, <2>1, <2>4
  <1>9. CASE GateHolds(k) \/ TooYoung(k)
    BY <1>4, <1>9 DEF GateHolds, TooYoung, Visiting
  <1>10. CASE OpenAttempt(k)
    <2>1. op'[k] = [kind |-> "promote", candidate |-> c]
      BY <1>1, <1>10 DEF OpenAttempt, StartPromote, TypeOK
    <2>2. QED
      BY <1>1, <1>3, <1>6, <1>10, <2>1 DEF OpenAttempt
  <1>11. CASE AttemptOpened(k)
    <2>1. PICK a \in Attempts : CommitPromote(k, a)
      BY <1>11 DEF AttemptOpened
    <2>2. op[k].candidate = c
      BY <1>1, <1>11 DEF AttemptOpened, ScanHolds
    <2>3. attemptStatus'[a] = "pending" /\ attemptOf'[a] = c
      BY <1>1, <2>1, <2>2 DEF CommitPromote, TypeOK
    <2>4. Opened(c)'
      BY <2>3 DEF Opened
    <2>5. QED
      BY <1>1, <1>3, <1>6, <1>11, <2>4 DEF AttemptOpened
  <1>12. CASE PromoteCurrent(k)
    BY <1>1, <1>3, <1>6, <1>12 DEF PromoteCurrent
  <1>13. CASE CurrentPromoted(k)
    BY <1>4, <1>6, <1>13 DEF CurrentPromoted
  <1>14. CASE ScanRaises(k) \/ ScanAborts(k) \/ EndScan(k)
    BY <1>5, <1>14 DEF ScanRaises, ScanAborts, EndScan
  <1>15. QED
    BY <1>7, <1>8, <1>9, <1>10, <1>11, <1>12, <1>13, <1>14 DEF Scan

----------------------------------------------------------------------------
LEMMA FlowInvInit == FlowInit => FlowInv
  <1> SUFFICES ASSUME FlowInit
               PROVE  FlowInv
    OBVIOUS
  <1>1. IInv /\ FlowShape
    BY InitIInv, FlowShapeInit DEF FlowInit
  <1>2. PromotedOpened
    BY DEF FlowInit, Init, PromotedOpened, Visited, Log
  <1>3. Openers
    BY IdleSafe DEF FlowInit, Init, Openers
  <1>4. \A k \in Scanners : ScanHolds(k)
    BY DEF FlowInit, NotScanning, ScanHolds, Past
  <1>5. QED
    BY <1>1, <1>2, <1>3, <1>4 DEF FlowInv

LEMMA FlowInvNext == FlowInv /\ [FlowNext]_flowVars => FlowInv'
  <1>1. ASSUME FlowInv, FlowNext
        PROVE  FlowInv'
    <2> USE CallersAssumption
    <2>1. /\ IInv /\ TypeInv /\ TypeOK /\ FlowShape /\ ScanShape
          /\ PromotedOpened /\ Openers /\ \A l \in Scanners : ScanHolds(l)
      BY <1>1 DEF FlowInv, IInv, TypeInv, FlowShape
    <2>2. [Next]_vars
      BY <1>1, <2>1, FlowIsStore
    <2>3. IInv'
      BY <2>1, <2>2, NextTypeOK, NextAttemptRows, NextEvidence DEF IInv, TypeInv, Evidence
    <2>4. FlowShape' /\ PromotedOpened'
      BY <1>1, <2>1, <2>2, FlowShapeNext, NextPromotedOpened
    <2>5. Grows /\ AttemptsStay
      BY <2>1, <2>2, NextGrows, NextAttemptsStay
    <2>6. clear \subseteq clear' /\ Recalled
      BY <1>1 DEF FlowNext, Recalled
    <2>7. ASSUME NEW k \in Clients, OpMoves(k)
          PROVE  Openers' /\ \A l \in Clients \ {k} : op'[l] = op[l]
      BY <2>1, <2>5, <2>7, OpenersKept DEF OpMoves, TypeOK
    <2>8. ASSUME UNCHANGED scan, \A l \in Scanners : op'[l] = op[l]
          PROVE  \A l \in Scanners : ScanHolds(l)'
      BY <2>1, <2>5, <2>6, <2>8, ScanKept
    <2>9. ASSUME NEW k \in Reviewers, Review(k)
          PROVE  Openers' /\ \A l \in Scanners : ScanHolds(l)'
      BY <2>7, <2>8, <2>9, ReviewMoves DEF Review
    <2>10. ASSUME NEW k \in Reviewers, Relate(k)
           PROVE  Openers' /\ \A l \in Scanners : ScanHolds(l)'
      <3>1. op' = op /\ scan' = scan
        BY <2>10 DEF Relate, AddRelation, RemoveRelation, vars
      <3>2. OpMoves(k)
        BY <3>1 DEF OpMoves
      <3>3. QED
        BY <2>7, <2>8, <3>1, <3>2
    <2>11. ASSUME NEW k \in Hooks, Observe(k)
           PROVE  Openers' /\ \A l \in Scanners : ScanHolds(l)'
      BY <2>7, <2>8, <2>11, ObserveMoves DEF Observe
    <2>12. ASSUME NEW k \in Scanners, Scan(k)
           PROVE  Openers' /\ \A l \in Scanners : ScanHolds(l)'
      <3>1. OpMoves(k)
        BY <2>1, <2>12, ScannerMoves
      <3>2. Openers' /\ \A l \in Scanners \ {k} : op'[l] = op[l]
        BY <2>7, <3>1
      <3>3. ScanHolds(k)'
        BY <1>1, <2>5, <2>6, <2>12, ScanOwn
      <3>4. \A l \in Scanners \ {k} : scan'[l] = scan[l]
        BY <2>1, <2>12, ScansMove DEF ScanMoves, ScanShape
      <3>5. \A l \in Scanners \ {k} : ScanHolds(l)'
        BY <2>1, <2>5, <2>6, <3>2, <3>4, ScanKept
      <3>6. QED
        BY <3>2, <3>3, <3>5
    <2>13. Openers' /\ \A l \in Scanners : ScanHolds(l)'
      BY <1>1, <2>9, <2>10, <2>11, <2>12 DEF FlowNext
    <2>14. QED
      BY <2>3, <2>4, <2>13 DEF FlowInv
  <1>2. ASSUME FlowInv, UNCHANGED flowVars
        PROVE  FlowInv'
    <2>1. FlowInv /\ UNCHANGED vars /\ UNCHANGED <<scan, relations, clear>>
      BY <1>2 DEF flowVars
    <2>2. [Next]_vars
      BY <2>1
    <2>3. IInv'
      BY <2>1, <2>2, NextTypeOK, NextAttemptRows, NextEvidence
         DEF FlowInv, IInv, TypeInv, Evidence
    <2>4. FlowShape' /\ PromotedOpened'
      BY <1>2, <2>1, <2>2, FlowShapeNext, NextPromotedOpened DEF FlowInv
    <2>5. Openers' /\ \A k \in Scanners : ScanHolds(k)'
      BY <2>1 DEF FlowInv, vars, Openers, Safe, Opened, ScanHolds, Visited, Log, Current
    <2>6. QED
      BY <2>3, <2>4, <2>5 DEF FlowInv
  <1>3. QED
    BY <1>1, <1>2

LEMMA FlowInvariance == FlowSpec => []FlowInv
  BY FlowInvInit, FlowInvNext, PTL DEF FlowSpec

\* Every variable of the flow keeps its type, whoever calls.
THEOREM FlowTypeCorrect == FlowSpec => []FlowTypeOK
  <1>1. FlowInv => FlowTypeOK
    BY DEF FlowInv, FlowTypeOK, IInv, TypeInv, FlowShape, ScanShape
  <1>2. QED
    BY <1>1, FlowInvariance, PTL

\* The calls of the flow are calls of the store: what holds of the store under
\* any interleaving of its operations holds of the whole flow.
THEOREM FlowKeepsStore == FlowSpec => []AttemptsFollowApproval /\ [][Next]_vars
  <1>1. FlowInv => AttemptsFollowApproval /\ TypeOK /\ FlowShape
    BY DEF FlowInv, IInv, TypeInv
  <1>2. FlowInv /\ [FlowNext]_flowVars => [Next]_vars
    BY <1>1, FlowIsStore
  <1>3. QED
    BY <1>1, <1>2, FlowInvariance, PTL DEF FlowSpec

\* No candidate is promoted by tool, hook or scanner without an attempt.
THEOREM PromotionsHaveAttempts == FlowSpec => []PromotedHasAttempt
  <1>1. FlowInv => PromotedHasAttempt
    BY DEF FlowInv, PromotedOpened, Opened, PromotedHasAttempt
  <1>2. QED
    BY <1>1, FlowInvariance, PTL

\* No candidate with promotable = 0 is promoted, though transition_candidate
\* never looks: whoever promotes has an attempt, and attempts look.
THEOREM UnpromotableStays == FlowSpec => []NeverPromotesUnpromotable
  <1>1. FlowInv => NeverPromotesUnpromotable
    BY DEF FlowInv, IInv, PromotedOpened, Opened, AttemptsFollowApproval, AttemptIsApproved,
           NeverPromotesUnpromotable
  <1>2. QED
    BY <1>1, FlowInvariance, PTL

\* A scan goes on only with a candidate that was free of gated relations, on
\* either side, at some moment since its approval.
THEOREM ScansRespectGates == FlowSpec => []ScansPromoteOnlyClear
  <1>1. FlowInv => ScansPromoteOnlyClear
    BY DEF FlowInv, ScanHolds, Past, ScansPromoteOnlyClear
  <1>2. QED
    BY <1>1, FlowInvariance, PTL
=============================================================================
