--------------------------- MODULE EventStoreProofs ---------------------------
(***************************************************************************)
(* Theorems about EventStore, for any events, processes and limits: the    *)
(* type invariant, that no audit row loses its event, and what a rotation  *)
(* deletes.                                                                *)
(***************************************************************************)
EXTENDS EventStore, SequenceLemmas

(* The inductive invariant.                                                *)
IInv == TypeOK /\ AuditHasEvent

RowTypes ==
  /\ events \in Seq(Events) /\ IsInjective(events)
  /\ expired \in 0 .. Len(events)

CallTypes ==
  /\ writeCount \in [Writers -> 0 .. (RotateEvery - 1)]
  /\ call \in [Writers -> Calls]

(* The events table has lost its n oldest rows, none of them audited.       *)
Deleted(n) == DeleteOldest(n) /\ ForeignKeyHolds(Oldest(n))

LEMMA InitIInv == Init => IInv
  <1> SUFFICES ASSUME Init
               PROVE  IInv
    OBVIOUS
  <1>1. /\ events \in Seq(Events) /\ IsInjective(events) /\ Len(events) = 0
        /\ ToSet(events) = {}
    BY DEF Init, IsInjective, ToSet
  <1>2. writeCount \in [Writers -> 0 .. (RotateEvery - 1)]
    BY ConstantsAssumption DEF Init
  <1>3. /\ expired \in 0 .. Len(events) /\ oversized \in BOOLEAN
        /\ audited \in SUBSET Events /\ call \in [Writers -> Calls]
    <2>1. expired = 0 /\ oversized = FALSE /\ audited = {} /\ call = [w \in Writers |-> Idle]
      BY DEF Init
    <2>2. expired \in 0 .. Len(events)
      BY <1>1, <2>1
    <2>3. call \in [Writers -> Calls]
      BY <2>1 DEF Calls
    <2>4. QED
      BY <2>1, <2>2, <2>3
  <1>4. AuditHasEvent
    BY DEF Init, AuditHasEvent
  <1>5. QED
    BY <1>1, <1>2, <1>3, <1>4 DEF IInv, TypeOK

----------------------------------------------------------------------------
(* The helpers.                                                            *)

\* INSERT OR REPLACE keeps every row and brings the row of e.
LEMMA InsertIs ==
  ASSUME RowTypes, NEW e \in Events, Insert(e)
  PROVE  RowTypes' /\ ToSet(events') = Stored \cup {e}
  <1>1. CASE e \in Stored
    <2>1. PICK i \in 1 .. Len(events) : i = Position(e) /\ events[i] = e
      BY <1>1 DEF RowTypes, Stored, ToSet, Position
    <2>2. PICK rest : rest = RemoveAt(events, i)
      OBVIOUS
    <2>3. /\ rest \in Seq(Events) /\ IsInjective(rest)
          /\ ToSet(rest) = Stored \ {e}
          /\ Len(rest) = Len(events) - 1
      BY <2>1, <2>2, RemoveAtIs DEF RowTypes, Stored
    <2>4. events' = Append(rest, e)
      BY <1>1, <2>1, <2>2 DEF Insert
    <2>5. /\ events' \in Seq(Events) /\ IsInjective(events')
          /\ ToSet(events') = (Stored \ {e}) \cup {e}
          /\ Len(events') = Len(rest) + 1
      BY <2>3, <2>4, AppendIs
    <2>6. Len(events') = Len(events)
      BY <2>3, <2>5 DEF RowTypes
    <2>7. expired' = IF i <= expired THEN expired - 1 ELSE expired
      BY <1>1, <2>1 DEF Insert
    <2>8. expired' \in 0 .. Len(events')
      BY <2>1, <2>6, <2>7 DEF RowTypes
    <2>9. QED
      BY <1>1, <2>5, <2>8 DEF RowTypes
  <1>2. CASE e \notin Stored
    <2>1. events' = Append(events, e) /\ expired' = expired
      BY <1>2 DEF Insert
    <2>2. /\ events' \in Seq(Events) /\ IsInjective(events')
          /\ ToSet(events') = Stored \cup {e}
          /\ Len(events') = Len(events) + 1
      BY <1>2, <2>1, AppendIs DEF RowTypes, Stored
    <2>3. expired' \in 0 .. Len(events')
      BY <2>1, <2>2 DEF RowTypes
    <2>4. QED
      BY <2>2, <2>3 DEF RowTypes
  <1>3. QED
    BY <1>1, <1>2

\* Deleting the n oldest rows leaves the others.
LEMMA DeleteIs ==
  ASSUME RowTypes, NEW n \in 0 .. Len(events), DeleteOldest(n)
  PROVE  /\ events' \in Seq(Events) /\ IsInjective(events')
         /\ Len(events') = Len(events) - n
         /\ ToSet(events') = Stored \ Oldest(n)
  BY SuffixIs DEF RowTypes, DeleteOldest, Stored, Oldest

\* The age and the row limit ask for the expired rows, or for all but max_rows.
LEMMA RowsToRotateIs ==
  ASSUME RowTypes
  PROVE  /\ RowsToRotate \in 0 .. Len(events)
         /\ RowsToRotate = expired \/ Len(events) - RowsToRotate = MaxRows
  BY ConstantsAssumption DEF RowTypes, RowsToRotate

----------------------------------------------------------------------------
(* What a step does to the tables.                                         *)

\* A rotation's first transaction.
LEMMA RotateRowsIs ==
  ASSUME RowTypes, NEW w \in Writers, RotateRows(w)
  PROVE  /\ RowTypes'
         /\ \/ UNCHANGED <<events, expired>>
            \/ \E n \in 0 .. Len(events) :
                 /\ Deleted(n)
                 /\ n = expired \/ Len(events) - n = MaxRows
  <1>1. CASE ForeignKeyHolds(Oldest(RowsToRotate))
    <2>1. PICK n \in 0 .. Len(events) :
            n = RowsToRotate /\ (n = expired \/ Len(events) - n = MaxRows)
      BY RowsToRotateIs
    <2>2. DeleteOldest(n) /\ expired' = 0 /\ ForeignKeyHolds(Oldest(n))
      BY <1>1, <2>1 DEF RotateRows
    <2>3. /\ events' \in Seq(Events) /\ IsInjective(events')
          /\ Len(events') \in Nat
      BY <2>2, DeleteIs, LenProperties
    <2>4. RowTypes'
      BY <2>2, <2>3 DEF RowTypes
    <2>5. QED
      BY <2>1, <2>2, <2>4 DEF Deleted
  <1>2. CASE ~ ForeignKeyHolds(Oldest(RowsToRotate))
    BY <1>2 DEF RotateRows, RowTypes
  <1>3. QED
    BY <1>1, <1>2

\* Its second transaction.
LEMMA RotateSizeIs ==
  ASSUME RowTypes, NEW w \in Writers, RotateSize(w)
  PROVE  /\ RowTypes'
         /\ \/ UNCHANGED <<events, expired>>
            \/ \E n \in 0 .. Len(events) : Deleted(n)
  <1>1. PICK n \in 0 .. Len(events) :
          n = IF Len(events) < SizeBatch THEN Len(events) ELSE SizeBatch
    BY ConstantsAssumption DEF RowTypes
  <1>2. CASE oversized /\ ForeignKeyHolds(Oldest(n))
    <2>1. /\ DeleteOldest(n)
          /\ expired' = IF n < expired THEN expired - n ELSE 0
      BY <1>1, <1>2 DEF RotateSize
    <2>2. /\ events' \in Seq(Events) /\ IsInjective(events')
          /\ Len(events') = Len(events) - n
      BY <2>1, DeleteIs
    <2>3. expired' \in 0 .. Len(events')
      BY <2>1, <2>2 DEF RowTypes
    <2>4. QED
      BY <1>2, <2>1, <2>2, <2>3 DEF RowTypes, Deleted
  <1>3. CASE ~ (oversized /\ ForeignKeyHolds(Oldest(n)))
    BY <1>1, <1>3 DEF RotateSize, RowTypes
  <1>4. QED
    BY <1>2, <1>3

\* A step keeps the types of the table and all its rows, or deletes the oldest.
LEMMA RowsStep ==
  ASSUME RowTypes, [Next]_vars
  PROVE  /\ RowTypes'
         /\ \/ Stored \subseteq ToSet(events')
            \/ \E n \in 0 .. Len(events) : Deleted(n)
  <1>1. CASE UNCHANGED <<events, expired>>
    BY <1>1 DEF RowTypes, Stored
  <1>2. ASSUME NEW w \in Writers, NEW e \in Events, NEW decided \in BOOLEAN,
               RecordEvent(w, e, decided)
        PROVE  RowTypes' /\ Stored \subseteq ToSet(events')
    BY <1>2, InsertIs DEF RecordEvent
  <1>3. ASSUME NEW w \in Writers, NEW e \in Events, RecordAuditedEvent(w, e)
        PROVE  RowTypes' /\ Stored \subseteq ToSet(events')
    <2>1. Insert(e)
      BY <1>3 DEF RecordAuditedEvent, Insert
    <2>2. QED
      BY <2>1, InsertIs
  <1>4. ASSUME NEW w \in Writers, RotateRows(w)
        PROVE  /\ RowTypes'
               /\ Stored \subseteq ToSet(events') \/ \E n \in 0 .. Len(events) : Deleted(n)
    BY <1>4, RotateRowsIs DEF Stored
  <1>5. ASSUME NEW w \in Writers, RotateSize(w)
        PROVE  /\ RowTypes'
               /\ Stored \subseteq ToSet(events') \/ \E n \in 0 .. Len(events) : Deleted(n)
    BY <1>5, RotateSizeIs DEF Stored
  <1>6. CASE Expire
    BY <1>6 DEF Expire, RowTypes, Stored
  <1>7. QED
    BY <1>1, <1>2, <1>3, <1>4, <1>5, <1>6
       DEF Next, vars, LoseEvent, RequestRotation, RotationBusy, RecordAudit, LoseAudit,
           Restart, Outgrow

\* A call in progress names an event.
LEMMA CallIs ==
  ASSUME CallTypes, NEW w \in Writers, call[w].at \in Steps
  PROVE  call[w].event \in Events /\ call[w].decided \in BOOLEAN
  BY DEF CallTypes, Calls, Idle, Steps

\* record_event goes on with a rotation or with what is left of the call.
LEMMA CountedIs ==
  ASSUME CallTypes, NEW w \in Writers, NEW e \in Events, NEW decided \in BOOLEAN,
         Counted(w, e, decided)
  PROVE  CallTypes'
  <1>1. (writeCount[w] + 1) % RotateEvery \in 0 .. (RotateEvery - 1)
    BY ConstantsAssumption DEF CallTypes
  <1>2. QED
    BY <1>1 DEF CallTypes, Counted, AuditNext, Calls, Idle, Steps

LEMMA EndRotationIs ==
  ASSUME CallTypes, NEW w \in Writers, call[w].at \in Steps, EndRotation(w),
         UNCHANGED writeCount
  PROVE  CallTypes'
  BY CallIs DEF CallTypes, EndRotation, AuditNext, Calls, Idle, Steps

\* Every step keeps the types of what a process knows.
LEMMA CallStep ==
  ASSUME CallTypes, [Next]_vars
  PROVE  CallTypes'
  <1>1. CASE UNCHANGED <<writeCount, call>>
    BY <1>1 DEF CallTypes
  <1>2. ASSUME NEW w \in Writers, NEW e \in Events, NEW decided \in BOOLEAN,
               RecordEvent(w, e, decided) \/ LoseEvent(w, e, decided)
        PROVE  CallTypes'
    BY <1>2, CountedIs DEF RecordEvent, LoseEvent
  <1>3. ASSUME NEW w \in Writers, NEW e \in Events, RequestRotation(w, e)
        PROVE  CallTypes'
    BY <1>3 DEF RequestRotation, CallTypes, Calls, Steps
  <1>4. ASSUME NEW w \in Writers, RotateRows(w)
        PROVE  CallTypes'
    <2>1. CASE EndRotation(w)
      BY <1>4, <2>1, EndRotationIs DEF RotateRows, Steps
    <2>2. CASE call' = [call EXCEPT ![w].at = "rotateSize"]
      <3>1. /\ call[w] \in [at : Steps, event : Events, decided : BOOLEAN]
            /\ writeCount' = writeCount
        BY <1>4 DEF CallTypes, RotateRows, Calls, Idle
      <3>2. [call[w] EXCEPT !.at = "rotateSize"] \in Calls
        BY <3>1 DEF Calls, Steps
      <3>3. QED
        BY <2>2, <3>1, <3>2 DEF CallTypes
    <2>3. QED
      BY <1>4, <2>1, <2>2 DEF RotateRows
  <1>5. ASSUME NEW w \in Writers, RotateSize(w) \/ RotationBusy(w)
        PROVE  CallTypes'
    BY <1>5, EndRotationIs DEF RotateSize, RotationBusy, Steps
  <1>6. ASSUME NEW w \in Writers, RecordAudit(w) \/ LoseAudit(w)
        PROVE  CallTypes'
    BY <1>6 DEF RecordAudit, LoseAudit, CallTypes, Calls
  <1>7. ASSUME NEW w \in Writers, Restart(w)
        PROVE  CallTypes'
    BY <1>7, ConstantsAssumption DEF Restart, CallTypes, Calls
  <1>8. QED
    BY <1>1, <1>2, <1>3, <1>4, <1>5, <1>6, <1>7
       DEF Next, vars, RecordAuditedEvent, Expire, Outgrow

----------------------------------------------------------------------------
\* An audit row comes with its event in the table, and no event leaves the table
\* that an audit row names.
LEMMA AuditStep ==
  ASSUME IInv, [Next]_vars
  PROVE  audited' \in SUBSET Events /\ AuditHasEvent'
  <1>1. RowTypes /\ CallTypes /\ audited \in SUBSET Events /\ audited \subseteq Stored
    BY DEF IInv, TypeOK, RowTypes, CallTypes, AuditHasEvent
  <1>2. CASE UNCHANGED audited
    <2>1. CASE Stored \subseteq ToSet(events')
      BY <1>1, <1>2, <2>1 DEF AuditHasEvent, Stored
    <2>2. ASSUME NEW n \in 0 .. Len(events), Deleted(n)
          PROVE  AuditHasEvent'
      <3>1. ToSet(events') = Stored \ Oldest(n) /\ Oldest(n) \cap audited = {}
        BY <1>1, <2>2, DeleteIs DEF Deleted, ForeignKeyHolds
      <3>2. QED
        BY <1>1, <1>2, <3>1 DEF AuditHasEvent, Stored
    <2>3. QED
      BY <1>1, <1>2, <2>1, <2>2, RowsStep
  <1>3. ASSUME NEW w \in Writers, RecordAudit(w)
        PROVE  audited' \in SUBSET Events /\ AuditHasEvent'
    <2>1. events' = events /\ call[w].event \in Events
      BY <1>1, <1>3, CallIs DEF RecordAudit, Steps
    <2>2. QED
      BY <1>1, <1>3, <2>1 DEF RecordAudit, AuditHasEvent, Stored
  <1>4. ASSUME NEW w \in Writers, NEW e \in Events, RecordAuditedEvent(w, e)
        PROVE  audited' \in SUBSET Events /\ AuditHasEvent'
    <2>1. Insert(e) /\ audited' = audited \cup {e}
      BY <1>4 DEF RecordAuditedEvent, Insert
    <2>2. ToSet(events') = Stored \cup {e}
      BY <1>1, <2>1, InsertIs
    <2>3. QED
      BY <1>1, <2>1, <2>2 DEF AuditHasEvent, Stored
  <1>5. QED
    BY <1>2, <1>3, <1>4
       DEF Next, vars, RecordEvent, LoseEvent, RequestRotation, RotateRows, RotateSize,
           RotationBusy, LoseAudit, Restart, Expire, Outgrow

LEMMA NextIInv == IInv /\ [Next]_vars => IInv'
  <1> SUFFICES ASSUME IInv, [Next]_vars
               PROVE  IInv'
    OBVIOUS
  <1>1. RowTypes' /\ CallTypes'
    BY RowsStep, CallStep DEF IInv, TypeOK, RowTypes, CallTypes
  <1>2. oversized' \in BOOLEAN
    BY DEF IInv, TypeOK, Next, vars, RecordEvent, LoseEvent, RequestRotation,
           RecordAuditedEvent, RotateRows, RotateSize, RotationBusy, RecordAudit, LoseAudit,
           Restart, Expire, Outgrow
  <1>3. QED
    BY <1>1, <1>2, AuditStep DEF IInv, TypeOK, RowTypes, CallTypes

THEOREM Invariant == Spec => []IInv
  BY InitIInv, NextIInv, PTL DEF Spec

\* The type invariant of the event store.
THEOREM StoreTypeCorrect == Spec => []TypeOK
  <1>1. IInv => TypeOK
    BY DEF IInv
  <1>2. QED
    BY <1>1, Invariant, PTL

\* Every audit row has its event (repository.py, the foreign key of audit_log),
\* however many processes record, audit and rotate, and wherever they stop.
THEOREM AuditKeepsEvent == Spec => []AuditHasEvent
  <1>1. IInv => AuditHasEvent
    BY DEF IInv
  <1>2. QED
    BY <1>1, Invariant, PTL

\* rotate_events deletes from the old end only.
THEOREM DeletesOldestFirst == Spec => OldestFirst
  <1>1. IInv /\ [Next]_vars =>
          [\A i, j \in 1 .. Len(events) :
             i < j /\ events[j] \notin ToSet(events') => events[i] \notin ToSet(events')]_vars
    <2>1. SUFFICES ASSUME IInv, [Next]_vars,
                          NEW i \in 1 .. Len(events), NEW j \in 1 .. Len(events),
                          i < j, events[j] \notin ToSet(events')
                   PROVE  events[i] \notin ToSet(events')
      OBVIOUS
    <2>2. RowTypes
      BY <2>1 DEF IInv, TypeOK, RowTypes
    <2>3. events[j] \in Stored
      BY <2>2 DEF RowTypes, Stored, ToSet
    <2>4. PICK n \in 0 .. Len(events) : Deleted(n)
      BY <2>1, <2>2, <2>3, RowsStep
    <2>5. ToSet(events') = Stored \ Oldest(n)
      BY <2>2, <2>4, DeleteIs DEF Deleted
    <2>6. PICK k \in 1 .. n : events[j] = events[k]
      BY <2>1, <2>3, <2>5 DEF Oldest
    <2>7. j = k
      BY <2>2, <2>6 DEF RowTypes, IsInjective
    <2>8. i \in 1 .. n
      BY <2>1, <2>6, <2>7
    <2>9. QED
      BY <2>5, <2>8 DEF Oldest
  <1>2. QED
    BY <1>1, Invariant, PTL DEF Spec, OldestFirst

\* The age and the row limit leave every unexpired event, or max_rows events.
THEOREM KeepsRecentRows == Spec => KeepsRecent
  <1>1. IInv /\ [Next]_vars =>
          [\A w \in Writers : RotateRows(w) =>
             \/ Len(events') >= Len(events) - expired
             \/ Len(events') >= MaxRows]_vars
    <2>1. SUFFICES ASSUME IInv, NEW w \in Writers, RotateRows(w)
                   PROVE  \/ Len(events') >= Len(events) - expired
                          \/ Len(events') >= MaxRows
      OBVIOUS
    <2>2. RowTypes /\ Len(events) \in Nat /\ expired \in 0 .. Len(events)
      BY <2>1 DEF IInv, TypeOK, RowTypes
    <2>3. CASE UNCHANGED events
      BY <2>2, <2>3
    <2>4. ASSUME NEW n \in 0 .. Len(events), Deleted(n),
                 n = expired \/ Len(events) - n = MaxRows
          PROVE  Len(events') >= Len(events) - expired \/ Len(events') >= MaxRows
      <3>1. Len(events') = Len(events) - n
        BY <2>2, <2>4, DeleteIs DEF Deleted
      <3>2. QED
        BY <2>2, <2>4, <3>1, ConstantsAssumption
    <2>5. QED
      BY <2>1, <2>2, <2>3, <2>4, RotateRowsIs
  <1>2. QED
    BY <1>1, Invariant, PTL DEF Spec, KeepsRecent
=============================================================================
