----------------------------- MODULE EventStore -----------------------------
(***************************************************************************)
(* The events and audit_log tables of the StateStore and the rotation of   *)
(* events (storage/repository.py), as the hooks and the CLI use them.      *)
(*                                                                         *)
(* A hook call records its event, and then, in a transaction of its own,   *)
(* the audit row of its decision; every RotateEvery-th record_event of a   *)
(* process rotates the table in between.  audit_log.event_id is a foreign  *)
(* key (PRAGMA foreign_keys=ON, no ON DELETE action).                      *)
(*                                                                         *)
(* The order of created_at is the order of the sequence events; the age of *)
(* an event is abstracted to whether the ttl has passed.  The counters are *)
(* left out: they only count, and nothing here reads them.                 *)
(***************************************************************************)
EXTENDS Naturals, Sequences, SequencesExt

CONSTANTS Events,      \* event ids
          Writers,     \* processes, each with a StateStore of its own
          MaxRows,     \* events.max_rows
          RotateEvery, \* events.rotate_every_n_writes
          SizeBatch    \* rows the size limit deletes at once (1000)

ASSUME ConstantsAssumption ==
  /\ MaxRows \in Nat
  /\ RotateEvery \in Nat \ {0}
  /\ SizeBatch \in Nat \ {0}

VARIABLES
  events,     \* the rows of events, oldest created_at first
  expired,    \* how many of the oldest are past the ttl
  oversized,  \* the database file is above max_db_mb
  audited,    \* the events the rows of audit_log refer to
  writeCount, \* StateStore._write_count of each process, modulo RotateEvery
  call        \* where each process is in its call

vars == <<events, expired, oversized, audited, writeCount, call>>

Idle == [at |-> "idle"]
Steps == {"rotateRows", "rotateSize", "audit"}
\* A call in progress; decided says that an audit row of the event follows: of
\* the decision, or of the promotion attempt the event finalises.
Calls == {Idle} \cup [at : Steps, event : Events, decided : BOOLEAN]

Stored == ToSet(events)

TypeOK ==
  /\ events \in Seq(Events)
  /\ IsInjective(events)
  /\ expired \in 0 .. Len(events)
  /\ oversized \in BOOLEAN
  /\ audited \in SUBSET Events
  /\ writeCount \in [Writers -> 0 .. (RotateEvery - 1)]
  /\ call \in [Writers -> Calls]

Init ==
  /\ events = <<>>
  /\ expired = 0
  /\ oversized = FALSE
  /\ audited = {}
  /\ writeCount = [w \in Writers |-> 0]
  /\ call = [w \in Writers |-> Idle]

----------------------------------------------------------------------------
(* What is left of a call.                                                 *)

AuditNext(e, decided) ==
  IF decided THEN [at |-> "audit", event |-> e, decided |-> TRUE] ELSE Idle

\* Mutation of ForeignKeyHolds: without PRAGMA foreign_keys=ON.
ForeignKeyIgnored(deleted) == deleted \subseteq Events

\* Deleting these events leaves no audit row without its event.
ForeignKeyHolds(deleted) == deleted \cap audited = {}

Oldest(n) == {events[i] : i \in 1 .. n}

\* Mutation of DeleteOldest: ORDER BY created_at DESC.
DeleteNewest(n) == events' = SubSeq(events, 1, Len(events) - n)

DeleteOldest(n) == events' = SubSeq(events, n + 1, Len(events))

\* Mutation of RowsToRotate: the rows are counted before the expired ones are
\* deleted.
RowsToRotateEarly ==
  IF Len(events) > MaxRows
  THEN IF Len(events) - MaxRows + expired > Len(events)
       THEN Len(events)
       ELSE Len(events) - MaxRows + expired
  ELSE expired

\* The expired rows, and as many more as are above max_rows.
RowsToRotate ==
  IF Len(events) - expired > MaxRows THEN Len(events) - MaxRows ELSE expired

\* INSERT OR REPLACE with created_at = now: the row becomes the newest.
Position(e) == CHOOSE i \in 1 .. Len(events) : events[i] = e

\* Mutation of Insert: a plain INSERT of a row that is there already.
InsertAgain(e) == events' = Append(events, e) /\ expired' = expired

Insert(e) ==
  IF e \in Stored
  THEN /\ events' = Append(RemoveAt(events, Position(e)), e)
       /\ expired' = IF Position(e) <= expired THEN expired - 1 ELSE expired
  ELSE /\ events' = Append(events, e)
       /\ expired' = expired

----------------------------------------------------------------------------
(* record_event: stored, or lost to SQLITE_BUSY and swallowed; counted as a *)
(* write either way.                                                       *)
Counted(w, e, decided) ==
  /\ writeCount' = [writeCount EXCEPT ![w] = (@ + 1) % RotateEvery]
  /\ call' = [call EXCEPT ![w] =
                IF (writeCount[w] + 1) % RotateEvery = 0
                THEN [at |-> "rotateRows", event |-> e, decided |-> decided]
                ELSE AuditNext(e, decided)]

RecordEvent(w, e, decided) ==
  /\ call[w] = Idle
  /\ Insert(e)
  /\ Counted(w, e, decided)
  /\ UNCHANGED <<oversized, audited>>

LoseEvent(w, e, decided) ==
  /\ call[w] = Idle
  /\ Counted(w, e, decided)
  /\ UNCHANGED <<events, expired, oversized, audited>>

(* `storage rotate` of the CLI calls rotate_events on its own.              *)
RequestRotation(w, e) ==
  /\ call[w] = Idle
  /\ call' = [call EXCEPT ![w] = [at |-> "rotateRows", event |-> e, decided |-> FALSE]]
  /\ UNCHANGED <<events, expired, oversized, audited, writeCount>>

EndRotation(w) ==
  call' = [call EXCEPT ![w] = AuditNext(call[w].event, call[w].decided)]

(* rotate_events, first transaction: the expired rows, then the overflow.   *)
(* One row that an audit row refers to fails the foreign key and rolls all  *)
(* of it back; the exception also skips the second transaction.            *)
RotateRows(w) ==
  /\ call[w].at = "rotateRows"
  /\ IF ForeignKeyHolds(Oldest(RowsToRotate))
     THEN /\ DeleteOldest(RowsToRotate)
          /\ expired' = 0
          /\ call' = [call EXCEPT ![w].at = "rotateSize"]
     ELSE /\ EndRotation(w)
          /\ UNCHANGED <<events, expired>>
  /\ UNCHANGED <<oversized, audited, writeCount>>

(* rotate_events, second transaction: where the file is too large, the      *)
(* oldest SizeBatch rows.                                                  *)
RotateSize(w) ==
  /\ call[w].at = "rotateSize"
  /\ LET n == IF Len(events) < SizeBatch THEN Len(events) ELSE SizeBatch
     IN IF oversized /\ ForeignKeyHolds(Oldest(n))
        THEN /\ DeleteOldest(n)
             /\ expired' = IF n < expired THEN expired - n ELSE 0
        ELSE UNCHANGED <<events, expired>>
  /\ EndRotation(w)
  /\ UNCHANGED <<oversized, audited, writeCount>>

(* SQLITE_BUSY in either transaction.                                      *)
RotationBusy(w) ==
  /\ call[w].at \in {"rotateRows", "rotateSize"}
  /\ EndRotation(w)
  /\ UNCHANGED <<events, expired, oversized, audited, writeCount>>

(* record_audit: the foreign key drops the row where the event was lost or  *)
(* rotated away.                                                           *)
RecordAudit(w) ==
  /\ call[w].at = "audit"
  /\ audited' = IF call[w].event \in Stored THEN audited \cup {call[w].event} ELSE audited
  /\ call' = [call EXCEPT ![w] = Idle]
  /\ UNCHANGED <<events, expired, oversized, writeCount>>

LoseAudit(w) ==
  /\ call[w].at = "audit"
  /\ call' = [call EXCEPT ![w] = Idle]
  /\ UNCHANGED <<events, expired, oversized, audited, writeCount>>

(* transition_candidate, mark_dangling_candidates and add_relation insert    *)
(* an event with a new id and its audit row in one transaction, which is not *)
(* counted in _write_count.                                                *)
RecordAuditedEvent(w, e) ==
  /\ call[w] = Idle
  /\ e \notin Stored
  /\ events' = Append(events, e)
  /\ audited' = audited \cup {e}
  /\ UNCHANGED <<expired, oversized, writeCount, call>>

(* The oldest event that is not past the ttl gets past it.                  *)
Expire ==
  /\ expired < Len(events)
  /\ expired' = expired + 1
  /\ UNCHANGED <<events, oversized, audited, writeCount, call>>

(* The file grows past max_db_mb with any of its tables (audit_log has no    *)
(* rotation), and never shrinks: nothing runs VACUUM.                       *)
Outgrow ==
  /\ ~ oversized
  /\ oversized' = TRUE
  /\ UNCHANGED <<events, expired, audited, writeCount, call>>

(* A process ends and starts again: _write_count is only in memory.         *)
Restart(w) ==
  /\ call[w] # Idle \/ writeCount[w] # 0
  /\ call' = [call EXCEPT ![w] = Idle]
  /\ writeCount' = [writeCount EXCEPT ![w] = 0]
  /\ UNCHANGED <<events, expired, oversized, audited>>

Next ==
  \/ \E w \in Writers :
       \/ \E e \in Events, decided \in BOOLEAN :
            RecordEvent(w, e, decided) \/ LoseEvent(w, e, decided)
       \/ \E e \in Events : RequestRotation(w, e) \/ RecordAuditedEvent(w, e)
       \/ RotateRows(w)
       \/ RotateSize(w)
       \/ RotationBusy(w)
       \/ RecordAudit(w)
       \/ LoseAudit(w)
       \/ Restart(w)
  \/ Expire
  \/ Outgrow

Spec == Init /\ [][Next]_vars

----------------------------------------------------------------------------
\* Every audit row can be read together with the event it is about, however
\* rotations of one process fall between the event and the audit row of another.
AuditHasEvent == audited \subseteq Stored

\* Events go oldest first: none is deleted while an older one stays.
OldestFirst ==
  [][\A i, j \in 1 .. Len(events) :
       i < j /\ events[j] \notin ToSet(events') => events[i] \notin ToSet(events')]_vars

\* The age and row limits delete nothing that is within both: what is left is
\* every unexpired event, or max_rows of them.
KeepsRecent ==
  [][\A w \in Writers : RotateRows(w) =>
       \/ Len(events') >= Len(events) - expired
       \/ Len(events') >= MaxRows]_vars

\* runtime-safety.md: "Events rotate by age, row count, and database size";
\* faq.md: rotation "trims by three independent limits".  A rotation that gets
\* the database leaves at most max_rows events and none past the ttl.
RotationTrims ==
  [][\A w \in Writers : RotateRows(w) => Len(events') <= MaxRows /\ expired' = 0]_vars
=============================================================================
