------------------------------ MODULE TraceCache ------------------------------
(***************************************************************************)
(* The TraceCache (runtime.py) as the threads that run the hooks use it:   *)
(* an OrderedDict without a lock.  Each call of one of its methods is      *)
(* atomic under the GIL, and other threads may run between two calls: a    *)
(* put or a pop of the cache is several steps.  An OrderedDict that is     *)
(* changed while _evict_expired iterates over it makes the iteration       *)
(* raise.                                                                  *)
(*                                                                         *)
(* A call puts its decision, from pre_tool_call, and pops it afterwards,   *)
(* from post_tool_call, if the tool runs.  TraceCache.get has no caller in *)
(* the program and is left out.                                            *)
(***************************************************************************)
EXTENDS PythonLists, FiniteSets

CONSTANTS Calls,      \* tool calls, each with a tool_call_id of its own
          MaxEntries  \* trace_cache.max_entries

ASSUME EntriesAssumption == MaxEntries \in Nat

VARIABLES
  entries,  \* _entries, in the order of the OrderedDict
  born,     \* the calls that have an entry, in the order of created_at
  age,      \* how many of those are past the ttl
  stage,    \* where the hooks of a call are in the cache
  now,      \* age as _evict_expired has read it
  stale,    \* whether _entries has changed since the clock was read
  doomed,   \* the list expired of _evict_expired, what is left of it
  got       \* what pop has come to

vars == <<entries, born, age, stage, now, stale, doomed, got>>

PutStages == {"put scan", "put evict", "insert", "move", "check", "trim"}
PopStages == {"pop scan", "pop evict"}
Stages == {"idle", "put", "unput", "end"} \cup PutStages \cup PopStages

TypeOK ==
  /\ entries \in Seq(Calls) /\ IsInjective(entries)
  /\ born \in Seq(Calls) /\ IsInjective(born) /\ ToSet(entries) \subseteq ToSet(born)
  /\ age \in 0 .. Len(born)
  /\ stage \in [Calls -> Stages]
  /\ now \in [Calls -> 0 .. Len(born)]
  /\ stale \in [Calls -> BOOLEAN]
  /\ doomed \in [Calls -> Seq(Calls)]
  /\ got \in [Calls -> {"none", "found", "missing", "raised"}]

Init ==
  /\ entries = <<>> /\ born = <<>> /\ age = 0
  /\ stage = [c \in Calls |-> "idle"]
  /\ now = [c \in Calls |-> 0]
  /\ stale = [c \in Calls |-> FALSE]
  /\ doomed = [c \in Calls |-> <<>>]
  /\ got = [c \in Calls |-> "none"]

Goto(c, s) == stage' = [stage EXCEPT ![c] = s]

\* _entries changes: an iteration that has begun and not ended will notice.
Change(new) ==
  /\ entries' = new
  /\ stale' = [c \in Calls |->
                 stale[c] \/ (stage[c] \in {"put scan", "pop scan"} /\ new # entries)]

----------------------------------------------------------------------------
(* _evict_expired, at the start of put and of pop.                         *)

BeginEvict(c, scan) ==
  /\ now' = [now EXCEPT ![c] = age]
  /\ stale' = [stale EXCEPT ![c] = FALSE]
  /\ Goto(c, scan)
  /\ UNCHANGED <<entries, born, age, doomed, got>>

Expired(c, d) == \E i \in 1 .. now[c] : born[i] = d

\* The comprehension over _entries.  It begins at some moment after the clock was
\* read: if _entries has changed since, it may have begun after the change, and
\* goes through, or before, and raises (PutScanRaises, PopScanRaises).
ScanEntries(c, scan, evict) ==
  /\ stage[c] = scan
  /\ doomed' = [doomed EXCEPT ![c] =
                  Picked(entries, {i \in DOMAIN entries : Expired(c, entries[i])})]
  /\ now' = [now EXCEPT ![c] = 0]
  /\ Goto(c, evict)
  /\ UNCHANGED <<entries, born, age, stale, got>>

EvictOne(c) ==
  /\ stage[c] \in {"put evict", "pop evict"} /\ doomed[c] # <<>>
  /\ Change(Without(entries, Head(doomed[c])))
  /\ doomed' = [doomed EXCEPT ![c] = Tail(@)]
  /\ UNCHANGED <<born, age, stage, now, got>>

Evicted(c, evict) == stage[c] = evict /\ doomed[c] = <<>>

----------------------------------------------------------------------------
(* put.                                                                    *)

BeginPut(c) == stage[c] = "idle" /\ BeginEvict(c, "put scan")

\* The exception ends pre_tool_call; fail_open decides whether the tool runs.
PutRaises(c) ==
  /\ Goto(c, "unput")
  /\ UNCHANGED <<entries, born, age, now, stale, doomed, got>>

PutScanRaises(c) == stage[c] = "put scan" /\ stale[c] /\ PutRaises(c)

\* Mutation of Create: the entry gets no created_at, and does not expire.
CreateUntimed(c) ==
  /\ Evicted(c, "put evict")
  /\ Goto(c, "insert")
  /\ UNCHANGED <<entries, born, age, now, stale, doomed, got>>

\* created_at of the new entry
Create(c) ==
  /\ Evicted(c, "put evict")
  /\ born' = Append(born, c)
  /\ Goto(c, "insert")
  /\ UNCHANGED <<entries, age, now, stale, doomed, got>>

Insert(c) ==
  /\ stage[c] = "insert"
  /\ Change(Append(entries, c))
  /\ Goto(c, "move")
  /\ UNCHANGED <<born, age, now, doomed, got>>

MoveToEnd(c) ==
  /\ stage[c] = "move" /\ c \in ToSet(entries)
  /\ Change(Append(Without(entries, c), c))
  /\ Goto(c, "check")
  /\ UNCHANGED <<born, age, now, doomed, got>>

\* Mutation of MoveRaises: move_to_end refuses an entry that others follow.
MoveRaisesEarly(c) ==
  stage[c] = "move" /\ (c \in ToSet(entries) => Last(entries) # c) /\ PutRaises(c)

\* Another thread has evicted the entry: move_to_end raises KeyError.
MoveRaises(c) == stage[c] = "move" /\ c \notin ToSet(entries) /\ PutRaises(c)

\* Mutation of TooMany: an entry too many.
TooManyLate == Len(entries) > MaxEntries + 1

TooMany == Len(entries) > MaxEntries

\* while len(_entries) > max_entries ...
CheckSize(c) ==
  /\ stage[c] = "check"
  /\ Goto(c, IF TooMany THEN "trim" ELSE "put")
  /\ UNCHANGED <<entries, born, age, now, stale, doomed, got>>

\* ... popitem(last=False); the size is not looked at again.
Trim(c) ==
  /\ stage[c] = "trim" /\ entries # <<>>
  /\ Change(Tail(entries))
  /\ Goto(c, "check")
  /\ UNCHANGED <<born, age, now, doomed, got>>

TrimRaises(c) == stage[c] = "trim" /\ entries = <<>> /\ PutRaises(c)

----------------------------------------------------------------------------
(* pop, when the tool has run.                                             *)

BeginPop(c) == stage[c] \in {"put", "unput"} /\ BeginEvict(c, "pop scan")

Answer(c, a) ==
  /\ got' = [got EXCEPT ![c] = a]
  /\ Goto(c, "end")
  /\ UNCHANGED <<born, age, now, doomed>>

\* The exception ends post_tool_call.
PopScanRaises(c) ==
  /\ stage[c] = "pop scan" /\ stale[c]
  /\ Answer(c, "raised")
  /\ UNCHANGED <<entries, stale>>

\* Mutation of Take: the decision is read with get.
TakeCopy(c) ==
  /\ Evicted(c, "pop evict")
  /\ Answer(c, IF c \in ToSet(entries) THEN "found" ELSE "missing")
  /\ UNCHANGED <<entries, stale>>

\* _entries.pop(trace_id, None)
Take(c) ==
  /\ Evicted(c, "pop evict")
  /\ Answer(c, IF c \in ToSet(entries) THEN "found" ELSE "missing")
  /\ Change(Without(entries, c))

----------------------------------------------------------------------------
\* The oldest entry gets past the ttl.
Age ==
  /\ age < Len(born)
  /\ age' = age + 1
  /\ UNCHANGED <<entries, born, stage, now, stale, doomed, got>>

PutStep(c) ==
  \/ BeginPut(c) \/ ScanEntries(c, "put scan", "put evict") \/ PutScanRaises(c)
  \/ Create(c) \/ Insert(c) \/ MoveToEnd(c) \/ MoveRaises(c)
  \/ CheckSize(c) \/ Trim(c) \/ TrimRaises(c)

PopStep(c) ==
  \/ BeginPop(c) \/ ScanEntries(c, "pop scan", "pop evict") \/ PopScanRaises(c) \/ Take(c)

Next == Age \/ \E c \in Calls : PutStep(c) \/ EvictOne(c) \/ PopStep(c)

Spec == Init /\ [][Next]_vars

----------------------------------------------------------------------------
Putting(c) == stage[c] \in {"move", "check", "trim"}

\* max_entries bounds the cache although the size is checked and the entry is
\* dropped in two steps, and puts raise in between: only the entry of a put that
\* has not come back may be one too many.
BoundedByPuts ==
  Len(entries) <= MaxEntries + Cardinality({c \in ToSet(entries) : Putting(c)})

\* A put that raises, wherever it does, leaves no entry behind: the call is
\* refused or goes on unguarded, and no post hook finds a decision for it.
FailedPutHoldsNothing == \A c \in Calls : stage[c] = "unput" => c \notin ToSet(entries)

\* The threads keep what the hooks expect of the cache: a decision is handed out
\* once, and a pop that returns nothing returns it for a decision that is gone.
CorrelationSpec == INSTANCE Correlation WITH held <- ToSet(entries), answers <- got

ImplementsCorrelation == CorrelationSpec!Spec
=============================================================================
