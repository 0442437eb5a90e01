------------------------------ MODULE HookFlow ------------------------------
(***************************************************************************)
(* The two hooks of the plugin around each tool call: pre_tool_call        *)
(* (intents/preflight.py) has the policy evaluated by a pool of worker     *)
(* threads, keeps the decision in the TraceCache (runtime.py), stores a    *)
(* decision that blocks, and answers; Hermes runs the tool unless the      *)
(* answer blocks it; post_tool_call (intents/capture.py) takes the         *)
(* decision out of the cache and stores event, audit and candidate.        *)
(*                                                                         *)
(* The hooks of different calls run concurrently.  A step is one           *)
(* transaction of the StateStore or one operation of the cache or of the   *)
(* pool; the store's rows are those of the event a decision carries.       *)
(* What threads do to each other inside an operation of the cache is in    *)
(* TraceCache; here such an operation succeeds or raises.                  *)
(***************************************************************************)
EXTENDS Enforcement, PythonLists, FiniteSets

CONSTANTS Calls,      \* tool calls, each with a tool_call_id of its own
          Workers,    \* max_workers of _PREFLIGHT_EXECUTOR (4)
          MaxEntries  \* trace_cache.max_entries

ASSUME PoolAssumption == Workers \in Nat \ {0}
ASSUME CacheAssumption == MaxEntries \in Nat

VARIABLES
  config,     \* enforcement.mode, dry_run, enforcement.fail_open
  anonymous,  \* the calls that Hermes makes without a tool_call_id
  stage,      \* where the hooks of a call are
  queue,      \* the futures no worker has taken
  running,    \* the futures a worker evaluates
  outcome,    \* what the future of a call returns
  decision,   \* the decision pre_tool_call has for the call
  answer,     \* what pre_tool_call returned
  cache,      \* TraceCache._entries, oldest first
  got,        \* the decision post_tool_call found
  events,     \* the calls whose decision's event is stored
  audits,     \* how many audit rows the decision has
  candidates  \* the calls with a candidates row for that event

pool == <<queue, running, outcome>>
rows == <<events, audits, candidates>>
vars == <<config, anonymous, stage, queue, running, outcome, decision, answer,
          cache, got, events, audits, candidates>>

PreStages == {"wait", "cache", "event", "audit", "find", "create"}
PostStages == {"postEvent", "postAudit", "finalise", "postFind", "postCreate"}
Stages == {"idle", "passed", "end", "lost"} \cup PreStages \cup PostStages

\* routed and blocked: a block with the decision's reasons; refused: a block
\* because the hook failed.
Answers == {"pass", "routed", "blocked", "refused"}

TypeOK ==
  /\ config \in [mode : Modes, dryRun : BOOLEAN, failOpen : BOOLEAN]
  /\ anonymous \in SUBSET Calls
  /\ stage \in [Calls -> Stages]
  /\ queue \in Seq(Calls)
  /\ running \in SUBSET Calls /\ Cardinality(running) <= Workers
  /\ outcome \in [Calls -> Decisions \cup {"pending", "raised"}]
  /\ decision \in [Calls -> Decisions \cup {"unknown"}]
  /\ answer \in [Calls -> Answers \cup {"pending"}]
  /\ cache \in Seq(Calls) /\ IsInjective(cache) /\ Len(cache) <= MaxEntries
  /\ got \in [Calls -> Decisions \cup {"unknown"}]
  /\ events \in SUBSET Calls
  /\ audits \in [Calls -> 0 .. 2]
  /\ candidates \in SUBSET Calls

Init ==
  /\ config \in [mode : Modes, dryRun : BOOLEAN, failOpen : BOOLEAN]
  /\ anonymous \in SUBSET Calls
  /\ stage = [c \in Calls |-> "idle"]
  /\ queue = <<>> /\ running = {}
  /\ outcome = [c \in Calls |-> "pending"]
  /\ decision = [c \in Calls |-> "unknown"]
  /\ answer = [c \in Calls |-> "pending"]
  /\ cache = <<>>
  /\ got = [c \in Calls |-> "unknown"]
  /\ events = {} /\ audits = [c \in Calls |-> 0] /\ candidates = {}

----------------------------------------------------------------------------
(* The pool.                                                               *)

Submit(c) ==
  /\ stage[c] = "idle"
  /\ stage' = [stage EXCEPT ![c] = "wait"]
  /\ queue' = Append(queue, c)
  /\ UNCHANGED <<config, anonymous, running, outcome, decision, answer, cache, got, rows>>

TakeJob ==
  /\ queue # <<>> /\ Cardinality(running) < Workers
  /\ running' = running \cup {Head(queue)}
  /\ queue' = Tail(queue)
  /\ UNCHANGED <<config, anonymous, stage, outcome, decision, answer, cache, got, rows>>

Evaluate(c) ==
  /\ c \in running
  /\ running' = running \ {c}
  /\ \/ \E s \in Severities : outcome' = [outcome EXCEPT ![c] = Verdict(config, s)]
     \/ outcome' = [outcome EXCEPT ![c] = "raised"]
  /\ UNCHANGED <<config, anonymous, stage, queue, decision, answer, cache, got, rows>>

----------------------------------------------------------------------------
(* pre_tool_call.                                                          *)

Goto(c, s) == stage' = [stage EXCEPT ![c] = s]

Return(c, a) ==
  /\ answer' = [answer EXCEPT ![c] = a]
  /\ Goto(c, IF a = "pass" THEN "passed" ELSE "end")

\* Mutation of Failed: fail_open is not looked at.
FailedOpen(c) == Return(c, "pass")

Failed(c) == Return(c, IF config.failOpen THEN "pass" ELSE "refused")

HasResult(c) ==
  /\ stage[c] = "wait"
  /\ outcome[c] \in Decisions
  /\ decision' = [decision EXCEPT ![c] = outcome[c]]
  /\ Goto(c, "cache")
  /\ UNCHANGED <<config, anonymous, pool, answer, cache, got, rows>>

\* The policy raises, or the cache or an exporter does.
HookRaises(c) ==
  /\ \/ stage[c] = "wait" /\ outcome[c] = "raised"
     \/ stage[c] = "cache"
  /\ Failed(c)
  /\ UNCHANGED <<config, anonymous, pool, decision, cache, got, rows>>

\* Mutation of Timeout: a call that a worker has taken is waited for.
TimeoutQueued(c) ==
  /\ stage[c] = "wait" /\ c \in ToSet(queue)
  /\ queue' = Without(queue, c)
  /\ Failed(c)
  /\ UNCHANGED <<config, anonymous, running, outcome, decision, cache, got, rows>>

\* cancel() drops a future that is still queued, and does nothing to one that
\* a worker evaluates.
Timeout(c) ==
  /\ stage[c] = "wait" /\ outcome[c] = "pending"
  /\ queue' = Without(queue, c)
  /\ Failed(c)
  /\ UNCHANGED <<config, anonymous, running, outcome, decision, cache, got, rows>>

\* Mutation of Bounded: an entry too many.
BoundedLate(entries) ==
  IF Len(entries) > MaxEntries + 1 THEN Tail(entries) ELSE entries

\* while len > max_entries: popitem(last=False)
Bounded(entries) ==
  IF Len(entries) > MaxEntries
  THEN SubSeq(entries, Len(entries) - MaxEntries + 1, Len(entries))
  ELSE entries

PutDecision(c) ==
  /\ stage[c] = "cache"
  /\ cache' = Bounded(Append(cache, c))
  /\ IF decision[c] \in Enforcing
     THEN Goto(c, "event") /\ UNCHANGED answer
     ELSE Return(c, "pass")
  /\ UNCHANGED <<config, anonymous, pool, decision, got, rows>>

\* record_event, or its loss to SQLITE_BUSY, which it swallows.
Recorded(c) == events' = events \cup {c} \/ UNCHANGED events

\* record_audit, the same; the foreign key wants the event.
Audited(c) ==
  \/ c \in events /\ audits' = [audits EXCEPT ![c] = @ + 1]
  \/ UNCHANGED audits

PersistEvent(c) ==
  /\ stage[c] = "event"
  /\ Recorded(c)
  /\ Goto(c, "audit")
  /\ UNCHANGED <<config, anonymous, pool, decision, answer, cache, got, audits, candidates>>

\* Mutation of PersistAudit: fail_open lets through what is stored, too.
PersistAuditLenient(c) ==
  /\ stage[c] = "audit"
  /\ Audited(c)
  /\ CASE decision[c] = "candidate" -> Goto(c, "find") /\ UNCHANGED answer
       [] config.failOpen -> Return(c, "pass")
       [] OTHER -> Return(c, "blocked")
  /\ UNCHANGED <<config, anonymous, pool, decision, cache, got, events, candidates>>

PersistAudit(c) ==
  /\ stage[c] = "audit"
  /\ Audited(c)
  /\ IF decision[c] = "candidate"
     THEN Goto(c, "find") /\ UNCHANGED answer
     ELSE Return(c, "blocked")
  /\ UNCHANGED <<config, anonymous, pool, decision, cache, got, events, candidates>>

\* find_candidate_by_source_event
FindCandidate(c) ==
  /\ stage[c] = "find"
  /\ IF c \in candidates
     THEN Return(c, "routed")
     ELSE Goto(c, "create") /\ UNCHANGED answer
  /\ UNCHANGED <<config, anonymous, pool, decision, cache, got, rows>>

\* create_candidate; the unique index on source_event_id refuses a second row.
PersistCandidate(c) ==
  /\ stage[c] = "create"
  /\ c \notin candidates
  /\ candidates' = candidates \cup {c}
  /\ Return(c, "routed")
  /\ UNCHANGED <<config, anonymous, pool, decision, cache, got, events, audits>>

\* Mutation of PersistFails: the failure is logged and forgotten.
PersistFailsQuietly(c) ==
  /\ stage[c] \in {"find", "create"}
  /\ Return(c, "routed")
  /\ UNCHANGED <<config, anonymous, pool, decision, cache, got, rows>>

\* One of the two raises: a busy database, or the unique index.
PersistFails(c) ==
  /\ stage[c] \in {"find", "create"}
  /\ Failed(c)
  /\ UNCHANGED <<config, anonymous, pool, decision, cache, got, rows>>

PreHook(c) ==
  \/ HasResult(c) \/ HookRaises(c) \/ Timeout(c) \/ PutDecision(c)
  \/ PersistEvent(c) \/ PersistAudit(c)
  \/ FindCandidate(c) \/ PersistCandidate(c) \/ PersistFails(c)

----------------------------------------------------------------------------
(* The tool has run: post_tool_call.                                       *)

PopDecision(c) ==
  /\ stage[c] = "passed"
  /\ IF c \in ToSet(cache) /\ c \notin anonymous
     THEN /\ cache' = Without(cache, c)
          /\ got' = [got EXCEPT ![c] = decision[c]]
     ELSE UNCHANGED <<cache, got>>
  /\ Goto(c, "postEvent")
  /\ UNCHANGED <<config, anonymous, pool, decision, answer, rows>>

\* The cache raises (TraceCache!PopScanRaises): the hook ends without an event.
PopRaises(c) ==
  /\ stage[c] = "passed" /\ c \notin anonymous
  /\ Goto(c, "end")
  /\ UNCHANGED <<config, anonymous, pool, decision, answer, cache, got, rows>>

\* Without the decision the event has an id of its own, and no audit.
PostEvent(c) ==
  /\ stage[c] = "postEvent"
  /\ IF got[c] = "unknown"
     THEN UNCHANGED events /\ Goto(c, "finalise")
     ELSE Recorded(c) /\ Goto(c, "postAudit")
  /\ UNCHANGED <<config, anonymous, pool, decision, answer, cache, got, audits, candidates>>

PostAudit(c) ==
  /\ stage[c] = "postAudit"
  /\ Audited(c)
  /\ Goto(c, "finalise")
  /\ UNCHANGED <<config, anonymous, pool, decision, answer, cache, got, events, candidates>>

\* _maybe_finalize_promotion (PromotionFlow!Observe) may raise, which ends the
\* hook; _maybe_create_candidate wants a decision to that effect.
Finalise(c) ==
  /\ stage[c] = "finalise"
  /\ \/ got[c] = "candidate" /\ Goto(c, "postFind")
     \/ Goto(c, "end")
  /\ UNCHANGED <<config, anonymous, pool, decision, answer, cache, got, rows>>

PostFind(c) ==
  /\ stage[c] = "postFind"
  /\ Goto(c, IF c \in candidates THEN "end" ELSE "postCreate")
  /\ UNCHANGED <<config, anonymous, pool, decision, answer, cache, got, rows>>

PostCandidate(c) ==
  /\ stage[c] = "postCreate"
  /\ candidates' = candidates \cup {c} \/ UNCHANGED candidates
  /\ Goto(c, "end")
  /\ UNCHANGED <<config, anonymous, pool, decision, answer, cache, got, events, audits>>

PostHook(c) ==
  \/ PopDecision(c) \/ PopRaises(c) \/ PostEvent(c) \/ PostAudit(c)
  \/ Finalise(c) \/ PostFind(c) \/ PostCandidate(c)

----------------------------------------------------------------------------
\* An agent or a reviewer creates a candidate from a stored event.
CreateFromEvent(c) ==
  /\ c \in events \ candidates
  /\ candidates' = candidates \cup {c}
  /\ UNCHANGED <<config, anonymous, stage, pool, decision, answer, cache, got, events, audits>>

\* All entries live equally long: the oldest one gets past the ttl first.
Expire ==
  /\ cache # <<>>
  /\ cache' = Tail(cache)
  /\ UNCHANGED <<config, anonymous, stage, pool, decision, answer, got, rows>>

\* Hermes dies with the calls in progress, and starts again.
InFlight == {c \in Calls : stage[c] \notin {"idle", "end", "lost"}}

Restart ==
  /\ InFlight # {} \/ cache # <<>> \/ running # {}
  /\ stage' = [c \in Calls |-> IF c \in InFlight THEN "lost" ELSE stage[c]]
  /\ cache' = <<>> /\ queue' = <<>> /\ running' = {}
  /\ UNCHANGED <<config, anonymous, outcome, decision, answer, got, rows>>

Next ==
  \/ TakeJob \/ Expire \/ Restart
  \/ \E c \in Calls :
       Submit(c) \/ Evaluate(c) \/ PreHook(c) \/ PostHook(c) \/ CreateFromEvent(c)

(* The thread that runs a hook goes on, and future.result comes back after   *)
(* timeout_ms; nothing is assumed of the workers.                           *)
Spec == Init /\ [][Next]_vars /\ \A c \in Calls : WF_vars(PreHook(c))

----------------------------------------------------------------------------
\* configuration.md, fail_open: with fail_open=false an exception or a timeout
\* anywhere in pre_tool_call refuses the call.  A call that is let through was
\* decided, and decided to be let through.
FailClosed ==
  ~ config.failOpen =>
    \A c \in Calls : answer[c] = "pass" => decision[c] \in {"allow", "warn"}

\* A call that is blocked with "routed this skill to the candidate queue" is in
\* the queue, whatever failed or came between.
RoutedIsQueued == \A c \in Calls : answer[c] = "routed" => c \in candidates

\* "dry_run=true always wins" (hermes-protocol.md): no call is blocked for its
\* decision, in any mode and with any rules.
DryRunWins ==
  config.dryRun => \A c \in Calls : answer[c] \notin {"routed", "blocked"}

\* The decision of a call is audited once: by the pre hook if it blocks, by the
\* post hook if it does not.  Only a candidate decision that could not be stored,
\* and was let through, is audited by both.
AuditedOnce ==
  \A c \in Calls :
    audits[c] = 2 => config.failOpen /\ decision[c] = "candidate" /\ answer[c] = "pass"

\* enforcement.timeout_ms: pre_tool_call answers every call although workers may
\* be stuck in the policy for ever.
PreHookAnswers == \A c \in Calls : stage[c] = "wait" ~> stage[c] \notin PreStages
=============================================================================
