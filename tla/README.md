# hermes-skill-guard in TLA+

hermes-skill-guard is a plugin of the Hermes agent. It looks at each tool call
before and after it runs, keeps events, decisions and skill *candidates* in a
SQLite file, and lets a reviewer approve candidates and promote them to skills.
Paths below are relative to the package `src/hermes_skill_guard/` unless they
begin with `docs/` or `tests/`.

## 1. Inventory

| Part | State it keeps | Operations | Talks to |
|---|---|---|---|
| Candidate store (`storage/repository.py`, `schemas.py`) | `candidates`, `candidate_transitions`, `promotion_attempts` | create, transition, open and complete an attempt, mark dangling | called by tools, hooks, CLI; writes audited events |
| Event store (`storage/repository.py`) | `events`, `audit_log`, `counters`, `_write_count` in memory | record event, record audit, rotate | called by both hooks, the CLI and the candidate store |
| Promotion (`intents/candidates.py`, `promotion.py`, `auto_promoter.py`, `capture.py`, `__main__.py`) | none of its own; the list a scan has read | review, open an attempt, observe `skill_manage`, scan | candidate store |
| Trace cache (`runtime.py`) | an ordered map of decisions, a bound and a ttl | put, get, pop, evict | filled by the pre hook, emptied by the post hook |
| Hooks (`intents/preflight.py`, `capture.py`) | four worker threads for the policy | `pre_tool_call`, `post_tool_call` | policy, cache, both stores |
| Migrations (`storage/migrations.py`) | `schema_version` | apply pending migrations at start | every process that opens the file |
| Module gating (`intents/compatibility.py`, `plugin.py`, `registry.py`) | `modules`, the registered intents | probe, retire, restore, register | event store, Hermes adapter |
| Policy and rules (`policy.py`, `rules/`) | the merged rules, loaded at start | load, merge, evaluate a call | called by the pre hook |
| Relations (`intents/relations.py`) | `skill_relations` | add, list, remove | read by the auto-promoter's gates |
| Configuration (`config.py`) | read once at start | defaults, file, environment | everything |
| Redaction (`redaction.py`) | none | a payload to what is stored of it | both hooks |
| Reporting, observability (`intents/reporting.py`, `observability/`) | none | queries, exporters | read both stores |
| CLI and adapter (`__main__.py`, `adapters/`) | none | arguments, printing, registration | the operations above |

What is hard here. The plugin and the CLI are separate processes on one
database, and Hermes may call tools and hooks from several threads; every store
call opens a connection of its own. Python's `sqlite3` starts a transaction at
the first INSERT, UPDATE or DELETE only, so the SELECT that a store operation
bases its checks on is *not* in the transaction of its writes. A write may fail
with SQLITE_BUSY after three seconds and most callers swallow that. A process may
die between two transactions of one call. Events are deleted by rotation while
other tables still refer to them. `PROJECT.json` lists these hazards at their
lines; the properties are written for them.

What makes each part correct:

- candidate store: only allowed status changes; the trail (`candidate_transitions`)
  agrees with the row; nothing is promoted that was not approved; an attempt and
  its candidate change together;
- event store: an audit row always has its event; rotation deletes the oldest and
  no more than its limits say, and does keep the limits;
- promotion: every way to promote goes through an attempt on a promotable
  candidate; scans make progress;
- cache and hooks: a decision reaches the post hook of its own call or none;
  a slow policy does not stall Hermes; the failure mode is the configured one;
- migrations: none is claimed that was not applied, in order, and a store that is
  open has them all;
- gating: what a plugin has registered is called retired only on the word of a
  newer Hermes than its own;
- configuration: a source that has no sound value for a setting leaves it to the
  next, and nothing blocks a call that nobody asked to;
- rules: the decision depends on which rules are true and not on the order of
  files, rules and conditions; stricter settings never let more through;
- redaction: in the payload of an event no value that is secret, or that stands below
  a sensitive key, is stored as it is, at any depth, in any mode; the rows of
  candidates are not redacted, and their content has a secret in it only after a failure.

## 2. Modules

| Module | What it is |
|---|---|
| `CandidateStore` | the three candidate tables and their operations, with a read step and a write step each |
| `CandidateLifecycle` | abstract specification: the same operations as atomic steps on four variables |
| `EventStore` | `events`, `audit_log` and rotation, with several processes |
| `PromotionFlow` | extends `CandidateStore` with the callers it has: reviewers and their relations, the finalising hook, the auto-promote scan and its gates |
| `TraceCache` | the cache as threads without a lock use it, one step per method of its `OrderedDict` |
| `Correlation` | abstract specification: what the two hooks may expect of the cache |
| `Enforcement` | from severity, mode and `dry_run` to a decision; used by `HookFlow` and `GuardConfig` |
| `HookFlow` | both hooks around a tool call: the pool, the verdict, the cache, the rows they store, restarts |
| `Startup` | processes opening one database, migrations, the probe of Hermes and the registration of intents |
| `GuardConfig`, `RuleEngine`, `Redactor` | pure algorithms: configuration, rules, redaction |
| `GuardedCalls` | composes the three and `Enforcement`: from the user's files to what becomes of a call and what is stored of it |
| `PythonLists` | the list operations that several modules share: an element taken out, a comprehension with a condition |
| `CandidateStoreProofs`, `EventStoreProofs`, `PromotionFlowProofs`, `TraceCacheProofs`, `HookFlowProofs`, `StartupProofs`, `GuardedCallsProofs` | theorems about the modules they extend |
| `SequenceLemmas` | what the sequence operators do: `Append`, `RemoveAt`, `InsertAt`, concatenation, suffixes, `Without`, `Picked`; `Min` and `Max`; induction and recursion over positions |
| `MC...` | the instances of the runs and their symmetry sets |

### CandidateStore

`status`, `promotable`, `reviewedAt`, `promotedAt` are the columns of
`candidates`; `transitions[c]` the rows of `candidate_transitions` in commit
order; `attemptOf` and `attemptStatus` the rows of `promotion_attempts`; `op[k]`
what client `k` has read and is about to write. A store method that reads first
is two actions:

| Code | Actions |
|---|---|
| `create_candidate` | `CreateCandidate` (it reads nothing first) |
| `transition_candidate` | `StartTransition`, `CommitTransition` |
| `create_promotion_attempt` | `StartPromote`, `CommitPromote` |
| `complete_promotion_attempt` | `StartComplete`, then `CompleteSucceeded` or `CompleteFailed` |
| `mark_dangling_candidates` | `StartDangling`, `CommitDangling` |
| a busy database, a failed constraint, a dead process | `Abort` |

`complete_promotion_attempt` reads the attempt before its transaction but the
candidate inside it, after the first UPDATE; so `CompleteSucceeded` checks
`status[c]` as it is, and `CommitTransition` does not. Timestamps are whether
they are set. Names, contents and reasons are not modelled. A method whose check
fails raises before it writes anything and has no step.

### PromotionFlow

Reviewers are the `skill_guard_candidates`, `skill_guard_promote` and
`skill_guard_relations` tools and the same commands of the CLI; hooks run
`_maybe_finalize_promotion`, which may find any pending attempt (by id, or the
newest of that skill's name); scanners run `AutoPromoter.scan`, whose stages are
the variable `scan`. `relations` is the table `skill_relations`; `Gated` is what
`_evaluate_candidate` finds in it. The age gate is a choice (`TooYoung`).
`clear` is a history variable: the candidates that at some moment since their
approval were in no relation that a gate looks for. `mark_dangling_candidates` has
no caller in the program and is not part of it.

| Code | Actions |
|---|---|
| create, stage, approve, reject, archive, promote | `Review` |
| `skill_guard_relations`: add, remove | `AddRelation`, `RemoveRelation` |
| `_maybe_finalize_promotion` | `Observe` |
| `scan`, `_evaluate_candidate` | `BeginScan`, `PassGates`, `GateHolds`, `TooYoung`, `EndScan` |
| `_promote` | `OpenAttempt`, `AttemptOpened`, `PromoteCurrent`, `CurrentPromoted` |
| an exception or a crash in a scan | `ScanRaises`, `ScanAborts` |

### EventStore

`events` is the sequence of rows by `created_at`, `expired` how many of them are
past the ttl, `audited` the events that `audit_log` refers to, `oversized` whether
the file is above `max_db_mb`, `call[w]` where process `w` is in its call.
`rotate_events` is two transactions, `RotateRows` and `RotateSize`. The foreign
key of `audit_log` is `ForeignKeyHolds`. Counters only count and are left out.

### HookFlow

A call goes through the stages of `stage[c]`: `pre_tool_call` from `wait` (its
future is with the pool) through `cache`, `event`, `audit`, `find`, `create` to
`passed` (Hermes runs the tool) or `end` (blocked), `post_tool_call` through the
stages of `PostStages`.

| Code | Actions |
|---|---|
| `executor.submit`, the worker threads | `Submit`, `TakeJob`, `Evaluate` |
| `future.result`, its timeout and `cancel` | `HasResult`, `HookRaises`, `Timeout` |
| `TraceCache.put`, `pop`, `_evict_expired` | `PutDecision`, `PopDecision`, `Expire` |
| `_persist_preflight_decision` | `PersistEvent`, `PersistAudit`, `FindCandidate`, `PersistCandidate`, `PersistFails` |
| `post_tool_call`, `_maybe_create_candidate` | `PostEvent`, `PostAudit`, `Finalise`, `PostFind`, `PostCandidate` |
| `skill_guard_candidates` with action `create` | `CreateFromEvent` |
| Hermes dies and starts again | `Restart` |

The configuration is chosen in `Init`, as are the calls that come without a
`tool_call_id` (`anonymous`). The policy is `Verdict` of the highest severity that
fires; which rules fire is a free choice of the worker, and a worker may be stuck
for ever. `record_event` and `record_audit` may lose their row silently (`Recorded`,
`Audited`), as `_try_record` does; looking for and creating the candidate may
raise. Rotation, which may delete the event again, is in `EventStore`, what
`_maybe_finalize_promotion` does is `Observe` of `PromotionFlow`. An operation of
the cache is one step here, which succeeds or raises (`HookRaises`, `PopRaises`);
what threads do to each other inside it is in `TraceCache`.

### TraceCache

Hooks run on threads and the cache has no lock. A method of the `OrderedDict` is
atomic under the GIL; between two of them another thread may run. A put goes
through the stages `put scan` (the list comprehension of `_evict_expired`), `put
evict` (one `pop` per step), `insert`, `move`, `check`, `trim`; a pop through `pop
scan` and `pop evict` to its answer. `stale` says that the dictionary has changed
since the thread read its clock: the iteration then either began after the change and
goes through, or was under way and raises `RuntimeError`.

| Code | Actions |
|---|---|
| `_evict_expired` | `BeginPut`, `BeginPop`, `ScanEntries`, `EvictOne`, `PutScanRaises`, `PopScanRaises` |
| `put` | `Create`, `Insert`, `MoveToEnd`, `MoveRaises`, `CheckSize`, `Trim`, `TrimRaises` |
| `pop` | `Take` |
| time | `Age` |

`created_at` is the order of `born`, of which the oldest `age` are past the ttl.
`Correlation` maps to it with `held <- ToSet(entries)` and `answers <- got`.

### GuardConfig, RuleEngine, Redactor, GuardedCalls

`LoadConfig` takes one setting of each way in which `config.py` reads one (Boolean,
bounded integer, word, unchecked, set of names, derived from others); the other
settings are read like one of these. A raw value is a type and a value, as YAML or
the environment gives it; `.inf`, of which `int()` makes no number but an error that
`_safe_int` does not catch, has a type of its own (`ConfigRaises`). `RuleEngine` is
the loader's merge (`Merged`), the conditions (`EvalCondition`, with Python's short
cuts, and an error for a pattern that does not compile), and the choice among the
rules that fire (`TopSeverity`). Texts are sequences of characters, so that blank
names, `contains` and lengths are what they are in the code; a pattern is the set of
texts in which it is found. `RedactValue` is the recursion over a payload, a tree of
maps, lists, texts and numbers; the keys of maps stay what they are (`KeptKey`).
Conditions and payloads, which nest to any depth, are lists of their nodes: each node
stands after the nodes it is made of and names their positions (`parts`), the last
node is the whole. The recursion of the code is then a recursive function over
positions, as in `EvalCondition` and `RedactValue`, of which one can prove something.
`IsCondition` and `IsPayload` say what the schema and JSON let through;
`RulesAssumption`, `PayloadsAssumption`, `EnvironmentsAssumption` (a variable is a
text or not set) and `FilesAssumption` (a setting has a type and a value, or is not
named) say it of the constants of `GuardedCalls`.

| Code | Definitions of `GuardedCalls` |
|---|---|
| `plugin.register`, with the registration of both hooks and the loading of the rules | `Start` |
| `plugin.register`, where `load_config` raises | `StartFails` |
| a tool call with both its hooks | `MakeCall`: `Decide`, `Answer`, `Events`, `StoredCandidate` |

What a call leaves behind is an event of each hook that stores one, and at most one
candidate. An event keeps what `RedactValue` makes of its payload; the one of the post
hook has the result and a preview of it, which is cut before it is redacted
(`PostPayload`). Tool name, skill name and the reasons in the audit log are stored
beside the payload as they are and are not part of it. A candidate has its name,
description and target path raw, and its content as well if it is promotable. The pre
hook finds that out (`Promotable`); the post hook, which takes over when the pre hook
could not store the row and `fail_open` let the call run, leaves `promotable` at the
default of 1 (`Candidate`). Which of the two get the row stored is a free choice
(`stores`).

### Startup

A process goes from `down` through the stages of `StateStore.initialize`
(`Opening`) to `ready`, a plugin through `probe` as well. `tables`, `columns`,
`version` are the database, `applied` the migrations that were ever committed;
`missing[p]` and `pending[p]` what a process has read and acts on later.

| Code | Actions |
|---|---|
| a process is started; `CREATE TABLE IF NOT EXISTS` ... | `Start`; `CreateTables` |
| `_migrate_schema` | `ReadColumns`, `AddColumn`, `DuplicateColumn`, `ColumnsDone` |
| `apply_migrations` | `ReadVersion`, `Migrate`, `MigrateRaises`, `Opened` |
| `_resolve_enabled_intents`, `register_intents` | `ProbeAtStart`, `Register` |
| `skill_guard_compat`, `compat probe`, `compat restore` | `ProbeAgain`, `StoreProbeAgain`, `ProbedAgain`, `StartRestore`, `Restore` |
| a failed start, a crash, the end of a command | `Fail`, `Stop` |

`MIGRATIONS` is `Head` migrations; the shipped list has one, which does nothing. The
migrations in `Repeatable` may be applied a second time, the others raise then and are
rolled back. `HERMES_VERSION` belongs to the environment of each process: `release[p]`
is one of `Releases` or `Unknown`, chosen freely at every start, so that two processes
that run at the same time may differ and the value may go up, down and away. The matrix
`compat.yaml` is the set `Matrix` with `MinVersion`; every entry names a release, so that
with a known release an intent is either covered or a candidate for retirement. A row of
`modules` has the status and the release that its `probe_result` names.

## 3. What TLC checks

| Run | Instance | Shows |
|---|---|---|
| `store_races` | 1 candidate, 2 attempts, 2 clients; all interleavings | `TypeOK`, `RowMatchesLog`, `LogIsCausal`, `ApprovedBeforePromoted`, `AttemptsFollowApproval`, `PromotionIsAtomic` |
| `store_serial` | 2 candidates, 2 attempts, 1 client | `TrailIsAPath`, `OneSuccessPerCandidate`, `ImplementsLifecycle` |
| `store_race_lifecycle` | 1 candidate, 1 attempt, 2 clients | violation of `LifecycleSteps` |
| `event_rotation` | 4 events, 2 processes, `max_rows` 2, rotation at every 2nd write | `TypeOK`, `AuditHasEvent`, `OldestFirst`, `KeepsRecent` |
| `event_trims` | the same | violation of `RotationTrims` |
| `promotion_flow` | 2 candidates, 2 attempts, a reviewer, a hook, a scanner, 3 relation types of which 2 are gated | `PromotedHasAttempt`, `NeverPromotesUnpromotable`, `ScansPromoteOnlyClear` |
| `auto_promote_scan` | 2 candidates, 2 attempts, a reviewer, a scanner, fair scans, 2 relation types | `UnblockedLeaves` |
| `trace_cache` | 3 calls, room for 1 decision | `TypeOK`, `BoundedByPuts`, `FailedPutHoldsNothing`, `ImplementsCorrelation` |
| `hook_flow` | 2 calls, 1 worker, a cache for 1 decision; every mode, `dry_run`, `fail_open` | `TypeOK`, `FailClosed`, `RoutedIsQueued`, `DryRunWins`, `AuditedOnce`, `PreHookAnswers` |
| `policy` | 30 environments, 37 config files, 10 rule files, 6 calls, in all combinations | `GarbageChangesNothing`, `EnvironmentWins`, `NothingBlocksUnasked`, `RulesAgree`, `StricterNeverWeaker`, `EventsAreClean`, `SecretContentNeedsFailure` |
| `bad_rules` | the same | violation of `BrokenRulesStopStart` |
| `startup` | a plugin and a terminal, 2 columns, 2 migrations of which the second is repeatable, 2 releases, 1 failure; every old database, allow-list and `HERMES_VERSION` of each process | `TypeOK`, `VersionIsApplied`, `OpenedIsMigrated`, `RetiredByNewerRelease`, `MigratesInOrder`, `EverybodyStarts` |

`RulesAgree` compares the engine with a meaning of rule files that has no order, no
merging and no short cuts (`InForce`, `Meaning`): a set of rules, among them every
rule a user has added, and three-valued conditions; `EventsAreClean` compares the
redactor with the places of a payload that hold a secret (`SecretPlaces`);
`GarbageChangesNothing` compares what was loaded with what the same files give
without their unsound values. `NeverPromotesUnpromotable` is about the flag
`promotable`: only the pre hook derives it from the content, while candidates of the
post hook, the tool and the CLI have it set whatever they contain. `ImplementsLifecycle` and `ImplementsCorrelation` are
refinements of the abstract specifications.

**Bounds.** A candidate's trail is finite without a bound, since every status
change uses up a read that was made earlier and the lifecycle has no cycle in one
client's hands; with two clients the trail of one candidate reaches the stale
commits that matter (`rejected` to `approved`, `archived` to `dangling`). Two
attempts are the least with which one candidate has two pending ones. A client
holds one operation, so two clients are the least for a race; operations on
different candidates touch different rows, which is why the racing run has one
candidate. Four events and `max_rows` 2 leave room for an overflow of two and for
an event in flight in each process; the ids are finite, and an id is used again
after rotation has deleted it, as it is when a pre and a post hook record the
same event. `SizeBatch` stands for the 1000 rows of the size limit. Two calls on one
worker and one cache entry are the least with which a call queues behind a stuck
one, times out there, and loses its decision to the other call. Three threads are the least with
which two trim the cache while a third iterates over it, and room for one entry
makes every second put trim. `MaxRelations` 1 allows a relation to come and go on
either side of a candidate at any moment; more rows change no gate. In `policy`
each setting takes each kind of value, sound, unsound or of the wrong type, in each
source, around a set-up that blocks; the rule files are one for each thing that
loading or evaluating does to a rule (absent, unparseable, unreadable, replaced,
replaced twice, replaced and disabled, switched off, added, added twice, raising). The list
limit of the redactor is 2 instead of 20, a preview has 2 characters, a promotable
content at most 3, and a content is too short below 2 instead of 20: both sides of each
are among the calls. Two columns and
two migrations leave something to do after each interleaving or failure in the
middle. Two releases, one on each side of `MinVersion`, and none at all are what a
comparison can tell apart; `Repeatable` leaves the first migration out, so that the
path on which `up()` raises is taken. `MaxFailures` bounds crashes and failed starts, since `EverybodyStarts`
cannot hold for a process that crashes for ever; the starts that fail on a
duplicate column are not counted, they are what the property is about.

**Deadlock** is checked where the system goes on for ever: `event_rotation`,
`event_trims`, `promotion_flow`, `startup`, `policy`, `bad_rules`. The candidate store
runs and `auto_promote_scan` have `CHECK_DEADLOCK FALSE`: once every candidate is
archived and every attempt used, nothing is left to do. So have `hook_flow` and
`trace_cache`: each call is made once.

**Symmetry** is used in runs of safety properties only, and over clients, processes,
events, calls, attempts and gated relation types, never over candidates whose order a
scan observes.

**Fairness.** `HookFlow!Spec` has weak fairness of `PreHook(c)`: the thread that
runs the hook goes on, and `future.result` comes back after `timeout_ms`, which is
what its timeout means. Nothing is assumed of the workers, of the post hook, or of
the database, whose calls end, in success or not, after three seconds.
`Startup!Spec` has weak fairness of `StartStep(p)`: a process that starts goes on,
and one that failed or ended is started again, as Hermes and a user do.
`ScanSpec` has weak fairness of each scanner's next
step, which says that a call of `scan` that has started goes on, and that the tool
or the command is called again when it has ended. The first is what a synchronous
Python call does; the second is an assumption on whoever schedules scans, since
the repository has no scheduler. `ScanSpec` leaves out what would make progress
impossible for other reasons: failing transactions, gates that never open.

### What the runs found

1. `store_race_lifecycle`: two overlapping `transition_candidate` calls validate
   the same status and the later write overwrites the earlier (`rejected` to
   `approved`, `archived` to `dangling`). The UPDATE does not repeat the status
   it was validated against. What survives the race is stated and proved:
   `LogIsCausal`, `ApprovedBeforePromoted`, `PromotionIsAtomic`.
2. `event_trims`: rotation deletes expired and overflowing events in one
   transaction; one audited event among them fails the foreign key and rolls all
   of it back, at every later rotation too. `AuditHasEvent` is the other side of
   the coin: an audit row never loses its event.
3. `bad_rules`: in block mode a rule file that does not parse makes
   `RuleLoader.load` raise, "Fail closed: refuse to start" (`rules/loader.py:165`);
   `register_intents` catches it with every other exception and goes on, so that
   the plugin runs without its pre hook and every call passes.

What the models show besides, without a run of its own, because no property that
the program promises elsewhere depends on it:

- The auto-promoter transitions the candidate itself; its attempt stays pending,
  although `docs/data-model.md:42-45` makes the success of an attempt the cause of
  the promotion (`CurrentPromoted`).
- `scan` lets the `ValueError` of one candidate that is approved but not promotable
  end the whole scan, and older candidates are never reached (`ScanRaises`,
  `auto_promoter.py:72`). `UnblockedLeaves` names it as an exception and shows that
  nothing else but a gate holds an approved candidate back.
- A relation that is added between the gates and the promotion is not seen.
  `ScansPromoteOnlyClear` says what holds: at some moment since its approval the
  candidate was free of such relations.
- In audit mode with `dry_run=false` the severity of a rule is taken as it is, and a
  rule of severity `block` blocks (`policy.py:124`, against
  `docs/runtime-safety.md:21-30`). The bundled rules include none.
- The bundled info rule `lifecycle.dry_run_downgrade` fires under `dry_run`, and the
  policy turns every severity into `warn` there, so that each creation is a `warn`;
  `rules.schema.json:67` says that info rules never change the decision from allow.
- A pattern that does not compile and a message that `format_map` refuses both pass
  the schema and make every evaluation that reaches them raise; `fail_open` then
  lets the calls pass. A rule file that cannot be read at all (a directory, not
  UTF-8) raises in every mode; the table of `docs/rule-engine.md:130-134`, by which a
  bad file is fatal only in block mode, has no row for it.
- `rules.schema.json:34` and `docs/rule-engine.md:49` want an id to be unique in the
  merged set. Nothing looks at two ids together: a user file that names a new id twice
  is accepted, by `rules validate` too, and both rules are in force, while of a bundled
  id given twice the last one is (`loader.py:175-184`). `InForce` says so.
- `disabled_rules` does not reach rules that only the user's file has, and
  `ignore_case`, which the documentation names, does not exist.
- In the environment any word that does not say true turns a Boolean off, `dry_run`
  included; `capture_raw_payloads: "false"` in the file is a non-empty text and turns
  capture on. And `timeout_ms: .inf` in the file raises `OverflowError`, which `_safe_int`
  (`config.py:105-109`) does not catch: `load_config` and `plugin.register` end with it,
  and Hermes runs without the plugin (`StartFails`). `GarbageChangesNothing` makes these
  three exceptions, and no other. An empty `SKILL_GUARD_ENABLED_INTENTS` leaves
  the file's list, where `docs/configuration.md:137` says that it enables all.
- The comment of `apply_migrations` says that `BEGIN IMMEDIATE` prevents two processes
  from racing to apply the same migration; the pending list is made before it, so
  that both apply it, and with two or more migrations `schema_version` may go back
  for a while. That never claims too much (`VersionIsApplied`) nor leaves anything
  out (`OpenedIsMigrated`). Nothing asks a migration to be repeatable: a start that
  repeats another one fails (`MigrateRaises`). If a migration that can be repeated, like
  the shipped one, comes before one that cannot, such a race is fatal: with
  `Repeatable = {1}` in `Startup.cfg` TLC finds `EverybodyStarts` violated, as a late
  first migration writes `schema_version` back to 1 and the second raises at every start
  from then on. With one migration that does nothing, the shipped list is not exposed.
- `docs/hermes-protocol.md:77-86` says that an intent whose row is marked retired is
  skipped at registration. A terminal that exports `HERMES_VERSION` while the plugin's
  process lacks it, or has an older one, marks with `compat probe` an intent that the
  plugin has registered, or registers later. `RetiredByNewerRelease` says what holds.
- Redaction covers the payloads of events (`docs/runtime-safety.md:62-69`). The rows of
  candidates are not redacted (`preflight.py:232-249`, `capture.py:118-131`), though
  `README.md:35` and `:166` of the repository and `docs/faq.md:135-144` speak of strict
  redaction without exception. Name, description and target path are stored as they come. When
  the pre hook cannot store a candidate and `fail_open` lets the call run, the post hook
  stores its raw content and marks it promotable, secret or not:
  `SecretContentNeedsFailure` says that this is the only way. In events the keys of maps
  stay (`redaction.py:82-85`), and so does what is left of a secret in a preview that was
  cut in the middle of it, with `capture_raw_payloads` (`capture.py:54-57`).
- `docs/faq.md` says that `compat restore` re-enables a retired intent: it changes the
  row, but `plugin.register` decides from its own probe, so that the next start
  leaves the intent out and marks it retired again.
- The unlocked cache may refuse a put or a pop with `RuntimeError` or `KeyError`. The
  decision is then lost, never mixed up: that is `ImplementsCorrelation`.

## 4. What is proved

For every value of the constants that satisfies the assumptions the modules name:
any number of candidates, attempts, clients and scanners (`NoCandidateAssumption`; for
`PromotionFlow` also that candidates are numbered and that no client is a scanner and
something else); any events, processes and limits (`ConstantsAssumption`); any set of
calls, any number of workers and any cache size; any processes, columns, migrations,
repeatable or not, matrix and releases; any environments, configuration files, rule files and bundled rules, with
conditions of any depth, and calls with payloads of any depth.

Every invariant and every action property of the runs that are to pass is the
statement of a theorem, and so are both refinements; the lifecycle ones for one
client, which is what their run has.

| Theorem | Property |
|---|---|
| `CandidateStoreProofs!TypeCorrect` | `TypeOK` |
| `CandidateStoreProofs!CausalTrail` | `LogIsCausal` |
| `CandidateStoreProofs!RowsMatchTrails` | `RowMatchesLog` |
| `CandidateStoreProofs!OnlyApprovedAttempts` | `AttemptsFollowApproval` |
| `CandidateStoreProofs!NoPromotionWithoutApproval` | `ApprovedBeforePromoted` |
| `CandidateStoreProofs!AtomicPromotion` | `PromotionIsAtomic` |
| `CandidateStoreProofs!SerialRefinement` | `ImplementsLifecycle`, with one client at most |
| `CandidateStoreProofs!OneAttemptSucceeds` | `OneSuccessPerCandidate`, with one client at most |
| `CandidateStoreProofs!OnePath` | `TrailIsAPath`, with one client at most |
| `EventStoreProofs!StoreTypeCorrect` | `TypeOK` |
| `EventStoreProofs!AuditKeepsEvent` | `AuditHasEvent` |
| `EventStoreProofs!DeletesOldestFirst` | `OldestFirst` |
| `EventStoreProofs!KeepsRecentRows` | `KeepsRecent` |
| `PromotionFlowProofs!FlowTypeCorrect` | `FlowTypeOK` |
| `PromotionFlowProofs!FlowKeepsStore` | the invariant of `CandidateStore`, in `PromotionFlow` |
| `PromotionFlowProofs!PromotionsHaveAttempts` | `PromotedHasAttempt` |
| `PromotionFlowProofs!UnpromotableStays` | `NeverPromotesUnpromotable` |
| `PromotionFlowProofs!ScansRespectGates` | `ScansPromoteOnlyClear` |
| `TraceCacheProofs!CacheTypeCorrect` | `TypeOK` |
| `TraceCacheProofs!FailedPutsHoldNothing` | `FailedPutHoldsNothing` |
| `TraceCacheProofs!CacheBounded` | `BoundedByPuts` |
| `TraceCacheProofs!CacheCorrelates` | `ImplementsCorrelation` |
| `HookFlowProofs!HookTypeCorrect` | `TypeOK` |
| `HookFlowProofs!FailsClosed` | `FailClosed` |
| `HookFlowProofs!RoutedCallIsQueued` | `RoutedIsQueued` |
| `HookFlowProofs!DryRunAlwaysWins` | `DryRunWins` |
| `HookFlowProofs!DecisionAuditedOnce` | `AuditedOnce` |
| `StartupProofs!StartupTypeCorrect` | `TypeOK` |
| `StartupProofs!VersionNeverAhead` | `VersionIsApplied` |
| `StartupProofs!OpenedDatabase` | `OpenedIsMigrated` |
| `StartupProofs!OrderedMigrations` | `MigratesInOrder` |
| `StartupProofs!RetiredElsewhere` | `RetiredByNewerRelease` |
| `GuardedCallsProofs!GarbageIgnored` | `GarbageChangesNothing` |
| `GuardedCallsProofs!EnvironmentFirst` | `EnvironmentWins` |
| `GuardedCallsProofs!NothingBlocked` | `NothingBlocksUnasked` |
| `GuardedCallsProofs!DecisionsAgree` | `RulesAgree` |
| `GuardedCallsProofs!Stricter` | `StricterNeverWeaker` |
| `GuardedCallsProofs!EventsKeepNoSecret` | `EventsAreClean` |
| `GuardedCallsProofs!SecretContentOnlyOnFailure` | `SecretContentNeedsFailure` |

**CandidateStore.** `TypeOK` is not inductive: `CompleteSucceeded` writes the candidate of an
attempt, so that an open attempt must have one. `TypeInv` adds that.
None of the safety properties is inductive either, because a commit
relies on a read made any number of steps before. `IInv` says what remains of a
read when the status has moved on: the trail only grows, so *the candidate once
had the status that was read* stays true (`ReadsAreReal`), and the last row of
the trail is the status (`StatusEndsLog`). Every commit appends one row whose
`from` is a read status (`LogIsCausal`); an attempt is opened for a candidate
whose trail has an approval (`AttemptsFollowApproval`). The proofs show that each
kind of step keeps each part (`MoveKeepsTrail`, `StepKeepsRead`,
`StepKeepsAttempt`), and that no allowed transition enters `promoted` but from
`approved`, which turns causality into `ApprovedBeforePromoted`.

`SerialRefinement` assumes that there is one client at most. Then nothing commits
between a read and its write: what was read is still true (`Fresh`), and each
commit is one operation of `CandidateLifecycle` while every other step changes
nothing of it. The assumption is needed: `store_race_lifecycle` refutes the
refinement for two clients. `OneAttemptSucceeds` is then proved of the abstract
specification: a candidate with a succeeded attempt is in a status that never leads
to `approved` again (`SucceededIsClosed`). `OnePath` uses the same freshness: a row
that starts from the present status continues the path (`MoveKeepsPath`).

**EventStore.** `AuditHasEvent` is inductive with the types: what rotation deletes is
a prefix that holds no audited event (`Deleted`), and an audit row is written only
of an event that is there. `OldestFirst` and `KeepsRecent` follow from what is left
being a suffix (`SequenceLemmas!SuffixIs`).

**PromotionFlow.** Every step is a step of `CandidateStore` or leaves it alone
(`FlowKeepsStore`), so that its `IInv` carries over. `PromotedHasAttempt` needs more:
that whoever is about to write a promotion, a scanner in its second transaction or
a hook that finalises, knows of an attempt (`Openers`), which for a scanner relates
its stage to its open operation and to its list (`ScanHolds`). Because an attempt is
only opened for a promotable candidate, `NeverPromotesUnpromotable` follows.

**TraceCache.** `CacheInv` says that a call has no entry before its put inserts it nor
after its put has raised, and that it has its answer when it is over. Each of the
steps is then a put, a drop, a hand-over, a miss or a failure of `Correlation`, or a
stutter. The bound counts entries of puts that have not come back: a `CheckSize` that
ends a put sees the size, and every other step that adds an entry adds such a put.
`TypeOK` adds the clock (`ClockInv`): a call has an entry only between its birth and its
end, so that no call has two in `entries` or in `born`, whichever threads meet.

**HookFlow.** The properties of the answers say what an *answer* means and are not inductive:
the answer is given at the end of a hook that has carried its decision through up
to six stages, while other hooks, workers and restarts go on. `HookFlowProofs!IInv`
adds that a hook in one of its stages has answered nothing yet, so that a
decision is never replaced under an answer (`Unanswered`), that the stages that
store have an enforcing decision (`StageKnows`), and that under `dry_run` no worker
has one to return (`DryRunDecides`). Every step of a hook is either a return, a failure or
a move to the next stage, and one lemma for each (`ReturnKeeps`, `FailedKeeps`,
`GotoKeeps`) carries the steps of `PreHook` and of `PostHook`. `AuditsInv` relates the
number of audit rows to the stage: none before the pre hook stores a decision, one
at most when the post hook starts, and one there only if the call was let through
although its candidate could not be stored. `TypeOK` is the sum of three invariants
that are inductive by themselves: `PoolInv` (no more calls are evaluated than there
are workers), `CacheInv` (a call is cached once and within the size, which rests on
what `Bounded` drops, `BoundedIs`), and `RowsTyped`.

**Startup.** `OpenedIsMigrated` rests on reads that other processes overtake. `SchemaInv` says
what of them stays true: the columns that a process does not list as missing
exist, and the migrations below its next one are applied (`ColumnsKnown`,
`MigrationsKnown`). Both survive the steps of others because columns and
migrations are never taken away (`OthersKnow`). For the gating, `GatingInv` says two
things that no start elsewhere can change: a row that is called retired names a release
that covers the intent (`RowCovers`), and a plugin has registered nothing that its own
release covers (`RegistersUncovered`). Together they put the release of the row above
the plugin's.

**GuardedCalls.** The invariant is small: the running plugin works with what `Start`
loaded, one that did not start had a file that makes the configuration raise
(`LoadedOnce`), and the last call became what these rules and this
configuration make of it (`DecidedByLoaded`). The rest is about the operators. For
the configuration, one lemma per way to read a setting says that an unsound value is
read like none (`SafeIntIgnores`, `EnvIntIgnored`, `FileGarbage`, `EnvGarbage`) and one
that a sound one decides alone (`BoolDecides` to `EnvironmentDecides`).

For the rules, `MergedIs` says that the loader puts together, in some order, exactly
the rules in force; it rests on what a comprehension returns (`PickedIs`) and on the
sort losing and inventing nothing (`InsertedIs`, `SortedIs`). `EvalIs` says that the
evaluation with its short cuts agrees with the three-valued meaning wherever it
does not raise, which for `and` and `or` is a matter of the first child that settles
them (`NodeAgrees`). `RulesAgree` then follows, since the highest severity does not
see the order (`FiredIs`). `StricterNeverWeaker` needs that the decision is monotone
in severity and mode (`Monotone`), and that a rule less fires no more.

For `SecretContentNeedsFailure` it is enough to look at who writes a candidate and
when. For redaction, `RedactedIs` shows of every value, the whole payload last, that
nothing of it is kept raw at a place that `SecretPlaces` names, unless the value is
itself a secret text, which is for the value around it to hide. A value below a
sensitive key is replaced as a whole, so that none of its leaves is kept, and the
places of different parts never meet (`ConsIs`, `UnderIs`, `BelowIs`). The payload of
the post hook, with its three more values, is again one (`PostPayloadIs`).

Conditions and payloads are proved about by induction over positions and the rules of
a file by induction over its length. The library's rules for this take an operator as a
parameter; `StrongInduction` and `Recursion` in `SequenceLemmas` state them of a set
and of a function instead, which the provers can use.

**Only model-checked.** `UnblockedLeaves`, `PreHookAnswers` and `EverybodyStarts`:
liveness under fairness, and ENABLED with it, are out of the prover's reach. The
refinement and the path properties of the candidate store are checked and proved
for one client; for two, the runs that expect a violation refute them.

## 5. Not modelled

- Reporting and observability: read-only queries and exporters without a state the
  rest reads. Argument parsing, printing, the adapter's calls into Hermes, the bundled
  data and skills.
- The counters, which only count, and `_write_count` across processes: that it
  starts at 0 in each process is in `EventStore`, how much a long series of short
  processes may leave unrotated is not.
- Regular expressions, hashes, lengths of summaries, paths and the words of messages.
  Of the schema validator only the shape of what passes; of versions only
  whether a release covers an intent.
- `timeout_ms` and the ages are not numbers: a timeout, an expiry or an age gate may
  come at any moment.
- A second start of `GuardedCalls` with other files: a plugin reads them once. Its
  calls come one by one and its store does not fail; interleavings, timeouts and
  failures are in `HookFlow`.
- SQLite itself is taken at its word: transactions are serialisable and atomic, WAL
  readers see a committed state, foreign keys are checked at the end of a statement.

## 6. Plan

What the project would gain from next, in this order.

1. `HookFlow` composed with `EventStore`: rotation between the rows of one decision
   is in the latter and the decision in the former; together they would say what a
   report may read of a call.
2. Restart of `GuardedCalls` with edited files, to relate the decisions before and
   after an edit.
3. That the rules a plugin has loaded are sorted by priority and id, and what `Fired`
   then says of the order of the reasons a decision gives.
4. Safety lemmas towards the liveness properties: that a hook in a stage has a stage
   to go to, so that what TLC shows of `PreHookAnswers` rests on fairness alone.
