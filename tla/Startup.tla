------------------------------ MODULE Startup -------------------------------
(***************************************************************************)
(* How processes start on one state database: StateStore.initialize        *)
(* creates the tables, adds the columns that an old database lacks         *)
(* (_migrate_schema) and applies the pending migrations                    *)
(* (storage/migrations.py); the plugin then probes which of its intents    *)
(* Hermes covers, stores what it finds in the modules table, and registers *)
(* the rest (plugin.py).  Agents and operators probe again and restore     *)
(* modules (intents/compatibility.py, the compat commands of the CLI).     *)
(*                                                                         *)
(* The plugin and the CLI are processes of their own.  A step is one       *)
(* statement that commits, or one transaction.                             *)
(***************************************************************************)
EXTENDS Naturals

CONSTANTS Plugins,        \* Hermes processes that load the plugin
          Clis,           \* terminals in which CLI commands are run
          Columns,        \* the columns that _migrate_schema adds
          Head,           \* the last version in MIGRATIONS
          Repeatable,     \* the migrations whose up() may run a second time
          Intents,        \* the intents of default_intents
          Compatibility,  \* the one that has the tool skill_guard_compat
          Matrix,         \* the intents that compat.yaml mentions
          MinVersion,     \* hermes_min_version of each of them
          Releases,       \* the values HERMES_VERSION may have
          Unknown,        \* HERMES_VERSION is not set
          MaxFailures     \* bound: crashes and failed starts

ASSUME ProcessAssumption == Plugins \cap Clis = {}
ASSUME HeadAssumption == Head \in Nat /\ Repeatable \subseteq 1 .. Head
ASSUME IntentAssumption == Matrix \subseteq Intents /\ Compatibility \in Intents
ASSUME ReleaseAssumption ==
  /\ Releases \subseteq Nat /\ Unknown \notin Releases
  /\ MinVersion \in [Matrix -> Nat]
ASSUME FailureAssumption == MaxFailures \in Nat

VARIABLES
  allow,       \* config.enabled_intents
  tables,      \* whether the candidates table exists
  columns,     \* which of Columns it has
  version,     \* schema_version, 0 if there is no row
  applied,     \* the migrations whose up() was committed
  modules,     \* the row of an intent in the modules table: its status, and
               \* the release that its probe_result names
  stage,       \* where a process is
  release,     \* HERMES_VERSION in the environment of the process
  missing,     \* the columns it has found missing and not added yet
  pending,     \* the next migration it is going to apply
  toProbe,     \* the intents it has not stored a probe result for yet
  restoring,   \* the intent it restores
  registered,  \* the intents a plugin process has registered
  failures

database == <<tables, columns, version, applied>>
local == <<release, missing, pending, toProbe, restoring>>
vars == <<allow, database, modules, stage, local, registered, failures>>

Processes == Plugins \cup Clis
Statuses == {"enabled", "candidate_for_retirement", "retired_by_official"}
Rows == [status : Statuses \cup {"absent"}, release : Releases \cup {Unknown}]
Retirable == {"candidate_for_retirement", "retired_by_official"}

Opening == {"tables", "read columns", "columns", "read version", "migrate"}
Up == {"ready", "probe again", "restore"}
Stages == {"down", "probe"} \cup Opening \cup Up

TypeOK ==
  /\ allow \in SUBSET Intents
  /\ tables \in BOOLEAN /\ columns \in SUBSET Columns
  /\ version \in 0 .. Head /\ applied \in SUBSET (1 .. Head)
  /\ modules \in [Intents -> Rows]
  /\ stage \in [Processes -> Stages]
  /\ release \in [Processes -> Releases \cup {Unknown}]
  /\ missing \in [Processes -> SUBSET Columns]
  /\ pending \in [Processes -> 1 .. Head + 1]
  /\ toProbe \in [Processes -> SUBSET Matrix]
  /\ restoring \in [Processes -> Intents]
  /\ registered \in [Processes -> SUBSET Intents]
  /\ failures \in 0 .. MaxFailures

\* No file yet, or one that an older release of the plugin has left.
Init ==
  /\ allow \in SUBSET Intents
  /\ tables \in BOOLEAN
  /\ columns \in IF tables THEN SUBSET Columns ELSE {{}}
  /\ version = 0 /\ applied = {}
  /\ modules = [i \in Intents |-> [status |-> "absent", release |-> Unknown]]
  /\ stage = [p \in Processes |-> "down"]
  /\ release = [p \in Processes |-> Unknown]
  /\ missing = [p \in Processes |-> {}]
  /\ pending = [p \in Processes |-> 1]
  /\ toProbe = [p \in Processes |-> {}]
  /\ restoring = [p \in Processes |-> Compatibility]
  /\ registered = [p \in Processes |-> {}]
  /\ failures = 0

Goto(p, s) == stage' = [stage EXCEPT ![p] = s]

----------------------------------------------------------------------------
(* StateStore.initialize.                                                  *)

\* Each process is started in an environment of its own: HERMES_VERSION may be
\* set for one and not for another, and change, in any direction, between starts.
Start(p) ==
  /\ stage[p] = "down"
  /\ \E r \in Releases \cup {Unknown} : release' = [release EXCEPT ![p] = r]
  /\ Goto(p, "tables")
  /\ UNCHANGED <<allow, database, modules, missing, pending, toProbe, restoring,
                 registered, failures>>

\* CREATE TABLE IF NOT EXISTS, with all the columns.
CreateTables(p) ==
  /\ stage[p] = "tables"
  /\ tables' = TRUE
  /\ columns' = IF tables THEN columns ELSE Columns
  /\ Goto(p, "read columns")
  /\ UNCHANGED <<allow, version, applied, modules, local, registered, failures>>

\* Mutation of Missing: the columns of the table are not looked at.
MissingUnchecked == Columns

Missing == Columns \ columns

ReadColumns(p) ==
  /\ stage[p] = "read columns"
  /\ missing' = [missing EXCEPT ![p] = Missing]
  /\ Goto(p, "columns")
  /\ UNCHANGED <<allow, database, modules, release, pending, toProbe, restoring,
                 registered, failures>>

AddColumn(p) ==
  /\ stage[p] = "columns"
  /\ \E c \in missing[p] \ columns :
       /\ columns' = columns \cup {c}
       /\ missing' = [missing EXCEPT ![p] = @ \ {c}]
  /\ UNCHANGED <<allow, tables, version, applied, modules, stage, release, pending,
                 toProbe, restoring, registered, failures>>

\* Mutation of DuplicateColumn: the error ends _migrate_schema only.
DuplicateColumnIgnored(p) ==
  /\ stage[p] = "columns" /\ missing[p] \cap columns # {}
  /\ Goto(p, "read version")
  /\ UNCHANGED <<allow, database, modules, local, registered, failures>>

\* ALTER TABLE fails on a column that another process has added meanwhile, and
\* the start of this process with it.
DuplicateColumn(p) ==
  /\ stage[p] = "columns" /\ missing[p] \cap columns # {}
  /\ Goto(p, "down")
  /\ UNCHANGED <<allow, database, modules, local, registered, failures>>

ColumnsDone(p) ==
  /\ stage[p] = "columns" /\ missing[p] = {}
  /\ Goto(p, "read version")
  /\ UNCHANGED <<allow, database, modules, local, registered, failures>>

\* Mutation of PendingAfter: one too many is taken for applied.
PendingAfterNext(v) == v + 2

\* The first migration with a version above v.
PendingAfter(v) == v + 1

ReadVersion(p) ==
  /\ stage[p] = "read version"
  /\ pending' = [pending EXCEPT ![p] = PendingAfter(version)]
  /\ Goto(p, "migrate")
  /\ UNCHANGED <<allow, database, modules, release, missing, toProbe, restoring,
                 registered, failures>>

\* Mutation of Recorded: the head is recorded with the first migration.
RecordedHead(v) == Head

\* _record_version
Recorded(v) == v

UpRaises(p) == pending[p] \in applied \ Repeatable

\* BEGIN IMMEDIATE; up(); _record_version; COMMIT.  The list of pending
\* migrations was made before the first BEGIN: another process may have applied
\* them since.
Migrate(p) ==
  /\ stage[p] = "migrate" /\ pending[p] <= Head /\ ~ UpRaises(p)
  /\ applied' = applied \cup {pending[p]}
  /\ version' = Recorded(pending[p])
  /\ pending' = [pending EXCEPT ![p] = @ + 1]
  /\ UNCHANGED <<allow, tables, columns, modules, stage, release, missing, toProbe,
                 restoring, registered, failures>>

\* up() raises on what is there already: the transaction is rolled back, and the
\* start of this process fails.
MigrateRaises(p) ==
  /\ stage[p] = "migrate" /\ pending[p] <= Head /\ UpRaises(p)
  /\ Goto(p, "down")
  /\ UNCHANGED <<allow, database, modules, local, registered, failures>>

Opened(p) ==
  /\ stage[p] = "migrate" /\ pending[p] > Head
  /\ IF p \in Plugins
     THEN Goto(p, "probe") /\ toProbe' = [toProbe EXCEPT ![p] = Matrix]
     ELSE Goto(p, "ready") /\ UNCHANGED toProbe
  /\ UNCHANGED <<allow, database, modules, release, missing, pending, restoring,
                 registered, failures>>

----------------------------------------------------------------------------
(* plugin.register.                                                        *)

\* CapabilityProbe.check_coverage: nothing is covered by an unknown release.
IsCovered(p, i) ==
  /\ release[p] # Unknown
  /\ i \in Matrix /\ MinVersion[i] <= release[p]

\* A probe result of p is stored for one intent, with the release in its reason, or
\* lost to SQLITE_BUSY.
StoreProbe(p, other) ==
  \E i \in toProbe[p] :
    /\ toProbe' = [toProbe EXCEPT ![p] = @ \ {i}]
    /\ \/ modules' = [modules EXCEPT ![i] =
                        [status |-> IF IsCovered(p, i) THEN "retired_by_official" ELSE other,
                         release |-> release[p]]]
       \/ UNCHANGED modules

\* compat.yaml gives a release for each intent, so that with a known release the
\* intents it does not cover yet are candidates for retirement.
ProbeAtStart(p) ==
  /\ stage[p] = "probe"
  /\ StoreProbe(p, IF release[p] = Unknown THEN "enabled" ELSE "candidate_for_retirement")
  /\ UNCHANGED <<allow, database, stage, release, missing, pending, restoring,
                 registered, failures>>

\* Mutation of Enabled: an allow-list is taken as it is.
EnabledAllowed(p) ==
  IF allow = {} THEN {i \in Intents : ~ IsCovered(p, i)} ELSE allow

\* _resolve_enabled_intents: an empty allow-list stands for all intents.
Enabled(p) ==
  {i \in IF allow = {} THEN Intents ELSE allow : ~ IsCovered(p, i)}

\* register_intents goes on with the next intent if one raises.
Register(p) ==
  /\ stage[p] = "probe" /\ toProbe[p] = {}
  /\ \E failed \in SUBSET Enabled(p) :
       registered' = [registered EXCEPT ![p] = Enabled(p) \ failed]
  /\ Goto(p, "ready")
  /\ UNCHANGED <<allow, database, modules, local, failures>>

----------------------------------------------------------------------------
(* The tool skill_guard_compat, and the compat commands of the CLI.        *)

Commands(p) == stage[p] = "ready" /\ (p \in Clis \/ Compatibility \in registered[p])

ProbeAgain(p) ==
  /\ Commands(p)
  /\ toProbe' = [toProbe EXCEPT ![p] = Matrix]
  /\ Goto(p, "probe again")
  /\ UNCHANGED <<allow, database, modules, release, missing, pending, restoring,
                 registered, failures>>

StoreProbeAgain(p) ==
  /\ stage[p] = "probe again"
  /\ StoreProbe(p, "candidate_for_retirement")
  /\ UNCHANGED <<allow, database, stage, release, missing, pending, restoring,
                 registered, failures>>

ProbedAgain(p) ==
  /\ stage[p] = "probe again" /\ toProbe[p] = {}
  /\ Goto(p, "ready")
  /\ UNCHANGED <<allow, database, modules, local, registered, failures>>

StartRestore(p, i) ==
  /\ Commands(p)
  /\ modules[i].status \in Retirable
  /\ restoring' = [restoring EXCEPT ![p] = i]
  /\ Goto(p, "restore")
  /\ UNCHANGED <<allow, database, modules, release, missing, pending, toProbe,
                 registered, failures>>

\* update_module_status, or its loss; it does not look at the status again, and
\* its reason names no release.
Restore(p) ==
  /\ stage[p] = "restore"
  /\ \/ modules' = [modules EXCEPT ![restoring[p]] =
                        [status |-> "enabled", release |-> Unknown]]
     \/ UNCHANGED modules
  /\ Goto(p, "ready")
  /\ UNCHANGED <<allow, database, local, registered, failures>>

----------------------------------------------------------------------------
Down(p) ==
  /\ Goto(p, "down")
  /\ registered' = [registered EXCEPT ![p] = {}]

\* The command is done, or Hermes is stopped.
Stop(p) ==
  /\ stage[p] = "ready"
  /\ Down(p)
  /\ UNCHANGED <<allow, database, modules, local, failures>>

\* A crash, a busy database, an up() that raises and is rolled back.
Fail(p) ==
  /\ stage[p] # "down" /\ failures < MaxFailures
  /\ Down(p)
  /\ failures' = failures + 1
  /\ UNCHANGED <<allow, database, modules, local>>

StartStep(p) ==
  \/ Start(p) \/ CreateTables(p) \/ ReadColumns(p) \/ AddColumn(p) \/ DuplicateColumn(p)
  \/ ColumnsDone(p) \/ ReadVersion(p) \/ Migrate(p) \/ MigrateRaises(p)
  \/ Opened(p) \/ ProbeAtStart(p) \/ Register(p)

Next ==
  \E p \in Processes :
    \/ StartStep(p)
    \/ ProbeAgain(p) \/ StoreProbeAgain(p) \/ ProbedAgain(p)
    \/ \E i \in Intents : StartRestore(p, i)
    \/ Restore(p) \/ Stop(p) \/ Fail(p)

(* A process that is starting goes on, and one that has failed or ended is    *)
(* started again.                                                             *)
Spec == Init /\ [][Next]_vars /\ \A p \in Processes : WF_vars(StartStep(p))

----------------------------------------------------------------------------
\* schema_version never claims a migration that was not committed, although
\* processes write it from lists they made before each other's commits.
VersionIsApplied == 1 .. version \subseteq applied

\* A store whose initialize() has returned has every column and every migration,
\* whatever crashed, failed or raced before, in this process or in another.
OpenedIsMigrated ==
  \A p \in Processes :
    stage[p] \in {"probe"} \cup Up => columns = Columns /\ applied = 1 .. Head

\* No migration is applied to a database that lacks one before it.
MigratesInOrder ==
  [][\A m \in applied' \ applied : 1 .. (m - 1) \subseteq applied]_vars

\* hermes-protocol.md, Protocol Gating, skips at registration what is marked
\* retired.  Processes share the table and not HERMES_VERSION, so a plugin may
\* have registered what another process calls retired; but only on the word of a
\* process with a newer release than the plugin's own, or if its own is unknown.
RetiredByNewerRelease ==
  \A p \in Plugins, i \in Intents :
    modules[i].status = "retired_by_official" /\ i \in registered[p]
    => release[p] = Unknown \/ release[p] < modules[i].release

\* Racing processes fail each other's starts, but not for ever.
EverybodyStarts == \A p \in Processes : []<>(stage[p] \in Up)
=============================================================================
