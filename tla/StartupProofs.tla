---------------------------- MODULE StartupProofs ---------------------------
(***************************************************************************)
(* Theorems about Startup, for any processes, columns and migrations.      *)
(***************************************************************************)
EXTENDS Startup, TLAPS

Past == {"probe"} \cup Up

StartTypes ==
  /\ allow \subseteq Intents
  /\ columns \subseteq Columns
  /\ version \in 0 .. Head /\ applied \subseteq 1 .. Head
  /\ modules \in [Intents -> Rows]
  /\ stage \in [Processes -> Stages]
  /\ release \in [Processes -> Releases \cup {Unknown}]
  /\ missing \in [Processes -> SUBSET Columns]
  /\ pending \in [Processes -> 1 .. Head + 1]
  /\ registered \in [Processes -> SUBSET Intents]

(* What a process knows of the columns it has not to add, and of the        *)
(* migrations it has not to apply, stays true whatever the others do.       *)
ColumnsKnown(p) ==
  /\ stage[p] = "columns" => Columns \ columns \subseteq missing[p]
  /\ stage[p] \in {"read version", "migrate"} \cup Past => columns = Columns

MigrationsKnown(p) ==
  /\ stage[p] = "migrate" => 1 .. (pending[p] - 1) \subseteq applied
  /\ stage[p] \in Past => 1 .. Head \subseteq applied

SchemaInv ==
  /\ 1 .. version \subseteq applied
  /\ \A p \in Processes : ColumnsKnown(p) /\ MigrationsKnown(p)

(* A row that says retired names a release that covers the intent, and what  *)
(* a process has registered is not covered by its own.                      *)
RowCovers(i) ==
  modules[i].status = "retired_by_official" =>
    /\ i \in Matrix /\ modules[i].release \in Releases
    /\ MinVersion[i] <= modules[i].release

RegistersUncovered(p) ==
  /\ stage[p] \in {"down", "probe"} \cup Opening => registered[p] = {}
  /\ \A i \in registered[p] : ~ IsCovered(p, i)

GatingInv ==
  /\ \A i \in Intents : RowCovers(i)
  /\ \A p \in Processes : RegistersUncovered(p)

----------------------------------------------------------------------------
LEMMA StageNames ==
  /\ "down" \notin Opening \cup Past
  /\ Opening \cap Past = {}
  /\ Opening \cup Past \cup {"down"} = Stages
  BY DEF Past, Opening, Up, Stages

\* A probe result is a status of the table.
LEMMA ProbeTyped ==
  ASSUME StartTypes, NEW p \in Processes, NEW other \in Statuses, StoreProbe(p, other)
  PROVE  modules' \in [Intents -> Rows]
  BY DEF StartTypes, StoreProbe, Statuses, Rows

LEMMA InitStartTypes == Init => StartTypes
  <1> SUFFICES ASSUME Init
               PROVE  StartTypes
    OBVIOUS
  <1>1. Compatibility \in Intents /\ Head \in Nat
    BY IntentAssumption, HeadAssumption
  <1>2. columns \subseteq Columns
    BY DEF Init
  <1>3. version \in 0 .. Head /\ 1 \in 1 .. Head + 1
    BY <1>1 DEF Init
  <1>4. modules \in [Intents -> Rows]
    BY DEF Init, Rows
  <1>5. QED
    BY <1>2, <1>3, <1>4 DEF Init, StartTypes, Stages

LEMMA NextStartTypes == StartTypes /\ [Next]_vars => StartTypes'
  <1> SUFFICES ASSUME StartTypes, [Next]_vars
               PROVE  StartTypes'
    OBVIOUS
  <1> USE HeadAssumption DEF database, local, Goto, StartTypes
  <1>1. CASE UNCHANGED vars
    BY <1>1 DEF vars
  <1>2. ASSUME NEW p \in Processes, Start(p) \/ CreateTables(p) \/ ReadColumns(p)
        PROVE  StartTypes'
    BY <1>2 DEF Start, CreateTables, ReadColumns, Missing, Stages, Opening
  <1>3. ASSUME NEW p \in Processes,
               AddColumn(p) \/ DuplicateColumn(p) \/ ColumnsDone(p) \/ MigrateRaises(p)
        PROVE  StartTypes'
    BY <1>3 DEF AddColumn, DuplicateColumn, ColumnsDone, MigrateRaises, Stages, Opening
  <1>4. ASSUME NEW p \in Processes, ReadVersion(p)
        PROVE  StartTypes'
    <2>1. PendingAfter(version) \in 1 .. Head + 1
      BY DEF PendingAfter
    <2>2. QED
      BY <1>4, <2>1 DEF ReadVersion, Stages, Opening
  <1>5. ASSUME NEW p \in Processes, Migrate(p)
        PROVE  StartTypes'
    <2>1. pending[p] \in 1 .. Head /\ pending[p] + 1 \in 1 .. Head + 1
      BY <1>5 DEF Migrate
    <2>2. applied' \subseteq 1 .. Head
      BY <1>5, <2>1 DEF Migrate
    <2>3. pending[p] \in 0 .. Head
      BY <2>1
    <2>4. version' \in 0 .. Head
      BY <1>5, <2>3, Zenon DEF Migrate, Recorded
    <2>5. pending' \in [Processes -> 1 .. Head + 1]
      BY <1>5, <2>1 DEF Migrate
    <2>6. QED
      BY <1>5, <2>2, <2>4, <2>5 DEF Migrate
  <1>6. ASSUME NEW p \in Processes, Opened(p)
        PROVE  StartTypes'
    BY <1>6 DEF Opened, Stages, Up
  <1>7. ASSUME NEW p \in Processes, ProbeAtStart(p)
        PROVE  StartTypes'
    <2>1. modules' \in [Intents -> Rows]
      BY <1>7, ProbeTyped DEF ProbeAtStart, Statuses
    <2>2. QED
      BY <1>7, <2>1 DEF ProbeAtStart
  <1>8. ASSUME NEW p \in Processes, Register(p)
        PROVE  StartTypes'
    <2>1. Enabled(p) \in SUBSET Intents
      BY DEF Enabled
    <2>2. QED
      BY <1>8, <2>1 DEF Register, Stages, Up
  <1>9. ASSUME NEW p \in Processes, ProbeAgain(p) \/ ProbedAgain(p)
         PROVE  StartTypes'
    BY <1>9 DEF ProbeAgain, ProbedAgain, Stages, Up
  <1>10. ASSUME NEW p \in Processes, StoreProbeAgain(p)
         PROVE  StartTypes'
    <2>1. modules' \in [Intents -> Rows]
      BY <1>10, ProbeTyped DEF StoreProbeAgain, Statuses
    <2>2. QED
      BY <1>10, <2>1 DEF StoreProbeAgain
  <1>11. ASSUME NEW p \in Processes, NEW i \in Intents, StartRestore(p, i)
         PROVE  StartTypes'
    BY <1>11 DEF StartRestore, Stages, Up
  <1>12. ASSUME NEW p \in Processes, Restore(p)
         PROVE  StartTypes'
    <2>1. [status |-> "enabled", release |-> Unknown] \in Rows
      BY DEF Rows, Statuses
    <2>2. modules' \in [Intents -> Rows]
      BY <1>12, <2>1 DEF Restore
    <2>3. QED
      BY <1>12, <2>2 DEF Restore, Stages, Up
  <1>13. ASSUME NEW p \in Processes, Stop(p) \/ Fail(p)
         PROVE  StartTypes'
    BY <1>13 DEF Stop, Fail, Down, Stages
  <1>14. QED
    BY <1>1, <1>2, <1>3, <1>4, <1>5, <1>6, <1>7, <1>8, <1>9, <1>10, <1>11, <1>12,
       <1>13 DEF Next, StartStep

----------------------------------------------------------------------------
(* The schema.                                                              *)

\* Columns and migrations are never taken away: what a process knows survives
\* the steps of the others.
LEMMA OthersKnow ==
  ASSUME StartTypes, StartTypes', NEW p \in Processes,
         ColumnsKnown(p), MigrationsKnown(p),
         stage'[p] = stage[p], missing'[p] = missing[p], pending'[p] = pending[p],
         columns \subseteq columns', applied \subseteq applied'
  PROVE  ColumnsKnown(p)' /\ MigrationsKnown(p)'
  <1>1. ColumnsKnown(p)'
    BY DEF StartTypes, ColumnsKnown
  <1>2. MigrationsKnown(p)'
    BY DEF MigrationsKnown
  <1>3. QED
    BY <1>1, <1>2

\* A step of process p keeps the invariant if it keeps what p knows.
LEMMA SchemaStep ==
  ASSUME StartTypes, StartTypes', SchemaInv, NEW p \in Processes,
         \A q \in Processes \ {p} : /\ stage'[q] = stage[q]
                                    /\ missing'[q] = missing[q]
                                    /\ pending'[q] = pending[q],
         columns \subseteq columns', applied \subseteq applied',
         1 .. version' \subseteq applied',
         ColumnsKnown(p)', MigrationsKnown(p)'
  PROVE  SchemaInv'
  <1>1. ASSUME NEW q \in Processes, q # p
        PROVE  ColumnsKnown(q)' /\ MigrationsKnown(q)'
    BY <1>1, OthersKnow DEF SchemaInv
  <1>2. QED
    BY <1>1 DEF SchemaInv

\* A step to a stage of which nothing new need be known.
LEMMA SchemaGoto ==
  ASSUME StartTypes, StartTypes', SchemaInv, NEW p \in Processes, NEW s \in Stages,
         Goto(p, s), UNCHANGED <<missing, pending, columns, version, applied>>,
         s = "columns" => Columns \ columns \subseteq missing[p],
         s \in {"read version", "migrate"} \cup Past => columns = Columns,
         s = "migrate" => 1 .. (pending[p] - 1) \subseteq applied,
         s \in Past => 1 .. Head \subseteq applied
  PROVE  SchemaInv'
  <1>1. stage'[p] = s /\ \A q \in Processes \ {p} : stage'[q] = stage[q]
    BY DEF Goto, StartTypes
  <1>2. ColumnsKnown(p)' /\ MigrationsKnown(p)'
    BY <1>1 DEF ColumnsKnown, MigrationsKnown
  <1>3. 1 .. version' \subseteq applied'
    BY DEF SchemaInv
  <1>4. QED
    BY <1>1, <1>2, <1>3, SchemaStep

LEMMA InitSchemaInv == Init => SchemaInv
  BY DEF Init, SchemaInv, ColumnsKnown, MigrationsKnown, Past, Up

LEMMA OpeningKeepsSchema ==
  ASSUME StartTypes, StartTypes', SchemaInv, NEW p \in Processes,
         \/ Start(p) \/ CreateTables(p) \/ ReadColumns(p) \/ AddColumn(p)
         \/ DuplicateColumn(p) \/ ColumnsDone(p) \/ ReadVersion(p) \/ Migrate(p)
         \/ MigrateRaises(p) \/ Opened(p)
  PROVE  SchemaInv'
  <1> USE HeadAssumption DEF database
  <1>0. ColumnsKnown(p) /\ MigrationsKnown(p) /\ 1 .. version \subseteq applied
    BY DEF SchemaInv
  <1>1. CASE Start(p)
    <2>1. "tables" \in Stages /\ "tables" \notin Past
      BY DEF Stages, Opening, Past, Up
    <2>2. QED
      BY <1>1, <2>1, SchemaGoto DEF Start
  <1>2. CASE CreateTables(p)
    <2>1. /\ stage'[p] = "read columns"
          /\ \A q \in Processes \ {p} : stage'[q] = stage[q]
      BY <1>2 DEF CreateTables, Goto, StartTypes
    <2>2. columns \subseteq columns'
      BY <1>2 DEF CreateTables, StartTypes
    <2>3. ColumnsKnown(p)' /\ MigrationsKnown(p)'
      BY <2>1 DEF ColumnsKnown, MigrationsKnown, Past, Up
    <2>4. UNCHANGED <<missing, pending, version, applied>>
      BY <1>2 DEF CreateTables, local
    <2>5. QED
      BY <1>0, <2>1, <2>2, <2>3, <2>4, SchemaStep
  <1>3. CASE ReadColumns(p)
    <2>1. /\ stage'[p] = "columns"
          /\ missing'[p] = Columns \ columns
          /\ \A q \in Processes \ {p} : stage'[q] = stage[q] /\ missing'[q] = missing[q]
      BY <1>3 DEF ReadColumns, Missing, Goto, StartTypes
    <2>2. UNCHANGED <<pending, columns, version, applied>>
      BY <1>3 DEF ReadColumns
    <2>3. ColumnsKnown(p)' /\ MigrationsKnown(p)'
      BY <2>1, <2>2 DEF ColumnsKnown, MigrationsKnown, Past, Up
    <2>4. QED
      BY <1>0, <2>1, <2>2, <2>3, SchemaStep
  <1>4. CASE AddColumn(p)
    <2>1. PICK c \in missing[p] \ columns :
            /\ columns' = columns \cup {c}
            /\ missing' = [missing EXCEPT ![p] = @ \ {c}]
      BY <1>4 DEF AddColumn
    <2>2. /\ stage'[p] = "columns"
          /\ missing'[p] = missing[p] \ {c}
          /\ \A q \in Processes \ {p} : missing'[q] = missing[q]
      BY <1>4, <2>1 DEF AddColumn, StartTypes
    <2>3. UNCHANGED <<stage, pending, version, applied>>
      BY <1>4 DEF AddColumn
    <2>4. ColumnsKnown(p)' /\ MigrationsKnown(p)'
      BY <1>0, <2>1, <2>2, <2>3 DEF ColumnsKnown, MigrationsKnown, Past, Up
    <2>5. QED
      BY <1>0, <2>1, <2>2, <2>3, <2>4, SchemaStep
  <1>5. CASE DuplicateColumn(p) \/ MigrateRaises(p)
    <2>1. "down" \in Stages /\ "down" \notin Past
      BY DEF Stages, Past, Up
    <2>2. QED
      BY <1>5, <2>1, SchemaGoto DEF DuplicateColumn, MigrateRaises, local
  <1>6. CASE ColumnsDone(p)
    <2>1. "read version" \in Stages /\ "read version" \notin Past
      BY DEF Stages, Opening, Past, Up
    <2>2. columns = Columns
      BY <1>0, <1>6 DEF ColumnsDone, ColumnsKnown, StartTypes
    <2>3. QED
      BY <1>6, <2>1, <2>2, SchemaGoto DEF ColumnsDone, local
  <1>7. CASE ReadVersion(p)
    <2>1. /\ stage'[p] = "migrate"
          /\ pending'[p] = version + 1
          /\ \A q \in Processes \ {p} : stage'[q] = stage[q] /\ pending'[q] = pending[q]
      BY <1>7 DEF ReadVersion, PendingAfter, Goto, StartTypes
    <2>2. UNCHANGED <<missing, columns, version, applied>>
      BY <1>7 DEF ReadVersion
    <2>3. columns = Columns
      BY <1>0, <1>7 DEF ReadVersion, ColumnsKnown
    <2>4. pending'[p] - 1 = version
      BY <2>1 DEF StartTypes
    <2>5. ColumnsKnown(p)' /\ MigrationsKnown(p)'
      BY <1>0, <2>1, <2>2, <2>3, <2>4 DEF ColumnsKnown, MigrationsKnown, Past, Up
    <2>6. QED
      BY <1>0, <2>1, <2>2, <2>5, SchemaStep
  <1>8. CASE Migrate(p)
    <2> DEFINE m == pending[p]
    <2>1. m \in 1 .. Head /\ 1 .. (m - 1) \subseteq applied
      BY <1>0, <1>8 DEF Migrate, MigrationsKnown, StartTypes
    <2>2. applied' = applied \cup {m} /\ version' = m
      BY <1>8 DEF Migrate, Recorded
    <2>3. 1 .. m \subseteq applied'
      BY <2>1, <2>2
    <2>4. /\ pending'[p] = m + 1
          /\ \A q \in Processes \ {p} : pending'[q] = pending[q]
      BY <1>8 DEF Migrate, StartTypes
    <2>5. UNCHANGED <<stage, missing, columns>> /\ stage[p] = "migrate"
      BY <1>8 DEF Migrate
    <2>6. ColumnsKnown(p)'
      BY <1>0, <2>5 DEF ColumnsKnown, Past, Up
    <2>7. pending'[p] - 1 = m
      BY <2>1, <2>4
    <2>8. MigrationsKnown(p)'
      BY <2>3, <2>5, <2>7 DEF MigrationsKnown, Past, Up
    <2>9. 1 .. version' \subseteq applied'
      BY <2>2, <2>3, Zenon
    <2>10. QED
      BY <2>2, <2>4, <2>5, <2>6, <2>8, <2>9, SchemaStep
  <1>9. CASE Opened(p)
    <2>1. columns = Columns
      BY <1>0, <1>9 DEF Opened, ColumnsKnown
    <2>2. pending[p] - 1 = Head /\ 1 .. (pending[p] - 1) \subseteq applied
      BY <1>0, <1>9 DEF Opened, MigrationsKnown, StartTypes
    <2>3. PICK s \in {"probe", "ready"} : Goto(p, s)
      BY <1>9 DEF Opened
    <2>4. s \in Stages /\ s \notin {"columns", "migrate"}
      BY DEF Stages, Up
    <2>5. 1 .. Head \subseteq applied
      BY <2>2
    <2>6. QED
      BY <1>9, <2>1, <2>3, <2>4, <2>5, SchemaGoto DEF Opened
  <1>10. QED
    BY <1>1, <1>2, <1>3, <1>4, <1>5, <1>6, <1>7, <1>8, <1>9

LEMMA NextSchemaInv == StartTypes /\ SchemaInv /\ [Next]_vars => SchemaInv'
  <1> SUFFICES ASSUME StartTypes, SchemaInv, [Next]_vars
               PROVE  SchemaInv'
    OBVIOUS
  <1>0. StartTypes'
    BY NextStartTypes
  <1> USE DEF database
  <1>1. CASE UNCHANGED vars
    BY <1>1 DEF vars, local, SchemaInv, ColumnsKnown, MigrationsKnown
  <1>2. ASSUME NEW p \in Processes,
               \/ Start(p) \/ CreateTables(p) \/ ReadColumns(p) \/ AddColumn(p)
               \/ DuplicateColumn(p) \/ ColumnsDone(p) \/ ReadVersion(p) \/ Migrate(p)
               \/ MigrateRaises(p) \/ Opened(p)
        PROVE  SchemaInv'
    BY <1>0, <1>2, OpeningKeepsSchema
  <1>3. ASSUME NEW p \in Processes, ProbeAtStart(p) \/ StoreProbeAgain(p)
        PROVE  SchemaInv'
    BY <1>3 DEF ProbeAtStart, StoreProbeAgain, SchemaInv, ColumnsKnown, MigrationsKnown
  <1>4. ASSUME NEW p \in Processes, NEW s \in Up, stage[p] \in Past, Goto(p, s),
               UNCHANGED <<missing, pending, columns, version, applied>>
        PROVE  SchemaInv'
    <2>1. ColumnsKnown(p) /\ MigrationsKnown(p)
      BY DEF SchemaInv
    <2>2. /\ s \in Stages /\ s \notin {"columns", "migrate"}
          /\ columns = Columns /\ 1 .. Head \subseteq applied
      BY <1>4, <2>1 DEF ColumnsKnown, MigrationsKnown, Stages, Up
    <2>3. QED
      BY <1>0, <1>4, <2>2, SchemaGoto
  <1>5. ASSUME NEW p \in Processes, Register(p) \/ ProbeAgain(p) \/ ProbedAgain(p) \/ Restore(p)
        PROVE  SchemaInv'
    <2>1. PICK s \in Up : Goto(p, s)
      BY <1>5 DEF Register, ProbeAgain, ProbedAgain, Restore, Up
    <2>2. stage[p] \in Past
      BY <1>5 DEF Register, ProbeAgain, Commands, ProbedAgain, Restore, Past, Up
    <2>3. UNCHANGED <<missing, pending, columns, version, applied>>
      BY <1>5 DEF Register, ProbeAgain, ProbedAgain, Restore, local
    <2>4. QED
      BY <1>4, <2>1, <2>2, <2>3
  <1>6. ASSUME NEW p \in Processes, NEW i \in Intents, StartRestore(p, i)
        PROVE  SchemaInv'
    <2>1. "restore" \in Up /\ stage[p] \in Past
      BY <1>6 DEF StartRestore, Commands, Past, Up
    <2>2. QED
      BY <1>4, <1>6, <2>1 DEF StartRestore
  <1>7. ASSUME NEW p \in Processes, Stop(p) \/ Fail(p)
        PROVE  SchemaInv'
    <2>1. "down" \in Stages /\ "down" \notin Past
      BY DEF Stages, Past, Up
    <2>2. QED
      BY <1>0, <1>7, <2>1, SchemaGoto DEF Stop, Fail, Down, local
  <1>8. QED
    BY <1>1, <1>2, <1>3, <1>5, <1>6, <1>7 DEF Next, StartStep

\* What processes know of columns and migrations is true of the database.
THEOREM SchemaInvariant == Spec => [](StartTypes /\ SchemaInv)
  <1>1. Init => StartTypes /\ SchemaInv
    BY InitStartTypes, InitSchemaInv
  <1>2. StartTypes /\ SchemaInv /\ [Next]_vars => (StartTypes /\ SchemaInv)'
    BY NextStartTypes, NextSchemaInv
  <1>3. QED
    BY <1>1, <1>2, PTL DEF Spec

\* schema_version never claims a migration that was not committed, however the
\* runs of apply_migrations overlap.
THEOREM VersionNeverAhead == Spec => []VersionIsApplied
  <1>1. SchemaInv => VersionIsApplied
    BY DEF SchemaInv, VersionIsApplied
  <1>2. QED
    BY <1>1, SchemaInvariant, PTL

\* When StateStore.initialize has returned, the database has every column and
\* every migration, whatever raced or crashed.
THEOREM OpenedDatabase == Spec => []OpenedIsMigrated
  <1>1. StartTypes /\ SchemaInv => OpenedIsMigrated
    <2> SUFFICES ASSUME StartTypes, SchemaInv, NEW p \in Processes,
                        stage[p] \in {"probe"} \cup Up
                 PROVE  columns = Columns /\ applied = 1 .. Head
      BY DEF OpenedIsMigrated
    <2>1. ColumnsKnown(p) /\ MigrationsKnown(p) /\ stage[p] \in Past
      BY DEF SchemaInv, Past
    <2>2. QED
      BY <2>1 DEF ColumnsKnown, MigrationsKnown, StartTypes
  <1>2. QED
    BY <1>1, SchemaInvariant, PTL

\* apply_migrations commits a migration only on a database that has all the
\* migrations before it.
THEOREM OrderedMigrations == Spec => MigratesInOrder
  <1>1. /\ StartTypes /\ SchemaInv /\ [Next]_vars
        => [\A m \in applied' \ applied : 1 .. (m - 1) \subseteq applied]_vars
    <2> SUFFICES ASSUME StartTypes, SchemaInv, Next,
                        NEW m \in applied' \ applied
                 PROVE  1 .. (m - 1) \subseteq applied
      BY DEF vars, database
    <2>1. PICK p \in Processes : Migrate(p)
      BY DEF Next, StartStep, Start, CreateTables, ReadColumns, AddColumn,
             DuplicateColumn, ColumnsDone, ReadVersion, MigrateRaises, Opened, ProbeAtStart,
             Register, ProbeAgain, StoreProbeAgain, ProbedAgain, StartRestore, Restore,
             Stop, Fail, database
    <2>2. m = pending[p] /\ MigrationsKnown(p)
      BY <2>1 DEF Migrate, SchemaInv
    <2>3. QED
      BY <2>1, <2>2 DEF Migrate, MigrationsKnown
  <1>2. QED
    BY <1>1, SchemaInvariant, PTL DEF Spec, MigratesInOrder

----------------------------------------------------------------------------
(* The modules table.                                                       *)

LEMMA InitGatingInv == Init => GatingInv
  BY DEF Init, GatingInv, RowCovers, RegistersUncovered, Opening

\* A step of p that stores of p's own coverage at most, and keeps what p has
\* registered uncovered.
LEMMA GatingStep ==
  ASSUME StartTypes, GatingInv, NEW p \in Processes,
         \A i \in Intents : RowCovers(i)',
         \A q \in Processes \ {p} :
           stage'[q] = stage[q] /\ release'[q] = release[q] /\ registered'[q] = registered[q],
         RegistersUncovered(p)'
  PROVE  GatingInv'
  <1>1. ASSUME NEW q \in Processes, q # p
        PROVE  RegistersUncovered(q)'
    BY <1>1 DEF GatingInv, RegistersUncovered, IsCovered
  <1>2. QED
    BY <1>1 DEF GatingInv

\* A step of p from a stage to one that is not "down", with what it has
\* registered as it is.
LEMMA GatingGoto ==
  ASSUME StartTypes, GatingInv, NEW p \in Processes, NEW s \in Stages \ {"down"},
         Goto(p, s),
         s \in {"probe"} \cup Opening => registered[p] = {},
         UNCHANGED <<release, registered>>,
         \A i \in Intents : RowCovers(i)'
  PROVE  GatingInv'
  <1>1. stage'[p] = s /\ \A q \in Processes \ {p} : stage'[q] = stage[q]
    BY DEF Goto, StartTypes
  <1>2. RegistersUncovered(p)'
    BY <1>1 DEF GatingInv, RegistersUncovered, IsCovered
  <1>3. QED
    BY <1>1, <1>2, GatingStep

\* A step back to "down" unregisters everything.
LEMMA GatingDown ==
  ASSUME StartTypes, GatingInv, NEW p \in Processes, Goto(p, "down"),
         registered' = [registered EXCEPT ![p] = {}],
         UNCHANGED <<release, modules>>
  PROVE  GatingInv'
  <1>1. /\ registered'[p] = {}
        /\ \A q \in Processes \ {p} :
             stage'[q] = stage[q] /\ registered'[q] = registered[q]
    BY DEF Goto, StartTypes
  <1>2. RegistersUncovered(p)'
    BY <1>1 DEF RegistersUncovered
  <1>3. \A i \in Intents : RowCovers(i)'
    BY DEF GatingInv, RowCovers
  <1>4. QED
    BY <1>1, <1>2, <1>3, GatingStep

\* A probe writes retired for the intents that the release of its process covers,
\* and names that release.
LEMMA ProbeCovers ==
  ASSUME StartTypes, GatingInv, NEW p \in Processes,
         NEW other \in {"enabled", "candidate_for_retirement"}, StoreProbe(p, other),
         NEW i \in Intents
  PROVE  RowCovers(i)'
  <1>1. CASE modules'[i] = modules[i]
    BY <1>1 DEF GatingInv, RowCovers
  <1>2. CASE modules'[i] # modules[i]
    <2>1. modules'[i] =
            [status |-> IF IsCovered(p, i) THEN "retired_by_official" ELSE other,
             release |-> release[p]]
      BY <1>2 DEF StoreProbe, StartTypes
    <2>2. modules'[i].status = "retired_by_official" => IsCovered(p, i)
      BY <2>1
    <2>3. modules'[i].release = release[p]
      BY <2>1
    <2>4. IsCovered(p, i) => release[p] \in Releases
      BY DEF IsCovered, StartTypes
    <2>5. QED
      BY <2>2, <2>3, <2>4 DEF RowCovers, IsCovered
  <1>3. QED
    BY <1>1, <1>2

LEMMA NextGatingInv == StartTypes /\ GatingInv /\ [Next]_vars => GatingInv'
  <1> SUFFICES ASSUME StartTypes, GatingInv, [Next]_vars
               PROVE  GatingInv'
    OBVIOUS
  <1> USE DEF database, local
  <1>0. ASSUME NEW p \in Processes
        PROVE  RegistersUncovered(p)
    BY DEF GatingInv
  <1>1. CASE UNCHANGED <<modules, stage, release, registered>>
    BY <1>1 DEF GatingInv, RowCovers, RegistersUncovered, IsCovered
  <1>2. ASSUME NEW p \in Processes, Start(p)
        PROVE  GatingInv'
    <2>1. /\ stage'[p] = "tables"
          /\ \A q \in Processes \ {p} : stage'[q] = stage[q] /\ release'[q] = release[q]
      BY <1>2 DEF Start, Goto, StartTypes
    <2>2. registered[p] = {} /\ UNCHANGED <<modules, registered>>
      BY <1>0, <1>2 DEF Start, RegistersUncovered
    <2>3. RegistersUncovered(p)'
      BY <2>2 DEF RegistersUncovered
    <2>4. \A i \in Intents : RowCovers(i)'
      BY <2>2 DEF GatingInv, RowCovers
    <2>5. QED
      BY <2>1, <2>2, <2>3, <2>4, GatingStep
  <1>3. ASSUME NEW p \in Processes,
               CreateTables(p) \/ ReadColumns(p) \/ ColumnsDone(p) \/ ReadVersion(p) \/ Opened(p)
        PROVE  GatingInv'
    <2>1. PICK s \in Stages \ {"down"} : Goto(p, s)
      BY <1>3 DEF CreateTables, ReadColumns, ColumnsDone, ReadVersion, Opened, Stages,
                  Opening, Up
    <2>2. registered[p] = {}
      BY <1>0, <1>3 DEF CreateTables, ReadColumns, ColumnsDone, ReadVersion, Opened,
                        Opening, RegistersUncovered
    <2>3. UNCHANGED <<release, modules, registered>>
      BY <1>3 DEF CreateTables, ReadColumns, ColumnsDone, ReadVersion, Opened
    <2>4. \A i \in Intents : RowCovers(i)'
      BY <2>3 DEF GatingInv, RowCovers
    <2>5. QED
      BY <2>1, <2>2, <2>3, <2>4, GatingGoto
  <1>4. ASSUME NEW p \in Processes, DuplicateColumn(p) \/ MigrateRaises(p)
        PROVE  GatingInv'
    <2>1. registered[p] = {}
      BY <1>0, <1>4 DEF DuplicateColumn, MigrateRaises, Opening, RegistersUncovered
    <2>2. registered' = [registered EXCEPT ![p] = {}]
      BY <1>4, <2>1 DEF DuplicateColumn, MigrateRaises, StartTypes
    <2>3. QED
      BY <1>4, <2>2, GatingDown DEF DuplicateColumn, MigrateRaises
  <1>5. ASSUME NEW p \in Processes, ProbeAtStart(p) \/ StoreProbeAgain(p)
        PROVE  GatingInv'
    <2>1. PICK other \in {"enabled", "candidate_for_retirement"} : StoreProbe(p, other)
      BY <1>5 DEF ProbeAtStart, StoreProbeAgain
    <2>2. \A i \in Intents : RowCovers(i)'
      BY <2>1, ProbeCovers
    <2>3. UNCHANGED <<stage, release, registered>>
      BY <1>5 DEF ProbeAtStart, StoreProbeAgain
    <2>4. RegistersUncovered(p)'
      BY <1>0, <2>3 DEF RegistersUncovered, IsCovered
    <2>5. QED
      BY <2>2, <2>3, <2>4, GatingStep
  <1>6. ASSUME NEW p \in Processes, Register(p)
        PROVE  GatingInv'
    <2>1. PICK failed \in SUBSET Enabled(p) :
            registered' = [registered EXCEPT ![p] = Enabled(p) \ failed]
      BY <1>6 DEF Register
    <2>2. /\ registered'[p] \subseteq Enabled(p) /\ stage'[p] = "ready"
          /\ \A q \in Processes \ {p} :
               stage'[q] = stage[q] /\ registered'[q] = registered[q]
      BY <1>6, <2>1 DEF Register, Goto, StartTypes
    <2>3. UNCHANGED <<release, modules>>
      BY <1>6 DEF Register
    <2>4. \A i \in Enabled(p) : ~ IsCovered(p, i)
      BY DEF Enabled
    <2>5. RegistersUncovered(p)'
      BY <2>2, <2>3, <2>4 DEF RegistersUncovered, IsCovered, Opening
    <2>6. \A i \in Intents : RowCovers(i)'
      BY <2>3 DEF GatingInv, RowCovers
    <2>7. QED
      BY <2>2, <2>3, <2>5, <2>6, GatingStep
  <1>7. ASSUME NEW p \in Processes, ProbeAgain(p) \/ ProbedAgain(p)
        PROVE  GatingInv'
    <2>1. PICK s \in Stages \ ({"down", "probe"} \cup Opening) : Goto(p, s)
      BY <1>7 DEF ProbeAgain, ProbedAgain, Stages, Opening, Up
    <2>2. UNCHANGED <<release, modules, registered>>
      BY <1>7 DEF ProbeAgain, ProbedAgain
    <2>3. \A i \in Intents : RowCovers(i)'
      BY <2>2 DEF GatingInv, RowCovers
    <2>4. QED
      BY <2>1, <2>2, <2>3, GatingGoto
  <1>8. ASSUME NEW p \in Processes, NEW i \in Intents, StartRestore(p, i)
        PROVE  GatingInv'
    <2>1. "restore" \in Stages \ ({"down", "probe"} \cup Opening)
      BY DEF Stages, Opening, Up
    <2>2. \A j \in Intents : RowCovers(j)'
      BY <1>8 DEF StartRestore, GatingInv, RowCovers
    <2>3. QED
      BY <1>8, <2>1, <2>2, GatingGoto DEF StartRestore
  <1>9. ASSUME NEW p \in Processes, Restore(p)
         PROVE  GatingInv'
    <2>1. "ready" \in Stages \ ({"down", "probe"} \cup Opening)
      BY DEF Stages, Opening, Up
    <2>2. \A i \in Intents : modules'[i] = modules[i] \/ modules'[i].status = "enabled"
      BY <1>9 DEF Restore, StartTypes
    <2>3. \A i \in Intents : RowCovers(i)'
      BY <2>2 DEF GatingInv, RowCovers
    <2>4. QED
      BY <1>9, <2>1, <2>3, GatingGoto DEF Restore
  <1>10. ASSUME NEW p \in Processes, Stop(p) \/ Fail(p)
         PROVE  GatingInv'
    BY <1>10, GatingDown DEF Stop, Fail, Down
  <1>11. ASSUME NEW p \in Processes, AddColumn(p) \/ Migrate(p)
         PROVE  GatingInv'
    BY <1>1, <1>11 DEF AddColumn, Migrate
  <1>12. QED
    BY <1>1, <1>2, <1>3, <1>4, <1>5, <1>6, <1>7, <1>8, <1>9, <1>10, <1>11
    DEF Next, StartStep, vars

\* What the modules table calls retired is registered by a plugin only if another
\* process with a newer release of Hermes has called it so, or the plugin does not
\* know its own release; for any environments, allow-lists, lost probe results
\* and restores.
THEOREM RetiredElsewhere == Spec => []RetiredByNewerRelease
  <1>1. Init => StartTypes /\ GatingInv
    BY InitStartTypes, InitGatingInv
  <1>2. StartTypes /\ GatingInv /\ [Next]_vars => (StartTypes /\ GatingInv)'
    BY NextStartTypes, NextGatingInv
  <1>3. StartTypes /\ GatingInv => RetiredByNewerRelease
    <2> SUFFICES ASSUME StartTypes, GatingInv, NEW p \in Plugins, NEW i \in Intents,
                        modules[i].status = "retired_by_official", i \in registered[p],
                        release[p] # Unknown
                 PROVE  release[p] < modules[i].release
      BY DEF RetiredByNewerRelease
    <2>1. RegistersUncovered(p) /\ RowCovers(i)
      BY DEF GatingInv, Processes
    <2>2. ~ MinVersion[i] <= release[p] /\ MinVersion[i] <= modules[i].release
      BY <2>1 DEF RegistersUncovered, RowCovers, IsCovered
    <2>3. /\ MinVersion[i] \in Nat /\ release[p] \in Nat
          /\ modules[i].release \in Nat
      BY <2>1, ReleaseAssumption DEF RowCovers, StartTypes, Processes
    <2>4. QED
      BY <2>2, <2>3
  <1>4. QED
    BY <1>1, <1>2, <1>3, PTL DEF Spec

----------------------------------------------------------------------------
(* The rest of the type invariant, which the invariants above do not need.  *)

RestTypes ==
  /\ tables \in BOOLEAN
  /\ toProbe \in [Processes -> SUBSET Matrix]
  /\ restoring \in [Processes -> Intents]
  /\ failures \in 0 .. MaxFailures

LEMMA NextRestTypes == RestTypes /\ [Next]_vars => RestTypes'
  <1> SUFFICES ASSUME RestTypes, [Next]_vars
               PROVE  RestTypes'
    OBVIOUS
  <1> USE DEF database, local, RestTypes
  <1>1. CASE UNCHANGED <<toProbe, restoring, failures>> /\ tables' \in BOOLEAN
    BY <1>1
  <1>2. ASSUME NEW p \in Processes, ProbeAtStart(p) \/ StoreProbeAgain(p)
        PROVE  RestTypes'
    BY <1>2 DEF ProbeAtStart, StoreProbeAgain, StoreProbe
  <1>3. ASSUME NEW p \in Processes, Opened(p) \/ ProbeAgain(p)
        PROVE  RestTypes'
    BY <1>3 DEF Opened, ProbeAgain
  <1>4. ASSUME NEW p \in Processes, NEW i \in Intents, StartRestore(p, i)
        PROVE  RestTypes'
    BY <1>4 DEF StartRestore
  <1>5. ASSUME NEW p \in Processes, Fail(p)
        PROVE  RestTypes'
    BY <1>5, FailureAssumption DEF Fail
  <1>6. QED
    BY <1>1, <1>2, <1>3, <1>4, <1>5
       DEF Next, StartStep, vars, Start, CreateTables, ReadColumns, AddColumn,
           DuplicateColumn, ColumnsDone, ReadVersion, Migrate, MigrateRaises, Register,
           ProbedAgain, Restore, Stop

\* The type invariant of start, probe and restore.
THEOREM StartupTypeCorrect == Spec => []TypeOK
  <1>1. Init => StartTypes /\ RestTypes
    <2>1. Init => RestTypes
      BY IntentAssumption, FailureAssumption DEF Init, RestTypes
    <2>2. QED
      BY <2>1, InitStartTypes
  <1>2. StartTypes /\ RestTypes /\ [Next]_vars => (StartTypes /\ RestTypes)'
    BY NextStartTypes, NextRestTypes
  <1>3. StartTypes /\ RestTypes => TypeOK
    BY DEF StartTypes, RestTypes, TypeOK
  <1>4. QED
    BY <1>1, <1>2, <1>3, PTL DEF Spec
=============================================================================
