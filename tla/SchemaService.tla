---------------------------- MODULE SchemaService ----------------------------
(***************************************************************************)
(* A customer schema, its history and the tables built from it             *)
(* (schema.service.ts with migration-planner.ts), over the tables          *)
(* customer_schemas and customer_schema_versions of Postgres.  A deploy    *)
(* reads the schema, runs the DDL of the difference in one transaction,    *)
(* writes the schema if its version is still the one it read, and adds a   *)
(* snapshot: three transactions, nothing undoes one when a later one       *)
(* fails.                                                                  *)
(*                                                                         *)
(* The row has two versions.  Every update counts up the repository's      *)
(* _version (rowVersion), which is what its WHERE looks at.  The service   *)
(* reads and shows current_version (version), and hands that to the WHERE; *)
(* only a deploy and a rollback set it.                                    *)
(*                                                                         *)
(* A table is narrow, or wide with one column more; it is built with the   *)
(* columns of its definition or, by a rollback, bare.  A call the service  *)
(* refuses before it has changed anything is no step.                      *)
(***************************************************************************)
EXTENDS Naturals, FiniteSets

CONSTANTS
  Tables, Callers,
  MaxCalls, MaxFailures  \* bounds

ASSUME BoundsAssumption == {MaxCalls, MaxFailures} \subseteq Nat
ASSUME SetsAssumption == IsFiniteSet(Tables) /\ IsFiniteSet(Callers) /\ Callers # {}

VARIABLES
  schema,           \* the row of customer_schemas
  versions,         \* customer_schema_versions
  db,               \* the tables that exist
  call,             \* where a call stands, and what it read
  begun, failures,  \* calls begun, and failed steps, so far
  written,          \* every definition the row has held, by its row's version
  drafted,          \* tables whose definition a save has changed
  stranded,         \* tables whose DDL was run for a definition never written
  lost              \* versions whose snapshot was not stored

vars == <<schema, versions, db, call, begun, failures, written, drafted, stranded, lost>>
ghosts == <<written, drafted, stranded, lost>>

Shapes      == {"none", "narrow", "wide"}
Definitions == [Tables -> Shapes]
Empty       == [t \in Tables |-> "none"]
NoSchema    == [rowVersion |-> 0, version |-> 0, tables |-> Empty]
Schemas     == [rowVersion : Nat, version : Nat, tables : Definitions]
Snapshots   == [version : Nat, tables : Definitions, of : Nat]
Written     == [rowVersion : Nat, version : Nat, tables : Definitions, built : BOOLEAN]
Idle        == [op |-> "none", at |-> "idle", seen |-> NoSchema, expected |-> 0,
                tables |-> Empty, of |-> 0]
Calls == [op : {"none", "create", "update", "delete", "apply", "rollback"},
          at : {"idle", "insert", "apply", "save", "migrate", "persist", "snapshot"},
          seen : Schemas, expected : Nat, tables : Definitions, of : Nat]

Init ==
  /\ schema = NoSchema /\ versions = {}
  /\ db = [t \in Tables |-> "none"]
  /\ call = [c \in Callers |-> Idle]
  /\ begun = 0 /\ failures = 0
  /\ written = {} /\ drafted = {} /\ stranded = {} /\ lost = {}
-----------------------------------------------------------------------------
Finish(c)      == call' = [call EXCEPT ![c] = Idle]
Goto(c, place) == call' = [call EXCEPT ![c].at = place]

\* A call is taken up: it reads the schema, and holds what it read and the version
\* it expects.  For a save this is what its client read when it began to edit.
Take(c, op, place, expected, tables, of) ==
  /\ call[c].at = "idle" /\ begun < MaxCalls /\ begun' = begun + 1
  /\ call' = [call EXCEPT ![c] = [op |-> op, at |-> place, seen |-> schema,
                                  expected |-> expected, tables |-> tables, of |-> of]]
  /\ UNCHANGED <<schema, versions, db, failures, ghosts>>

\* Mutant: the row is written whatever its version.
MatchesAlways(c) == schema.rowVersion >= call[c].expected

\* Mutant: the version the service shows is looked at, which a save leaves alone.
MatchesShown(c) == schema.version = call[c].expected

\* update ... WHERE _version = expectedVersion
Matches(c) == schema.rowVersion = call[c].expected

\* Mutant: the tables that exist are written.
WriteBuilt(c, version) ==
  /\ schema' = [rowVersion |-> schema.rowVersion + 1, version |-> version, tables |-> db]
  /\ written' = written \cup {[rowVersion |-> schema.rowVersion + 1, version |-> version,
                               tables |-> call[c].tables, built |-> version # schema.version]}

\* The columns that are given are set; _version goes up.
Write(c, version) ==
  /\ schema' = [rowVersion |-> schema.rowVersion + 1, version |-> version,
                tables |-> call[c].tables]
  /\ written' = written \cup {[rowVersion |-> schema.rowVersion + 1, version |-> version,
                               tables |-> call[c].tables, built |-> version # schema.version]}
-----------------------------------------------------------------------------
\* createSchema, and with tables createSchemaFromTemplate and importSchema.
createSchema(c, tables) == schema = NoSchema /\ Take(c, "create", "insert", 0, tables, 0)

First == [rowVersion |-> 1, version |-> 1, tables |-> Empty]

\* Mutant: the slug is looked for, and not unique.
insertAgain(c) ==
  /\ call[c].at = "insert"
  /\ schema' = First
  /\ written' = written \cup {[rowVersion |-> 1, version |-> 1, tables |-> Empty, built |-> FALSE]}
  /\ IF call[c].tables = Empty THEN Finish(c) ELSE Goto(c, "apply")
  /\ UNCHANGED <<versions, db, begun, failures, drafted, stranded, lost>>

\* The slug is unique: the second of two that create it is refused.
insert(c) ==
  /\ call[c].at = "insert"
  /\ IF schema = NoSchema
       THEN /\ schema' = First
            /\ written' = written \cup {[rowVersion |-> 1, version |-> 1, tables |-> Empty,
                                         built |-> FALSE]}
            /\ IF call[c].tables = Empty THEN Finish(c) ELSE Goto(c, "apply")
       ELSE Finish(c) /\ UNCHANGED <<schema, written>>
  /\ UNCHANGED <<versions, db, begun, failures, drafted, stranded, lost>>

\* The template's tables are applied to version 1, if the schema still shows it.
applyTemplate(c) ==
  /\ call[c].at = "apply"
  /\ IF schema.version = 1
       THEN call' = [call EXCEPT ![c].at = "migrate", ![c].seen = schema, ![c].expected = 1]
       ELSE Finish(c)
  /\ UNCHANGED <<schema, versions, db, begun, failures, ghosts>>

\* The version a client sends with a save: the one it is shown, or the row's, which
\* it knows when it has counted its own saves.
Known == {schema.version, schema.rowVersion}

updateSchema(c, tables) ==
  \E e \in Known : schema # NoSchema /\ Take(c, "update", "save", e, tables, 0)

\* A schema is deleted by an update that writes its metadata.
deleteSchema(c) ==
  \E e \in Known : schema # NoSchema /\ Take(c, "delete", "save", e, schema.tables, 0)

\* No version is among the columns a save gives.
save(c) ==
  /\ call[c].at = "save"
  /\ IF Matches(c)
       THEN /\ Write(c, schema.version)
            /\ drafted' = drafted \cup {t \in Tables : call[c].tables[t] # schema.tables[t]}
       ELSE UNCHANGED <<schema, written, drafted>>
  /\ Finish(c)
  /\ UNCHANGED <<versions, db, begun, failures, stranded, lost>>

applyChanges(c, tables) ==
  schema # NoSchema /\ Take(c, "apply", "migrate", schema.version, tables, 0)

rollbackToVersion(c, snapshot) ==
  /\ schema # NoSchema
  /\ Take(c, "rollback", "migrate", schema.version, snapshot.tables, snapshot.version)
-----------------------------------------------------------------------------
\* The plan: the difference between what was read and what was proposed.
Drops(k)   == {t \in Tables : k.seen.tables[t] # "none" /\ k.tables[t] = "none"}
Creates(k) == {t \in Tables : k.seen.tables[t] = "none" /\ k.tables[t] # "none"}
Narrows(k) == {t \in Tables : k.seen.tables[t] = "wide" /\ k.tables[t] = "narrow"}
Widens(k)  == {t \in Tables : k.seen.tables[t] = "narrow" /\ k.tables[t] = "wide"}

\* The statements run in one transaction.  DROP TABLE has IF EXISTS, CREATE
\* TABLE has not; a column that is added comes without its type.
Runs(k) ==
  /\ Widens(k) = {}
  /\ \A t \in Creates(k) : db[t] = "none"
  /\ \A t \in Narrows(k) : db[t] = "wide"

\* Mutant: no table is dropped.
BuiltUndropped(k) ==
  [t \in Tables |-> CASE t \in Creates(k) -> IF k.op = "rollback" THEN "bare" ELSE k.tables[t]
                      [] t \in Narrows(k) -> "narrow"
                      [] OTHER -> db[t]]

\* A rollback runs the planner's own CREATE TABLE, which has no columns.
Built(k) ==
  [t \in Tables |-> CASE t \in Drops(k) -> "none"
                      [] t \in Creates(k) -> IF k.op = "rollback" THEN "bare" ELSE k.tables[t]
                      [] t \in Narrows(k) -> "narrow"
                      [] OTHER -> db[t]]

migrate(c) ==
  /\ call[c].at = "migrate"
  /\ IF Runs(call[c]) THEN db' = Built(call[c]) /\ Goto(c, "persist")
                      ELSE Finish(c) /\ UNCHANGED db
  /\ UNCHANGED <<schema, versions, begun, failures, ghosts>>

\* The tables a plan changes.
Touched(k) == {t \in Tables : k.seen.tables[t] # k.tables[t]}

\* The definition that was built is written, or refused: another deploy came first,
\* or there was a save at any time.
persist(c) ==
  /\ call[c].at = "persist"
  /\ IF Matches(c)
       THEN Write(c, call[c].seen.version + 1) /\ Goto(c, "snapshot") /\ UNCHANGED stranded
       ELSE /\ Finish(c)
            /\ stranded' = stranded \cup Touched(call[c])
            /\ UNCHANGED <<schema, written>>
  /\ UNCHANGED <<versions, db, begun, failures, drafted, lost>>

\* Mutant: the snapshot is of what was read.
takenOf(k) == [version |-> k.seen.version + 1, tables |-> k.seen.tables, of |-> k.of]

\* The snapshot of a deploy.
Taken(k) == [version |-> k.seen.version + 1, tables |-> k.tables, of |-> k.of]

\* Mutant: a version that was rolled back to is replaced.
recordVersionReplaced(c) ==
  /\ call[c].at = "snapshot"
  /\ versions' = {s \in versions : s.version # call[c].of} \cup {Taken(call[c])}
  /\ Finish(c)
  /\ UNCHANGED <<schema, db, begun, failures, ghosts>>

\* A schema has one snapshot of a version: a second one is refused.
recordVersion(c) ==
  /\ call[c].at = "snapshot"
  /\ LET s == Taken(call[c]) IN
     IF \E o \in versions : o.version = s.version THEN UNCHANGED versions
                                                 ELSE versions' = versions \cup {s}
  /\ Finish(c)
  /\ UNCHANGED <<schema, db, begun, failures, ghosts>>

\* The process dies, a statement fails, or the answer to the one before is lost: the
\* call ends where it stands.  The result of storing a snapshot is not looked at.
stops(c) ==
  /\ call[c].at # "idle" /\ failures < MaxFailures /\ failures' = failures + 1
  /\ stranded' = stranded \cup IF call[c].at = "persist" THEN Touched(call[c]) ELSE {}
  /\ lost' = lost \cup IF call[c].at = "snapshot" THEN {call[c].seen.version + 1} ELSE {}
  /\ Finish(c)
  /\ UNCHANGED <<schema, versions, db, begun, written, drafted>>
-----------------------------------------------------------------------------
Step(c) ==
  \/ \E d \in Definitions :
       createSchema(c, d) \/ updateSchema(c, d) \/ applyChanges(c, d)
  \/ \E s \in versions : rollbackToVersion(c, s)
  \/ deleteSchema(c) \/ insert(c) \/ applyTemplate(c) \/ save(c)
  \/ migrate(c) \/ persist(c) \/ recordVersion(c) \/ stops(c)

Next == \E c \in Callers : Step(c)

Spec == Init /\ [][Next]_vars
-----------------------------------------------------------------------------
TypeOK ==
  /\ schema \in Schemas /\ versions \subseteq Snapshots /\ written \subseteq Written
  /\ db \in [Tables -> Shapes \cup {"bare"}]
  /\ call \in [Callers -> Calls]
  /\ begun \in 0..MaxCalls /\ failures \in 0..MaxFailures
  /\ drafted \subseteq Tables /\ stranded \subseteq Tables /\ lost \subseteq Nat

\* A version number names one deployed definition, and a row's version one
\* definition, whoever saves, deploys or rolls back at one time; and a schema is
\* created once.
OneDefinitionPerVersion ==
  \A v, w \in written :
    (v.rowVersion = w.rowVersion \/ (v.built /\ w.built /\ v.version = w.version)) => v = w

\* Once a schema has been saved, or deleted, it is never deployed or rolled back
\* again: the version a deploy expects is no longer the row's.
NoDeployAfterSave ==
  \A v, w \in written :
    ~v.built /\ w.built /\ v.rowVersion > 1 => w.rowVersion < v.rowVersion

\* A snapshot is of the definition a deploy of its version wrote.
SnapshotsTrue ==
  \A s \in versions :
    \E w \in written : w.built /\ w.version = s.version /\ w.tables = s.tables

\* Every deploy has its snapshot, once its call is over: only the version of a
\* call that broke off between its write and its snapshot has none.
HistoryComplete ==
  \A w \in written :
    w.built =>
      \/ \E s \in versions : s.version = w.version
      \/ \E c \in Callers :
           /\ call[c].at = "snapshot"
           /\ call[c].seen.version + 1 = w.version
      \/ w.version \in lost

\* A rollback makes a new version with the tables of the one it goes back to,
\* and that one stays.
RollbackRestores ==
  \A s \in versions :
    s.of # 0 => \E o \in versions : o.version = s.of /\ o.tables = s.tables

\* A table exists as a definition has it, or bare when a rollback brought it back.
ExistsAs(t, tables) ==
  IF tables[t] = "none" THEN db[t] = "none" ELSE db[t] \in {tables[t], "bare"}

\* A table exists as the row has it, while no deploy that changes it is between its
\* DDL and its write, unless a save changed its definition without deploying it, or
\* a deploy changed the table and was then refused or cut off.
DeployedAsRecorded ==
  \A t \in Tables \ (drafted \cup stranded) :
    (\A c \in Callers : call[c].at = "persist" => t \notin Touched(call[c])) =>
      ExistsAs(t, schema.tables)

\* A save, a deploy or a rollback replaces the very row its caller had read:
\* nobody writes over a change they have not seen.
NothingOverwritten ==
  [][\A c \in Callers :
       (schema' # schema /\ call'[c] # call[c] /\ call[c].at # "insert") => call[c].seen = schema]_vars

\* The history of a schema is complete and tells the truth.
HistoryTrue ==
  /\ TypeOK
  /\ OneDefinitionPerVersion
  /\ NoDeployAfterSave
  /\ SnapshotsTrue
  /\ HistoryComplete
  /\ RollbackRestores
=============================================================================
