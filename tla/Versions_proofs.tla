------------------------ MODULE Versions_proofs ------------------------
(***************************************************************************)
(* Proofs about what keeps versions: SchemaService, for any tables,        *)
(* callers and bounds, and Upgrade, for any number of databases, any set   *)
(* of releases and any number of faults.                                   *)
(***************************************************************************)
EXTENDS SchemaService, Upgrade, SequenceTheorems, TLAPS

\* Rows' versions only go up, so two rows with one of them are one row; the version
\* that is shown falls behind with the first save, and stays behind.
VersionsGrow ==
  /\ schema.version <= schema.rowVersion
  /\ schema.rowVersion = 0 => schema = NoSchema
  /\ schema = NoSchema \/ 1 <= schema.version
  /\ \A c \in Callers :
       /\ call[c].seen.rowVersion <= schema.rowVersion
       /\ call[c].seen.rowVersion = schema.rowVersion => call[c].seen = schema
       /\ call[c].expected <= call[c].seen.rowVersion
       /\ call[c].at \in {"migrate", "persist"} => call[c].expected = call[c].seen.version
       /\ call[c].at \in {"save", "migrate", "persist"} => 1 <= schema.version
  /\ \A w \in written :
       /\ 1 <= w.version /\ w.version <= schema.version
       /\ 1 <= w.rowVersion /\ w.rowVersion <= schema.rowVersion
       /\ w.built => w.version = w.rowVersion
       /\ ~w.built /\ w.rowVersion > 1 => schema.version < schema.rowVersion

\* What a call that has still to store its snapshot stands for.
SnapshotsDue ==
  \A c \in Callers :
    /\ call[c].at = "snapshot" =>
         \E w \in written : /\ w.built /\ w.version = call[c].seen.version + 1
                            /\ w.tables = call[c].tables
    /\ call[c].of # 0 =>
         \E o \in versions : o.version = call[c].of /\ o.tables = call[c].tables

\* No deploy between its DDL and its write changes t; none but c.
Still(t)       == \A d \in Callers : call[d].at = "persist" => t \notin Touched(call[d])
StillBut(c, t) == \A d \in Callers \ {c} : call[d].at = "persist" => t \notin Touched(call[d])

\* While one deploy alone of those that change a table is between its DDL and its
\* write, the table is already as it is to write it, if it still can.
DeployUnderWay ==
  \A t \in Tables \ (drafted \cup stranded) :
    /\ Still(t) => ExistsAs(t, schema.tables)
    /\ \A c \in Callers :
         call[c].at = "persist" /\ Matches(c) /\ StillBut(c, t) => ExistsAs(t, call[c].tables)

IInv == /\ TypeOK /\ VersionsGrow /\ SnapshotsDue /\ DeployUnderWay
        /\ OneDefinitionPerVersion /\ NoDeployAfterSave
        /\ SnapshotsTrue /\ HistoryComplete /\ RollbackRestores
-----------------------------------------------------------------------------
LEMMA InitIInv == Init => IInv
<1> SUFFICES ASSUME Init PROVE IInv
  OBVIOUS
<1>1. Empty \in Definitions /\ NoSchema \in Schemas
  BY DEF Empty, Definitions, Shapes, NoSchema, Schemas
<1>2. TypeOK
  <2>1. Idle \in Calls
    BY <1>1 DEF Idle, Calls
  <2>2. db \in [Tables -> Shapes \cup {"bare"}]
    BY DEF Init, Shapes
  <2>3. call \in [Callers -> Calls]
    BY <2>1 DEF Init
  <2>4. 0 \in 0..MaxCalls /\ 0 \in 0..MaxFailures
    BY BoundsAssumption
  <2> QED
    BY <1>1, <2>2, <2>3, <2>4 DEF Init, TypeOK
<1>3. VersionsGrow /\ SnapshotsDue /\ DeployUnderWay
  BY DEF Init, VersionsGrow, SnapshotsDue, DeployUnderWay, ExistsAs, NoSchema, Empty, Idle
<1>4. /\ OneDefinitionPerVersion /\ NoDeployAfterSave
      /\ SnapshotsTrue /\ HistoryComplete /\ RollbackRestores
  BY DEF Init, OneDefinitionPerVersion, NoDeployAfterSave, SnapshotsTrue, HistoryComplete,
         RollbackRestores
<1> QED
  BY <1>2, <1>3, <1>4 DEF IInv
-----------------------------------------------------------------------------
\* What a step leaves of the invariant when it changes a call and nothing the
\* invariant looks at besides.
LEMMA CallChanges ==
  ASSUME IInv, TypeOK', NEW c \in Callers,
         UNCHANGED <<schema, versions, db, ghosts>>,
         \A d \in Callers \ {c} : call'[d] = call[d],
         call[c].at \notin {"persist", "snapshot"}, call'[c].at \notin {"persist", "snapshot"},
         call'[c].seen.rowVersion <= schema.rowVersion,
         call'[c].seen.rowVersion = schema.rowVersion => call'[c].seen = schema,
         call'[c].expected <= call'[c].seen.rowVersion,
         call'[c].at = "migrate" => call'[c].expected = call'[c].seen.version,
         call'[c].at \in {"save", "migrate"} => 1 <= schema.version,
         call'[c].of # 0 =>
           \E o \in versions : o.version = call'[c].of /\ o.tables = call'[c].tables
  PROVE  IInv'
<1>1. VersionsGrow' /\ SnapshotsDue'
  BY DEF IInv, VersionsGrow, SnapshotsDue, ghosts
<1>2. DeployUnderWay'
  BY DEF IInv, DeployUnderWay, Still, StillBut, ExistsAs, Touched, Matches, ghosts
<1>3. OneDefinitionPerVersion' /\ NoDeployAfterSave' /\ SnapshotsTrue' /\ RollbackRestores'
  BY DEF IInv, OneDefinitionPerVersion, NoDeployAfterSave, SnapshotsTrue, RollbackRestores, ghosts
<1>4. HistoryComplete'
  BY DEF IInv, HistoryComplete, ghosts
<1> QED
  BY <1>1, <1>2, <1>3, <1>4 DEF IInv

LEMMA TakeIInv ==
  ASSUME IInv, NEW c \in Callers, NEW tables \in Definitions, NEW of \in Nat,
         NEW op \in {"create", "update", "delete", "apply", "rollback"},
         NEW place \in {"insert", "save", "migrate"}, NEW e,
         e \in Known \cup {0}, place = "migrate" => e = schema.version,
         place # "insert" => schema # NoSchema,
         of # 0 => \E o \in versions : o.version = of /\ o.tables = tables,
         Take(c, op, place, e, tables, of)
  PROVE  IInv'
<1> DEFINE k == [op |-> op, at |-> place, seen |-> schema, expected |-> e,
                 tables |-> tables, of |-> of]
<1>1. call \in [Callers -> Calls] /\ schema \in Schemas /\ failures \in Nat
  BY BoundsAssumption DEF IInv, TypeOK
<1>2. e \in Nat /\ e <= schema.rowVersion /\ schema.rowVersion \in Nat
  BY <1>1 DEF IInv, VersionsGrow, Known, Schemas
<1>3. k \in Calls
  BY <1>1, <1>2 DEF Calls
<1>4. call' = [call EXCEPT ![c] = k] /\ call[c].at = "idle" /\ UNCHANGED <<schema, versions, db, failures, ghosts>>
  BY DEF Take
<1>5. call'[c] = k /\ \A d \in Callers \ {c} : call'[d] = call[d]
  BY <1>1, <1>4
<1>6. k.at = place /\ k.seen = schema /\ k.of = of /\ k.tables = tables /\ k.expected = e
  OBVIOUS
<1>8. place # "insert" => 1 <= schema.version
  BY DEF IInv, VersionsGrow
<1> HIDE DEF k
<1>7. TypeOK'
  BY <1>1, <1>3, <1>4, BoundsAssumption DEF IInv, TypeOK, Take, ghosts
<1> QED
  BY <1>1, <1>2, <1>4, <1>5, <1>6, <1>7, <1>8, CallChanges

\* Every call begins with Take.
LEMMA BeginIInv ==
  ASSUME IInv, NEW c \in Callers,
         \/ \E d \in Definitions : createSchema(c, d) \/ updateSchema(c, d) \/ applyChanges(c, d)
         \/ \E s \in versions : rollbackToVersion(c, s)
         \/ deleteSchema(c)
  PROVE  IInv'
<1>0. 0 \in Nat /\ 0 \in Known \cup {0} /\ schema.version \in Known
  BY DEF Known
<1>1. ASSUME NEW d \in Definitions, createSchema(c, d) PROVE IInv'
  BY <1>1, <1>0, TakeIInv DEF createSchema
<1>2. ASSUME NEW d \in Definitions, updateSchema(c, d) PROVE IInv'
  BY <1>2, <1>0, TakeIInv DEF updateSchema
<1>3. ASSUME NEW d \in Definitions, applyChanges(c, d) PROVE IInv'
  BY <1>3, <1>0, TakeIInv DEF applyChanges
<1>4. ASSUME NEW s \in versions, rollbackToVersion(c, s) PROVE IInv'
  <2>1. s.tables \in Definitions /\ s.version \in Nat
    BY DEF IInv, TypeOK, Snapshots
  <2> QED
    BY <1>4, <1>0, <2>1, TakeIInv DEF rollbackToVersion
<1>5. CASE deleteSchema(c)
  <2>1. schema.tables \in Definitions
    BY DEF IInv, TypeOK, Schemas
  <2> QED
    BY <1>5, <1>0, <2>1, TakeIInv DEF deleteSchema
<1> QED
  BY <1>1, <1>2, <1>3, <1>4, <1>5
-----------------------------------------------------------------------------
\* The typing of a call that moves on, or ends.
LEMMA CallMoves ==
  ASSUME TypeOK, NEW c \in Callers,
         NEW place \in {"apply", "persist", "snapshot"}, Goto(c, place)
  PROVE  /\ call' \in [Callers -> Calls]
         /\ \A d \in Callers \ {c} : call'[d] = call[d]
         /\ call'[c].at = place /\ call'[c].seen = call[c].seen
         /\ call'[c].tables = call[c].tables /\ call'[c].of = call[c].of
         /\ call'[c].expected = call[c].expected
<1>1. call \in [Callers -> Calls] /\ call[c] \in Calls
  BY DEF TypeOK
<1>2. call' = [call EXCEPT ![c] = [call[c] EXCEPT !.at = place]]
  BY DEF Goto
<1>3. [call[c] EXCEPT !.at = place] \in Calls
  BY <1>1 DEF Calls
<1> QED
  BY <1>1, <1>2, <1>3 DEF Calls

LEMMA CallEnds ==
  ASSUME TypeOK, NEW c \in Callers, Finish(c)
  PROVE  /\ call' \in [Callers -> Calls]
         /\ \A d \in Callers \ {c} : call'[d] = call[d]
         /\ call'[c] = Idle
<1>1. Idle \in Calls
  BY DEF Idle, Calls, NoSchema, Schemas, Empty, Definitions, Shapes
<1> QED
  BY <1>1 DEF TypeOK, Finish

\* A call that ends with nothing changed.
LEMMA FinishIInv ==
  ASSUME IInv, NEW c \in Callers, Finish(c), call[c].at \notin {"persist", "snapshot"},
         UNCHANGED <<schema, versions, db, begun, ghosts>>,
         failures' = failures
  PROVE  IInv'
<1>1. TypeOK /\ failures \in Nat /\ schema.rowVersion \in Nat
  BY BoundsAssumption DEF IInv, TypeOK, Schemas
<1>2. /\ call' \in [Callers -> Calls] /\ call'[c] = Idle
      /\ \A d \in Callers \ {c} : call'[d] = call[d]
  BY <1>1, CallEnds
<1>3. TypeOK'
  BY <1>1, <1>2, BoundsAssumption DEF TypeOK, ghosts
<1>4. Idle.at = "idle" /\ Idle.seen = NoSchema /\ Idle.of = 0 /\ Idle.expected = 0 /\ NoSchema.rowVersion = 0
  BY DEF Idle, NoSchema
<1>5. schema.rowVersion = 0 => schema = NoSchema
  BY DEF IInv, VersionsGrow
<1> QED
  BY <1>1, <1>2, <1>3, <1>4, <1>5, CallChanges
-----------------------------------------------------------------------------
\* Whoever still matches the row's version has read this very row.
LEMMA SeenIsRow ==
  ASSUME IInv, NEW c \in Callers, Matches(c)
  PROVE  call[c].seen = schema
<1>1. /\ call[c].expected <= call[c].seen.rowVersion /\ call[c].seen.rowVersion <= schema.rowVersion
      /\ call[c].seen.rowVersion = schema.rowVersion => call[c].seen = schema
  BY DEF IInv, VersionsGrow
<1>2. call[c].expected \in Nat /\ call[c].seen.rowVersion \in Nat /\ schema.rowVersion \in Nat
  BY DEF IInv, TypeOK, Calls, Schemas
<1> QED
  BY <1>1, <1>2 DEF Matches

\* A call that ends, and leaves behind what it changed in the database.
LEMMA EndsIInv ==
  ASSUME IInv, TypeOK', NEW c \in Callers, Finish(c),
         UNCHANGED <<schema, db, written, drafted>>, stranded \subseteq stranded',
         call[c].at = "persist" => Touched(call[c]) \subseteq stranded',
         SnapshotsDue', SnapshotsTrue', HistoryComplete', RollbackRestores'
  PROVE  IInv'
<1>1. call'[c] = Idle /\ \A d \in Callers \ {c} : call'[d] = call[d]
  BY CallEnds DEF IInv
<1>2. Idle.at = "idle" /\ Idle.seen = NoSchema /\ Idle.expected = 0 /\ NoSchema.rowVersion = 0
  BY DEF Idle, NoSchema
<1>3. schema.rowVersion \in Nat
  BY DEF IInv, TypeOK, Schemas
<1>4. VersionsGrow'
  BY <1>1, <1>2, <1>3 DEF IInv, VersionsGrow
<1>5. OneDefinitionPerVersion' /\ NoDeployAfterSave'
  BY DEF IInv, OneDefinitionPerVersion, NoDeployAfterSave
<1>6. DeployUnderWay'
  <2>1. SUFFICES ASSUME NEW t \in Tables \ (drafted \cup stranded')
                 PROVE  /\ Still(t)' => ExistsAs(t, schema.tables)
                        /\ \A d \in Callers :
                             call'[d].at = "persist" /\ Matches(d)' /\ StillBut(d, t)'
                               => ExistsAs(t, call'[d].tables)
    BY DEF DeployUnderWay, ExistsAs
  <2>2. call[c].at = "persist" => t \notin Touched(call[c])
    BY <2>1
  <2>3. Still(t)' => Still(t)
    BY <1>1, <2>2 DEF Still, Touched
  <2>4. ASSUME NEW d \in Callers \ {c}, StillBut(d, t)' PROVE StillBut(d, t)
    BY <1>1, <2>2, <2>4 DEF StillBut, Touched
  <2> QED
    BY <1>1, <1>2, <2>3, <2>4 DEF IInv, DeployUnderWay, Matches
<1> QED
  BY <1>4, <1>5, <1>6 DEF IInv
-----------------------------------------------------------------------------
\* The row is written: its version goes up, and no other call can be of the new
\* version, or take the written one for its own.  A deploy writes only what has
\* never been saved.
LEMMA WriteGrows ==
  ASSUME IInv, NEW c \in Callers, NEW tables \in Definitions, NEW version \in Nat,
         NEW built \in BOOLEAN,
         schema' = [rowVersion |-> schema.rowVersion + 1, version |-> version, tables |-> tables],
         1 <= version, schema.version <= version, version <= schema.rowVersion + 1,
         built => version = schema.rowVersion + 1 /\ schema.version = schema.rowVersion,
         ~built => schema.rowVersion = 0 \/ version < schema.rowVersion + 1,
         ~built => version = schema.version \/ schema.rowVersion = 0,
         written' = written \cup {[rowVersion |-> schema.rowVersion + 1, version |-> version,
                                   tables |-> tables, built |-> built]},
         \A d \in Callers \ {c} : call'[d] = call[d],
         \/ call'[c].seen = NoSchema /\ call'[c].expected = 0
         \/ call'[c].seen = call[c].seen /\ call'[c].expected = call[c].expected,
         call'[c].at \notin {"migrate", "persist"}
  PROVE  /\ schema' \in Schemas /\ written' \subseteq Written
         /\ VersionsGrow' /\ OneDefinitionPerVersion' /\ NoDeployAfterSave'
         /\ \A d \in Callers : ~Matches(d)'
<1> DEFINE n == [rowVersion |-> schema.rowVersion + 1, version |-> version, tables |-> tables,
                 built |-> built]
<1>1. schema \in Schemas /\ written \subseteq Written /\ call \in [Callers -> Calls]
      /\ schema.version \in Nat /\ schema.rowVersion \in Nat
  BY DEF IInv, TypeOK, Schemas
<1>2. schema'.rowVersion = schema.rowVersion + 1 /\ schema'.version = version
  OBVIOUS
<1>3. schema' \in Schemas /\ n \in Written
  BY <1>1 DEF Schemas, Written
<1>4. n.rowVersion = schema.rowVersion + 1 /\ n.version = version /\ n.built = built
  OBVIOUS
<1>5. n \in written' /\ \A w \in written' : w \in written \/ w = n
  OBVIOUS
<1> HIDE DEF n
<1>6. written' \subseteq Written
  BY <1>1, <1>3, <1>5
<1>7. \A d \in Callers : /\ call[d].seen.rowVersion \in Nat /\ call[d].expected \in Nat
                         /\ call[d].seen.rowVersion <= schema.rowVersion
                         /\ call[d].expected <= call[d].seen.rowVersion
  BY <1>1 DEF IInv, VersionsGrow, Calls, Schemas
<1>8. \A d \in Callers :
        \/ call'[d].seen = NoSchema /\ call'[d].expected = 0
        \/ call'[d].seen = call[d].seen /\ call'[d].expected = call[d].expected
  OBVIOUS
<1>9. \A d \in Callers : /\ call'[d].seen.rowVersion < schema'.rowVersion
                         /\ call'[d].seen.rowVersion <= schema'.rowVersion
                         /\ call'[d].expected <= call'[d].seen.rowVersion
                         /\ call'[d].expected < schema'.rowVersion
                         /\ call'[d].seen.rowVersion # schema'.rowVersion
                         /\ schema'.rowVersion # call'[d].expected
  BY <1>1, <1>2, <1>7, <1>8 DEF NoSchema
<1>10. \A d \in Callers : call'[d].at \in {"migrate", "persist"} => call'[d].expected = call'[d].seen.version
  BY DEF IInv, VersionsGrow
<1>11. \A w \in written :
         /\ w.version \in Nat /\ w.rowVersion \in Nat /\ w.built \in BOOLEAN
         /\ 1 <= w.version /\ w.version <= schema.version
         /\ 1 <= w.rowVersion /\ w.rowVersion <= schema.rowVersion
         /\ w.built => w.version = w.rowVersion
         /\ ~w.built /\ w.rowVersion > 1 => schema.version < schema.rowVersion
  BY <1>1 DEF IInv, VersionsGrow, Written
<1>12. \A w \in written :
         /\ 1 <= w.version /\ w.version <= schema'.version
         /\ 1 <= w.rowVersion /\ w.rowVersion <= schema'.rowVersion
         /\ w.built => w.version = w.rowVersion
         /\ ~w.built /\ w.rowVersion > 1 => schema'.version < schema'.rowVersion
  <2> SUFFICES ASSUME NEW w \in written
               PROVE  /\ 1 <= w.version /\ w.version <= schema'.version
                      /\ 1 <= w.rowVersion /\ w.rowVersion <= schema'.rowVersion
                      /\ w.built => w.version = w.rowVersion
                      /\ ~w.built /\ w.rowVersion > 1 => schema'.version < schema'.rowVersion
    OBVIOUS
  <2>1. w.version <= schema'.version /\ w.rowVersion <= schema'.rowVersion
    BY <1>1, <1>2, <1>11
  <2>2. ASSUME ~w.built, w.rowVersion > 1 PROVE schema'.version < schema'.rowVersion
    BY <1>1, <1>2, <1>11, <2>2
  <2> QED
    BY <1>11, <2>1, <2>2
<1>13. /\ 1 <= n.version /\ n.version <= schema'.version
       /\ 1 <= n.rowVersion /\ n.rowVersion <= schema'.rowVersion
       /\ n.built => n.version = n.rowVersion
       /\ ~n.built /\ n.rowVersion > 1 => schema'.version < schema'.rowVersion
  BY <1>1, <1>2, <1>4
<1>14. VersionsGrow'
  <2>1. schema'.version <= schema'.rowVersion /\ schema'.rowVersion # 0 /\ 1 <= schema'.version
    BY <1>1, <1>2
  <2> QED
    BY <1>5, <1>9, <1>10, <1>12, <1>13, <2>1 DEF VersionsGrow
<1>15. \A w \in written : w.rowVersion < n.rowVersion
  BY <1>1, <1>4, <1>11
<1>16. \A v, w \in written' : v.rowVersion = w.rowVersion => v = w
  <2>1. \A v, w \in written : v.rowVersion = w.rowVersion => v = w
    BY DEF IInv, OneDefinitionPerVersion
  <2>2. \A w \in written : w.rowVersion # n.rowVersion
    BY <1>1, <1>4, <1>11
  <2> QED
    BY <1>5, <2>1, <2>2
<1>17. \A w \in written' : w.built => w.version = w.rowVersion
  BY <1>5, <1>12, <1>13
<1>18. OneDefinitionPerVersion'
  BY <1>16, <1>17 DEF OneDefinitionPerVersion
<1>19. NoDeployAfterSave'
  <2>1. SUFFICES ASSUME NEW v \in written', NEW w \in written', ~v.built, w.built, v.rowVersion > 1
                 PROVE  w.rowVersion < v.rowVersion
    BY DEF NoDeployAfterSave
  <2>2. CASE v \in written /\ w \in written
    BY <2>1, <2>2 DEF IInv, NoDeployAfterSave
  <2>3. CASE v = n
    BY <1>5, <1>15, <2>1, <2>3
  <2>4. CASE v \in written /\ w = n
    <3>1. schema.version < schema.rowVersion /\ schema.version = schema.rowVersion
      BY <1>4, <1>11, <2>1, <2>4
    <3> QED
      BY <1>1, <3>1
  <2> QED
    BY <1>5, <2>2, <2>3, <2>4
<1> QED
  BY <1>3, <1>6, <1>9, <1>14, <1>18, <1>19 DEF Matches

LEMMA InsertIInv ==
  ASSUME IInv, NEW c \in Callers, insert(c)
  PROVE  IInv'
<1>1. CASE schema = NoSchema
  <2>1. /\ schema' = First
        /\ written' = written \cup {[rowVersion |-> 1, version |-> 1, tables |-> Empty,
                                     built |-> FALSE]}
        /\ call[c].at = "insert" /\ (Finish(c) \/ Goto(c, "apply"))
        /\ UNCHANGED <<versions, db, begun, failures, drafted, stranded, lost>>
    BY <1>1 DEF insert
  <2>2. schema.rowVersion = 0 /\ schema.version = 0 /\ schema.rowVersion + 1 = 1
    BY <1>1 DEF NoSchema
  <2>3. schema' = [rowVersion |-> schema.rowVersion + 1, version |-> 1, tables |-> Empty]
    BY <2>1, <2>2 DEF First
  <2>4. Empty \in Definitions
    BY DEF Empty, Definitions, Shapes
  <2>5. /\ call' \in [Callers -> Calls]
        /\ \A d \in Callers \ {c} : call'[d] = call[d]
        /\ \/ call'[c] = Idle
           \/ /\ call'[c].at = "apply" /\ call'[c].seen = call[c].seen
              /\ call'[c].tables = call[c].tables /\ call'[c].of = call[c].of
              /\ call'[c].expected = call[c].expected
    BY <2>1, CallMoves, CallEnds DEF IInv
  <2>6. Idle.at = "idle" /\ Idle.seen = NoSchema /\ Idle.of = 0 /\ Idle.expected = 0
    BY DEF Idle
  <2>7. /\ schema' \in Schemas /\ written' \subseteq Written
        /\ VersionsGrow' /\ OneDefinitionPerVersion' /\ NoDeployAfterSave'
        /\ \A d \in Callers : ~Matches(d)'
    <3>1. written' = written \cup {[rowVersion |-> schema.rowVersion + 1, version |-> 1,
                                   tables |-> Empty, built |-> FALSE]}
      BY <2>1, <2>2
    <3>2. 1 <= 1 /\ schema.version <= 1 /\ 1 <= schema.rowVersion + 1 /\ 1 \in Nat /\ FALSE \in BOOLEAN
      BY <2>2
    <3>3. \/ call'[c].seen = NoSchema /\ call'[c].expected = 0
          \/ call'[c].seen = call[c].seen /\ call'[c].expected = call[c].expected
      BY <2>5, <2>6
    <3>4. call'[c].at \notin {"migrate", "persist"}
      BY <2>5, <2>6
    <3> QED
      BY <2>2, <2>3, <2>4, <2>5, <3>1, <3>2, <3>3, <3>4, WriteGrows
  <2>8. TypeOK'
    BY <2>1, <2>5, <2>7 DEF IInv, TypeOK
  <2>9. SnapshotsDue' /\ SnapshotsTrue' /\ HistoryComplete' /\ RollbackRestores'
    <3>1. SnapshotsDue'
      BY <2>1, <2>5, <2>6 DEF IInv, SnapshotsDue
    <3>2. SnapshotsTrue' /\ RollbackRestores'
      BY <2>1 DEF IInv, SnapshotsTrue, RollbackRestores
    <3>3. \A w \in written' : w.built => w \in written
      BY <2>1
    <3>4. HistoryComplete'
      BY <2>1, <2>5, <3>3 DEF IInv, HistoryComplete
    <3> QED
      BY <3>1, <3>2, <3>4
  <2>10. DeployUnderWay'
    <3>1. schema.tables = schema'.tables
      BY <1>1, <2>3 DEF NoSchema
    <3>2. call'[c].at # "persist" /\ call[c].at # "persist"
      BY <2>1, <2>5, <2>6
    <3> QED
      BY <2>1, <2>5, <2>7, <3>1, <3>2 DEF IInv, DeployUnderWay, Still, ExistsAs, Touched
  <2> QED
    BY <2>7, <2>8, <2>9, <2>10 DEF IInv
<1>2. CASE schema # NoSchema
  BY <1>2, FinishIInv DEF insert, ghosts
<1> QED
  BY <1>1, <1>2

LEMMA ApplyTemplateIInv ==
  ASSUME IInv, NEW c \in Callers, applyTemplate(c)
  PROVE  IInv'
<1>1. CASE schema.version = 1
  <2> DEFINE k == [call[c] EXCEPT !.at = "migrate", !.seen = schema, !.expected = 1]
  <2>1. call \in [Callers -> Calls] /\ call[c] \in Calls /\ schema \in Schemas /\ failures \in Nat
    BY BoundsAssumption DEF IInv, TypeOK
  <2>2. call' = [call EXCEPT ![c] = k] /\ call[c].at = "apply"
        /\ UNCHANGED <<schema, versions, db, begun, failures, ghosts>>
    BY <1>1 DEF applyTemplate
  <2>3. k \in Calls /\ k.at = "migrate" /\ k.seen = schema /\ k.of = call[c].of
        /\ k.tables = call[c].tables /\ k.expected = 1
    BY <2>1 DEF Calls
  <2> HIDE DEF k
  <2>4. call'[c] = k /\ \A d \in Callers \ {c} : call'[d] = call[d]
    BY <2>1, <2>2
  <2>5. TypeOK'
    BY <2>1, <2>2, <2>3 DEF IInv, TypeOK, ghosts
  <2>6. call[c].of # 0 =>
          \E o \in versions : o.version = call[c].of /\ o.tables = call[c].tables
    BY DEF IInv, SnapshotsDue
  <2>7. schema.rowVersion \in Nat /\ 1 <= schema.rowVersion
    BY <1>1, <2>1 DEF IInv, VersionsGrow, Schemas
  <2> QED
    BY <1>1, <2>2, <2>3, <2>4, <2>5, <2>6, <2>7, CallChanges
<1>2. CASE schema.version # 1
  BY <1>2, FinishIInv DEF applyTemplate
<1> QED
  BY <1>1, <1>2

LEMMA SaveIInv ==
  ASSUME IInv, NEW c \in Callers, save(c)
  PROVE  IInv'
<1> USE DEF ghosts
<1>1. CASE ~Matches(c)
  BY <1>1, FinishIInv DEF save
<1>2. CASE Matches(c)
  <2>1. /\ Write(c, schema.version) /\ call[c].at = "save" /\ Finish(c)
        /\ drafted' = drafted \cup {t \in Tables : call[c].tables[t] # schema.tables[t]}
        /\ UNCHANGED <<versions, db, begun, failures, stranded, lost>>
    BY <1>2 DEF save
  <2>2. schema \in Schemas /\ call[c] \in Calls /\ call[c].tables \in Definitions
        /\ schema.version \in Nat /\ schema.rowVersion \in Nat /\ schema.tables \in Definitions
    BY DEF IInv, TypeOK, Schemas, Calls
  <2>3. /\ call' \in [Callers -> Calls] /\ call'[c] = Idle
        /\ \A d \in Callers \ {c} : call'[d] = call[d]
    BY <2>1, CallEnds DEF IInv
  <2>4. Idle.at = "idle" /\ Idle.seen = NoSchema /\ Idle.of = 0 /\ Idle.expected = 0
    BY DEF Idle
  <2>5. /\ schema' = [rowVersion |-> schema.rowVersion + 1, version |-> schema.version,
                      tables |-> call[c].tables]
        /\ written' = written \cup {[rowVersion |-> schema.rowVersion + 1,
                      version |-> schema.version, tables |-> call[c].tables, built |-> FALSE]}
    BY <2>1 DEF Write
  <2>6. 1 <= schema.version /\ schema.version <= schema.version
        /\ schema.version <= schema.rowVersion + 1 /\ schema.version < schema.rowVersion + 1
    <3>1. schema.version <= schema.rowVersion
      BY DEF IInv, VersionsGrow
    <3>2. 1 <= schema.version
      BY <2>1 DEF IInv, VersionsGrow
    <3> QED
      BY <2>2, <3>1, <3>2
  <2>7. /\ schema' \in Schemas /\ written' \subseteq Written
        /\ VersionsGrow' /\ OneDefinitionPerVersion' /\ NoDeployAfterSave'
        /\ \A d \in Callers : ~Matches(d)'
    BY <2>2, <2>3, <2>4, <2>5, <2>6, WriteGrows
  <2>8. drafted' \subseteq Tables /\ drafted \subseteq drafted'
    BY <2>1 DEF IInv, TypeOK
  <2>9. TypeOK'
    BY <2>1, <2>3, <2>7, <2>8 DEF IInv, TypeOK
  <2>10. SnapshotsDue'
    BY <2>1, <2>3, <2>4, <2>5 DEF IInv, SnapshotsDue
  <2>11. SnapshotsTrue' /\ RollbackRestores'
    BY <2>1, <2>5 DEF IInv, SnapshotsTrue, RollbackRestores
  <2>12. HistoryComplete'
    <3>1. \A w \in written' : w.built => w \in written
      BY <2>5
    <3> QED
      BY <2>1, <2>3, <3>1 DEF IInv, HistoryComplete
  <2>13. DeployUnderWay'
    <3>1. SUFFICES ASSUME NEW t \in Tables \ (drafted' \cup stranded'), Still(t)'
                   PROVE  ExistsAs(t, schema.tables)'
      BY <2>7 DEF DeployUnderWay
    <3>2. schema.tables[t] = schema'.tables[t] /\ t \notin drafted \cup stranded
      BY <2>1, <2>5, <3>1
    <3>3. Still(t)
      BY <2>1, <2>3, <3>1 DEF Still, Touched
    <3> QED
      BY <2>1, <3>1, <3>2, <3>3 DEF IInv, DeployUnderWay, ExistsAs
  <2> QED
    BY <2>7, <2>9, <2>10, <2>11, <2>12, <2>13 DEF IInv
<1> QED
  BY <1>1, <1>2

-----------------------------------------------------------------------------
\* What the statements of a plan build is the definition they were planned for,
\* from the definition that was read; what the plan does not touch stays.
LEMMA BuildsWhatWasProposed ==
  ASSUME TypeOK, NEW c \in Callers, Runs(call[c]), NEW t \in Tables,
         db' = Built(call[c])
  PROVE  /\ ExistsAs(t, call[c].seen.tables) =>
              IF call[c].tables[t] = "none" THEN db'[t] = "none"
                                            ELSE db'[t] \in {call[c].tables[t], "bare"}
         /\ t \notin Touched(call[c]) => db'[t] = db[t]
<1> DEFINE k == call[c]
<1>1. k \in Calls /\ k.seen.tables \in Definitions /\ k.tables \in Definitions
  BY DEF TypeOK, Calls, Schemas
<1>3. k.seen.tables[t] \in {"none", "narrow", "wide"} /\ k.tables[t] \in {"none", "narrow", "wide"}
  BY <1>1 DEF Definitions, Shapes
<1>4. t \notin Widens(k)
  BY DEF Runs
<1>6. db'[t] = CASE t \in Drops(k) -> "none"
                 [] t \in Creates(k) -> IF k.op = "rollback" THEN "bare" ELSE k.tables[t]
                 [] t \in Narrows(k) -> "narrow"
                 [] OTHER -> db[t]
  BY DEF Built
<1>7. t \notin Touched(k) => db'[t] = db[t]
  BY <1>3, <1>6 DEF Drops, Creates, Narrows, Touched
<1>8. ASSUME ExistsAs(t, k.seen.tables)
      PROVE  IF k.tables[t] = "none" THEN db'[t] = "none" ELSE db'[t] \in {k.tables[t], "bare"}
  <2>1. IF k.seen.tables[t] = "none" THEN db[t] = "none" ELSE db[t] \in {k.seen.tables[t], "bare"}
    BY <1>8 DEF ExistsAs
  <2>2. CASE k.seen.tables[t] = "none"
    BY <1>3, <1>6, <2>1, <2>2 DEF Drops, Creates, Narrows
  <2>3. CASE k.seen.tables[t] # "none" /\ k.tables[t] = "none"
    BY <1>3, <1>6, <2>3 DEF Drops, Creates, Narrows
  <2>4. CASE k.seen.tables[t] # "none" /\ k.tables[t] # "none"
    BY <1>3, <1>4, <1>6, <2>1, <2>4 DEF Drops, Creates, Narrows, Widens
  <2> QED
    BY <2>2, <2>3, <2>4
<1> QED
  BY <1>7, <1>8

LEMMA MigrateIInv ==
  ASSUME IInv, NEW c \in Callers, migrate(c)
  PROVE  IInv'
<1> USE DEF ghosts
<1>1. CASE ~Runs(call[c])
  BY <1>1, FinishIInv DEF migrate
<1>2. CASE Runs(call[c])
  <2>1. /\ db' = Built(call[c]) /\ Goto(c, "persist") /\ call[c].at = "migrate"
        /\ UNCHANGED <<schema, versions, begun, failures, ghosts>>
    BY <1>2 DEF migrate
  <2>2. /\ call' \in [Callers -> Calls]
        /\ \A d \in Callers \ {c} : call'[d] = call[d]
        /\ call'[c].at = "persist" /\ call'[c].seen = call[c].seen
        /\ call'[c].tables = call[c].tables /\ call'[c].of = call[c].of
        /\ call'[c].expected = call[c].expected
    BY <2>1, CallMoves DEF IInv
  <2>3. call[c] \in Calls /\ db \in [Tables -> Shapes \cup {"bare"}]
    BY DEF IInv, TypeOK
  <2>4. db' \in [Tables -> Shapes \cup {"bare"}]
    <3>1. call[c].tables \in [Tables -> Shapes]
      BY <2>3 DEF Calls, Definitions
    <3> QED
      BY <2>1, <2>3, <3>1 DEF Built, Shapes
  <2>5. TypeOK'
    BY <2>1, <2>2, <2>4 DEF IInv, TypeOK
  <2>6. VersionsGrow'
    BY <2>1, <2>2 DEF IInv, VersionsGrow
  <2>7. /\ OneDefinitionPerVersion' /\ NoDeployAfterSave' /\ SnapshotsTrue' /\ RollbackRestores'
        /\ SnapshotsDue' /\ HistoryComplete'
    BY <2>1, <2>2 DEF IInv, OneDefinitionPerVersion, NoDeployAfterSave, SnapshotsTrue,
           RollbackRestores, SnapshotsDue, HistoryComplete
  <2>8. DeployUnderWay'
    <3>1. SUFFICES ASSUME NEW t \in Tables \ (drafted \cup stranded)
                   PROVE  /\ Still(t)' => ExistsAs(t, schema.tables)'
                          /\ \A d \in Callers :
                               call'[d].at = "persist" /\ Matches(d)' /\ StillBut(d, t)'
                                 => ExistsAs(t, call[d].tables)'
      BY <2>1 DEF DeployUnderWay
    <3>2. Touched(call'[c]) = Touched(call[c]) /\ \A d \in Callers : call'[d].tables = call[d].tables
      BY <2>2 DEF Touched
    <3>3. CASE t \in Touched(call[c])
      <4>1. ~Still(t)' /\ \A d \in Callers \ {c} : ~StillBut(d, t)'
        BY <2>2, <3>2, <3>3 DEF Still, StillBut
      <4>2. ASSUME Matches(c)', StillBut(c, t)' PROVE ExistsAs(t, call[c].tables)'
        <5>1. Still(t) /\ Matches(c)
          BY <2>1, <2>2, <4>2 DEF Still, StillBut, Matches, Touched
        <5>2. call[c].seen = schema
          BY <5>1, SeenIsRow
        <5>3. ExistsAs(t, call[c].seen.tables)
          BY <5>1, <5>2 DEF IInv, DeployUnderWay
        <5> QED
          BY <1>2, <2>1, <2>2, <5>3, BuildsWhatWasProposed DEF IInv, ExistsAs
      <4> QED
        BY <4>1, <4>2
    <3>4. CASE t \notin Touched(call[c])
      <4>1. db'[t] = db[t]
        BY <1>2, <2>1, <3>4, BuildsWhatWasProposed DEF IInv
      <4>2. Still(t)' => Still(t)
        BY <2>1, <2>2 DEF Still, Touched
      <4>3. ASSUME NEW d \in Callers \ {c}, StillBut(d, t)' PROVE StillBut(d, t)
        BY <2>1, <2>2, <4>3 DEF StillBut, Touched
      <4>4. \A d \in Callers \ {c} :
              call'[d].at = "persist" /\ Matches(d)' /\ StillBut(d, t)' => ExistsAs(t, call[d].tables)'
        BY <2>1, <2>2, <4>1, <4>3 DEF IInv, DeployUnderWay, ExistsAs, Matches
      <4>5. ASSUME Matches(c)', StillBut(c, t)' PROVE ExistsAs(t, call[c].tables)'
        <5>1. Still(t) /\ Matches(c)
          BY <2>1, <2>2, <4>5 DEF Still, StillBut, Matches, Touched
        <5>2. call[c].seen = schema
          BY <5>1, SeenIsRow
        <5>3. ExistsAs(t, schema.tables) /\ schema.tables[t] = call[c].tables[t]
          BY <3>4, <5>1, <5>2 DEF IInv, DeployUnderWay, Touched
        <5> QED
          BY <2>2, <4>1, <5>3 DEF ExistsAs
      <4> QED
        BY <2>1, <4>1, <4>2, <4>4, <4>5 DEF IInv, DeployUnderWay, ExistsAs
    <3> QED
      BY <3>3, <3>4
  <2> QED
    BY <2>5, <2>6, <2>7, <2>8 DEF IInv
<1> QED
  BY <1>1, <1>2

LEMMA PersistIInv ==
  ASSUME IInv, NEW c \in Callers, persist(c)
  PROVE  IInv'
<1>1. CASE ~Matches(c)
  <2>1. /\ Finish(c) /\ stranded' = stranded \cup Touched(call[c]) /\ call[c].at = "persist"
        /\ UNCHANGED <<schema, versions, db, begun, failures, drafted, written, lost>>
    BY <1>1 DEF persist
  <2>2. TypeOK'
    <3>1. call' \in [Callers -> Calls]
      BY <2>1, CallEnds DEF IInv
    <3> QED
      BY <2>1, <3>1 DEF IInv, TypeOK, Touched
  <2>3. SnapshotsDue' /\ HistoryComplete'
    <3>1. call'[c] = Idle /\ \A d \in Callers \ {c} : call'[d] = call[d]
      BY <2>1, CallEnds DEF IInv
    <3>2. Idle.at = "idle" /\ Idle.of = 0
      BY DEF Idle
    <3> QED
      BY <2>1, <3>1, <3>2 DEF IInv, SnapshotsDue, HistoryComplete
  <2>4. SnapshotsTrue' /\ RollbackRestores'
    BY <2>1 DEF IInv, SnapshotsTrue, RollbackRestores
  <2> QED
    BY <2>1, <2>2, <2>3, <2>4, EndsIInv
<1>2. CASE Matches(c)
  <2>1. /\ Write(c, call[c].seen.version + 1) /\ call[c].at = "persist" /\ Goto(c, "snapshot")
        /\ UNCHANGED <<versions, db, begun, failures, drafted, stranded, lost>>
    BY <1>2 DEF persist
  <2>2. schema \in Schemas /\ call[c] \in Calls /\ call[c].tables \in Definitions
        /\ schema.version \in Nat /\ schema.rowVersion \in Nat /\ schema.tables \in Definitions
        /\ schema.version + 1 \in Nat
    BY DEF IInv, TypeOK, Schemas, Calls
  <2>3. /\ call' \in [Callers -> Calls]
        /\ \A d \in Callers \ {c} : call'[d] = call[d]
        /\ call'[c].at = "snapshot" /\ call'[c].seen = call[c].seen
        /\ call'[c].tables = call[c].tables /\ call'[c].of = call[c].of
        /\ call'[c].expected = call[c].expected
    BY <2>1, CallMoves DEF IInv
  <2>4. call[c].seen = schema /\ schema.version = schema.rowVersion
    <3>1. call[c].seen = schema
      BY <1>2, SeenIsRow
    <3> QED
      BY <1>2, <2>1, <3>1 DEF IInv, VersionsGrow, Matches
  <2>5. schema.version + 1 # schema.version
    BY <2>2
  <2>6. /\ schema' = [rowVersion |-> schema.rowVersion + 1, version |-> schema.version + 1,
                      tables |-> call[c].tables]
        /\ written' = written \cup {[rowVersion |-> schema.rowVersion + 1,
                      version |-> schema.version + 1, tables |-> call[c].tables, built |-> TRUE]}
    BY <2>1, <2>4, <2>5 DEF Write
  <2>7. /\ 1 <= schema.version + 1 /\ schema.version <= schema.version + 1
        /\ schema.version + 1 <= schema.rowVersion + 1 /\ TRUE \in BOOLEAN
        /\ schema.version + 1 = schema.rowVersion + 1
    BY <2>2, <2>4
  <2>8. /\ schema' \in Schemas /\ written' \subseteq Written
        /\ VersionsGrow' /\ OneDefinitionPerVersion' /\ NoDeployAfterSave'
        /\ \A d \in Callers : ~Matches(d)'
    BY <2>2, <2>3, <2>4, <2>6, <2>7, WriteGrows
  <2>9. TypeOK'
    BY <2>1, <2>3, <2>8 DEF IInv, TypeOK
  <2>10. SnapshotsDue'
    <3>1. \E w \in written' : w.built /\ w.version = call'[c].seen.version + 1
                              /\ w.tables = call'[c].tables
      <4> DEFINE n == [rowVersion |-> schema.rowVersion + 1, version |-> schema.version + 1,
                       tables |-> call[c].tables, built |-> TRUE]
      <4>1. n \in written' /\ n.built /\ n.version = schema.version + 1 /\ n.tables = call[c].tables
        BY <2>6
      <4> QED
        BY <2>3, <2>4, <4>1
    <3>2. \A d \in Callers \ {c} : call'[d].at = "snapshot" =>
            \E w \in written' : w.built /\ w.version = call'[d].seen.version + 1
                                /\ w.tables = call'[d].tables
      BY <2>3, <2>6 DEF IInv, SnapshotsDue
    <3>3. \A d \in Callers : call'[d].of = call[d].of /\ call'[d].tables = call[d].tables
      BY <2>3
    <3> QED
      BY <2>1, <3>1, <3>2, <3>3 DEF IInv, SnapshotsDue
  <2>11. SnapshotsTrue' /\ RollbackRestores'
    BY <2>1, <2>6 DEF IInv, SnapshotsTrue, RollbackRestores
  <2>12. HistoryComplete'
    <3>1. \A w \in written' : w \in written \/ w.version = call'[c].seen.version + 1
      BY <2>3, <2>4, <2>6
    <3>2. \A w \in written : w.built =>
            \/ \E s \in versions' : s.version = w.version
            \/ \E d \in Callers : call'[d].at = "snapshot" /\ call'[d].seen.version + 1 = w.version
            \/ w.version \in lost'
      BY <2>1, <2>3 DEF IInv, HistoryComplete
    <3> QED
      BY <2>3, <3>1, <3>2 DEF HistoryComplete
  <2>13. DeployUnderWay'
    <3>1. SUFFICES ASSUME NEW t \in Tables \ (drafted \cup stranded), Still(t)'
                   PROVE  ExistsAs(t, schema.tables)'
      BY <2>1, <2>8 DEF DeployUnderWay
    <3>2. StillBut(c, t)
      BY <2>1, <2>3, <3>1 DEF Still, StillBut, Touched
    <3>3. ExistsAs(t, call[c].tables)
      BY <1>2, <2>1, <3>1, <3>2 DEF IInv, DeployUnderWay
    <3>4. schema'.tables = call[c].tables /\ db' = db
      BY <2>1, <2>6
    <3> QED
      BY <3>3, <3>4 DEF ExistsAs
  <2> QED
    BY <2>8, <2>9, <2>10, <2>11, <2>12, <2>13 DEF IInv
<1> QED
  BY <1>1, <1>2

LEMMA RecordVersionIInv ==
  ASSUME IInv, NEW c \in Callers, recordVersion(c)
  PROVE  IInv'
<1> DEFINE s == Taken(call[c])
<1>1. /\ call[c].at = "snapshot" /\ Finish(c)
      /\ \/ versions' = versions /\ \E o \in versions : o.version = s.version
         \/ versions' = versions \cup {s}
      /\ UNCHANGED <<schema, db, begun, failures, written, drafted, stranded, lost>>
  BY DEF recordVersion, ghosts
<1>2. /\ call' \in [Callers -> Calls] /\ call'[c] = Idle
      /\ \A d \in Callers \ {c} : call'[d] = call[d]
  BY <1>1, CallEnds DEF IInv
<1>3. Idle.at = "idle" /\ Idle.of = 0
  BY DEF Idle
<1>4. call[c] \in Calls /\ call[c].tables \in Definitions /\ call[c].of \in Nat
      /\ call[c].seen.version + 1 \in Nat
  BY DEF IInv, TypeOK, Calls, Schemas
<1>5. s \in Snapshots /\ s.version = call[c].seen.version + 1 /\ s.tables = call[c].tables
      /\ s.of = call[c].of
  BY <1>4 DEF Taken, Snapshots
<1> HIDE DEF s
<1>6. /\ versions \subseteq versions' /\ \A v \in versions' : v \in versions \/ v = s
      /\ \E o \in versions' : o.version = s.version
  BY <1>1
<1>7. TypeOK'
  BY <1>1, <1>2, <1>5, <1>6 DEF IInv, TypeOK
<1>9. SnapshotsDue'
  BY <1>1, <1>2, <1>3, <1>6 DEF IInv, SnapshotsDue
<1>10. SnapshotsTrue'
  BY <1>1, <1>5, <1>6 DEF IInv, SnapshotsDue, SnapshotsTrue
<1>11. RollbackRestores'
  <2>2. s.of # 0 => \E o \in versions : o.version = s.of /\ o.tables = s.tables
    BY <1>5 DEF IInv, SnapshotsDue
  <2>3. \A v \in versions : v.of # 0 => \E o \in versions : o.version = v.of /\ o.tables = v.tables
    BY DEF IInv, RollbackRestores
  <2> QED
    BY <1>6, <2>2, <2>3 DEF RollbackRestores
<1>12. HistoryComplete'
  BY <1>1, <1>2, <1>5, <1>6 DEF IInv, HistoryComplete
<1> QED
  BY <1>1, <1>7, <1>9, <1>10, <1>11, <1>12, EndsIInv

LEMMA StopsIInv ==
  ASSUME IInv, NEW c \in Callers, stops(c)
  PROVE  IInv'
<1>1. /\ call[c].at # "idle" /\ failures < MaxFailures /\ failures' = failures + 1
      /\ stranded' = stranded \cup IF call[c].at = "persist" THEN Touched(call[c]) ELSE {}
      /\ lost' = lost \cup IF call[c].at = "snapshot" THEN {call[c].seen.version + 1} ELSE {}
      /\ Finish(c)
      /\ UNCHANGED <<schema, versions, db, begun, written, drafted>>
  BY DEF stops
<1>2. /\ call' \in [Callers -> Calls] /\ call'[c] = Idle
      /\ \A d \in Callers \ {c} : call'[d] = call[d]
  BY <1>1, CallEnds DEF IInv
<1>3. Idle.at = "idle" /\ Idle.of = 0
  BY DEF Idle
<1>4. failures \in 0..MaxFailures /\ MaxFailures \in Nat /\ call[c].seen.version + 1 \in Nat
  BY BoundsAssumption DEF IInv, TypeOK, Calls, Schemas
<1>5. failures' \in 0..MaxFailures
  BY <1>1, <1>4
<1>6. TypeOK'
  BY <1>1, <1>2, <1>4, <1>5 DEF IInv, TypeOK, Touched
<1>7. SnapshotsDue' /\ SnapshotsTrue' /\ RollbackRestores'
  BY <1>1, <1>2, <1>3 DEF IInv, SnapshotsDue, SnapshotsTrue, RollbackRestores
<1>8. HistoryComplete'
  <2>1. SUFFICES ASSUME NEW w \in written, w.built
                 PROVE  \/ \E s \in versions : s.version = w.version
                        \/ \E d \in Callers : call'[d].at = "snapshot" /\ call'[d].seen.version + 1 = w.version
                        \/ w.version \in lost'
    BY <1>1 DEF HistoryComplete
  <2>2. lost \subseteq lost'
    BY <1>1
  <2>3. \A d \in Callers : call[d].at = "snapshot" =>
          call'[d] = call[d] \/ call[d].seen.version + 1 \in lost'
    BY <1>1, <1>2
  <2> QED
    BY <2>1, <2>2, <2>3 DEF IInv, HistoryComplete
<1> QED
  BY <1>1, <1>6, <1>7, <1>8, EndsIInv
-----------------------------------------------------------------------------
LEMMA StepIInv ==
  ASSUME IInv, [Next]_vars
  PROVE  IInv'
<1>1. CASE UNCHANGED vars
  BY <1>1 DEF vars, IInv, TypeOK, VersionsGrow, SnapshotsDue, DeployUnderWay, ExistsAs, Matches,
     Still, StillBut, Touched, OneDefinitionPerVersion, NoDeployAfterSave, SnapshotsTrue,
     HistoryComplete, RollbackRestores
<1>2. ASSUME NEW c \in Callers, Step(c) PROVE IInv'
  BY <1>2, BeginIInv, InsertIInv, ApplyTemplateIInv, SaveIInv, MigrateIInv, PersistIInv,
     RecordVersionIInv, StopsIInv DEF Step
<1> QED
  BY <1>1, <1>2 DEF Next

LEMMA Invariant == Spec => []IInv
BY InitIInv, StepIInv, PTL DEF Spec

\* Types, for every value of the constants.
THEOREM TypeCorrect == Spec => []TypeOK
BY Invariant, PTL DEF IInv

\* A version names one deployed definition, nothing is deployed after a save,
\* snapshots are of what was deployed, every deploy has one unless it was cut off,
\* and a rollback has the tables of the version it went back to.
THEOREM HistoryAlwaysTrue == Spec => []HistoryTrue
<1>1. IInv => HistoryTrue
  BY DEF IInv, HistoryTrue
<1> QED
  BY <1>1, Invariant, PTL

\* A table that neither a save nor a deploy that failed has touched exists as the
\* row records it, however many deploys run at one time.
THEOREM DeployedAlwaysAsRecorded == Spec => []DeployedAsRecorded
<1>1. IInv => DeployedAsRecorded
  BY DEF IInv, DeployUnderWay, DeployedAsRecorded, Still
<1> QED
  BY <1>1, Invariant, PTL

\* Whoever writes the row had read the very row that is replaced.
THEOREM NothingEverOverwritten == Spec => NothingOverwritten
<1> DEFINE Kept == \A c \in Callers :
      (schema' # schema /\ call'[c] # call[c] /\ call[c].at # "insert") => call[c].seen = schema
<1>1. ASSUME IInv, [Next]_vars PROVE Kept
  <2>1. SUFFICES ASSUME NEW c \in Callers, schema' # schema, call'[c] # call[c],
                        call[c].at # "insert"
                 PROVE  Matches(c)
    BY <1>1, SeenIsRow
  <2>2. PICK d \in Callers : Step(d)
    BY <1>1, <2>1 DEF Next, vars
  <2>3. (insert(d) \/ save(d) \/ persist(d)) /\ schema' # schema
    BY <2>1, <2>2 DEF Step, createSchema, updateSchema, deleteSchema, applyChanges,
       rollbackToVersion, Take, applyTemplate, migrate, recordVersion, stops
  <2>4. call' = [call EXCEPT ![d] = call'[d]] /\ call \in [Callers -> Calls]
    BY <1>1, <2>3 DEF IInv, TypeOK, insert, save, persist, Finish, Goto
  <2>5. c = d
    BY <2>1, <2>4
  <2> QED
    BY <2>1, <2>3, <2>5 DEF insert, save, persist
<1>2. Spec => [][Kept]_vars
  BY <1>1, Invariant, PTL DEF Spec
<1> QED
  BY <1>2 DEF NothingOverwritten

-----------------------------------------------------------------------------
(***************************************************************************)
(* Upgrade.                                                                *)
(***************************************************************************)
\* What a history is once the command under way has had its turn on it.
Effective(d) ==
  IF d \notin left THEN rows[d]
  ELSE IF pc = "record" THEN Append(rows[d], code) ELSE Without(rows[d])

Skew      == \A d, e \in Dbs : Len(Effective(d)) <= Len(Effective(e)) + faults
Agreement == faults = 0 => \A d, e \in Dbs : Effective(d) = Effective(e)

\* What is admitted stays admitted while it is recorded, and afterwards.
Quiet   == pc # "idle" => answer = "none"
Pending == pc = "record" \/ answer = "recordFailed" => Admitted(code)
RecordedSoFar ==
  /\ pc = "record" => \A d \in Dbs \ (left \cup failed) : rows[d] # <<>> /\ current(d) = code
  /\ OkMeansEverywhere

UpgradeInv == UpgradeTypeOK /\ Quiet /\ Pending /\ RecordedSoFar /\ FirstInWindow

-----------------------------------------------------------------------------
\* Removing the last row of a history.
LEMMA WithoutProperties ==
  ASSUME NEW S, NEW s \in Seq(S)
  PROVE  /\ Without(s) \in Seq(S)
         /\ Len(Without(s)) = (IF s = <<>> THEN 0 ELSE Len(s) - 1)
         /\ \A i \in 1 .. Len(Without(s)) : Without(s)[i] = s[i]
<1>1. CASE s = <<>>
  BY <1>1 DEF Without
<1>2. CASE s # <<>>
  <2>1. Len(s) \in Nat \ {0}
    BY <1>2
  <2>2. Without(s) = SubSeq(s, 1, Len(s) - 1)
    BY <1>2 DEF Without
  <2> DEFINE n == Len(s) - 1
  <2>3. n \in Nat /\ n \in Int /\ 1 \in Int /\ \A i \in 1 .. n : s[i] \in S
    BY <2>1
  <2> HIDE DEF n
  <2>4. /\ SubSeq(s, 1, n) \in Seq(S)
        /\ Len(SubSeq(s, 1, n)) = IF 1 <= n THEN n - 1 + 1 ELSE 0
        /\ \A i \in 1 .. n - 1 + 1 : SubSeq(s, 1, n)[i] = s[1 + i - 1]
    BY <2>3, SubSeqProperties
  <2>5. n - 1 + 1 = n /\ \A i \in 1 .. n : 1 + i - 1 = i
    BY <2>3
  <2>6. Len(SubSeq(s, 1, n)) = n /\ \A i \in 1 .. n : SubSeq(s, 1, n)[i] = s[i]
    BY <2>3, <2>4, <2>5
  <2> QED
    BY <1>2, <2>2, <2>4, <2>6 DEF n
<1> QED
  BY <1>1, <1>2

LEMMA ReleaseType ==
  ASSUME NEW v \in Releases
  PROVE  v.major \in Nat /\ v.minor \in Nat /\ v.patch \in Nat
BY ReleasesAssumption

LEMMA InitUpgradeInv == UpgradeInit => UpgradeInv
BY DatabasesAssumption DEF UpgradeInit, UpgradeInv, UpgradeTypeOK, Dbs, Answers, Quiet, Pending, RecordedSoFar,
   OkMeansEverywhere, FirstInWindow

LEMMA DbOne == 1 \in Dbs
BY DatabasesAssumption DEF Dbs

\* A version is compatible with itself.
LEMMA SameIsCompatible ==
  ASSUME NEW v \in Releases PROVE checkCompatibility(v, v)
BY ReleaseType DEF checkCompatibility, Older

\* checkCompatibility is the window of ADR-0137.
LEMMA CompatibleIsWindow ==
  ASSUME NEW v \in Releases, NEW w \in Releases, checkCompatibility(v, w)
  PROVE  \/ v.major + 1 = w.major
         \/ v.major = w.major /\ v.minor < w.minor /\ w.minor - v.minor <= 2
         \/ v.major = w.major /\ v.minor = w.minor /\ v.patch <= w.patch
BY ReleaseType DEF checkCompatibility, Older

-----------------------------------------------------------------------------
LEMMA UpgradeStepInv ==
  ASSUME UpgradeInv, NEW to \in Releases, NEW opts \in Options, upgrade(to, opts)
  PROVE  UpgradeInv'
<1>1. rows' = rows /\ failed' = failed /\ faults' = faults /\ code' = to /\ pc = "idle"
  BY DEF upgrade, Start, End
<1>2. \/ pc' = "idle" /\ left' = left /\ answer' \in {"failed", "refused", "planned"}
      \/ pc' = "record" /\ left' = Dbs /\ answer' = "none" /\ Admitted(to)
  BY DEF upgrade, Start, End
<1>3. UpgradeTypeOK'
  BY <1>1, <1>2 DEF UpgradeInv, UpgradeTypeOK, Answers
<1>4. Quiet' /\ Pending' /\ RecordedSoFar' /\ FirstInWindow'
  BY <1>1, <1>2 DEF UpgradeInv, Quiet, Pending, Admitted, current, RecordedSoFar, OkMeansEverywhere,
     FirstInWindow
<1> QED
  BY <1>3, <1>4 DEF UpgradeInv

\* What a recorded row does to the history of a database.
LEMMA RecordRows ==
  ASSUME UpgradeTypeOK, NEW d \in Dbs, record(d)
  PROVE  /\ rows' = rows \/ rows' = [rows EXCEPT ![d] = Append(rows[d], code)]
         /\ d \notin failed' => rows' = [rows EXCEPT ![d] = Append(rows[d], code)]
         /\ failed \subseteq failed'
         /\ failed' \subseteq failed \cup {d}
         /\ faults' \in faults .. faults + 1 /\ faults' \in 0 .. MaxFaults
BY DatabasesAssumption DEF record, UpgradeTypeOK

LEMMA RecordInv ==
  ASSUME UpgradeInv, NEW d \in Dbs, record(d) PROVE UpgradeInv'
<1>1. /\ pc = "record" /\ pc' = pc /\ code' = code /\ answer' = answer
      /\ left' = left \ {d} /\ d \in left
  BY DEF record
<1>2. code \in Releases /\ rows \in [Dbs -> Seq(Releases)]
  BY DEF UpgradeInv, UpgradeTypeOK
<1>3. UpgradeTypeOK'
  <2>1. Append(rows[d], code) \in Seq(Releases)
    BY <1>2
  <2>2. rows' \in [Dbs -> Seq(Releases)]
    BY <1>2, <2>1, RecordRows DEF UpgradeInv
  <2>3. left' \subseteq Dbs /\ failed' \subseteq Dbs /\ faults' \in 0 .. MaxFaults
    BY <1>1, RecordRows DEF UpgradeInv, UpgradeTypeOK
  <2> QED
    BY <1>1, <2>2, <2>3 DEF UpgradeInv, UpgradeTypeOK
<1>4. \A e \in Dbs : e # d => rows'[e] = rows[e]
  BY <1>2, RecordRows DEF UpgradeInv
<1>5. d \notin failed' => rows'[d] # <<>> /\ rows'[d][Len(rows'[d])] = code
  <2>1. d \notin failed' => rows'[d] = Append(rows[d], code)
    BY <1>2, RecordRows DEF UpgradeInv
  <2>2. rows[d] \in Seq(Releases)
    BY <1>2
  <2> QED
    BY <1>2, <2>1, <2>2
<1>6. answer = "none"
  BY <1>1 DEF UpgradeInv, Quiet
<1>7. RecordedSoFar'
  BY <1>1, <1>4, <1>5, <1>6, RecordRows DEF UpgradeInv, RecordedSoFar, current, OkMeansEverywhere
<1>8. rows'[1] = rows[1] \/ rows'[1] = Append(rows[1], code)
  BY <1>2, DbOne, RecordRows DEF UpgradeInv
<1>9. rows[1] \in Seq(Releases) /\ Admitted(code)
  BY <1>1, <1>2, DbOne DEF UpgradeInv, Pending
<1>10. Admitted(code)'
  <2>1. CASE rows'[1] = rows[1]
    BY <1>1, <1>9, <2>1 DEF Admitted, current
  <2>2. CASE rows'[1] = Append(rows[1], code)
    BY <1>1, <1>2, <1>9, <2>2, SameIsCompatible DEF Admitted, current
  <2> QED
    BY <1>8, <2>1, <2>2
<1>11. FirstInWindow'
  <2>1. CASE rows'[1] = rows[1]
    BY <2>1 DEF UpgradeInv, FirstInWindow
  <2>2. CASE rows'[1] = Append(rows[1], code)
    <3> DEFINE s == rows[1]
               t == rows'[1]
    <3>1. /\ s \in Seq(Releases) /\ t = Append(s, code)
          /\ Len(s) \in Nat /\ Len(t) = Len(s) + 1
          /\ t[Len(t)] = code /\ \A i \in 1 .. Len(s) : t[i] = s[i] /\ s[i] \in Releases
      BY <1>2, <1>9, <2>2
    <3>2. Len(s) # 0 => checkCompatibility(s[Len(s)], code)
      BY <1>9, <3>1 DEF Admitted, current
    <3> HIDE DEF s, t
    <3>3. SUFFICES ASSUME NEW i \in 1 .. Len(t) - 1
                   PROVE  \/ t[i].major + 1 = t[i + 1].major
                          \/ /\ t[i].major = t[i + 1].major /\ t[i].minor < t[i + 1].minor
                             /\ t[i + 1].minor - t[i].minor <= 2
                          \/ /\ t[i].major = t[i + 1].major /\ t[i].minor = t[i + 1].minor
                             /\ t[i].patch <= t[i + 1].patch
      BY DEF FirstInWindow, s, t
    <3>4. CASE i = Len(s)
      <4>1. t[i] = s[Len(s)] /\ t[i + 1] = code /\ s[Len(s)] \in Releases /\ Len(s) # 0
        BY <3>1, <3>3, <3>4
      <4> QED
        BY <4>1, <1>2, <3>2, CompatibleIsWindow
    <3>5. CASE i # Len(s)
      <4>1. i \in 1 .. Len(s) - 1 /\ t[i] = s[i] /\ t[i + 1] = s[i + 1]
        BY <3>1, <3>3, <3>5
      <4> QED
        BY <4>1 DEF UpgradeInv, FirstInWindow, s
    <3> QED
      BY <3>4, <3>5
  <2> QED
    BY <1>8, <2>1, <2>2
<1> QED
  BY <1>1, <1>3, <1>6, <1>7, <1>10, <1>11 DEF UpgradeInv, Quiet, Pending

LEMMA RecordedInv ==
  ASSUME UpgradeInv, recorded PROVE UpgradeInv'
<1>1. /\ pc = "record" /\ left = {} /\ pc' = "idle" /\ failed' = {}
      /\ UNCHANGED <<rows, code, left, faults>>
      /\ \/ failed # {} /\ answer' = "recordFailed"
         \/ failed = {} /\ answer' \in {"ok", "unhealthy"}
  BY DEF recorded
<1>2. UpgradeTypeOK'
  BY <1>1 DEF UpgradeInv, UpgradeTypeOK, Answers
<1>3. Quiet' /\ Pending' /\ RecordedSoFar' /\ FirstInWindow'
  BY <1>1 DEF UpgradeInv, Quiet, Pending, Admitted, current, RecordedSoFar, OkMeansEverywhere, FirstInWindow
<1> QED
  BY <1>2, <1>3 DEF UpgradeInv

LEMMA RollbackInv ==
  ASSUME UpgradeInv, rollback PROVE UpgradeInv'
<1>1. /\ pc = "idle" /\ UNCHANGED <<rows, failed, faults, code>>
      /\ \/ pc' = "idle" /\ left' = left /\ answer' = "failed"
         \/ pc' = "rollback" /\ left' = Dbs /\ answer' = "none"
  BY DEF rollback, Start, End
<1>2. UpgradeTypeOK'
  BY <1>1 DEF UpgradeInv, UpgradeTypeOK, Answers
<1>3. Quiet' /\ Pending' /\ RecordedSoFar' /\ FirstInWindow'
  BY <1>1 DEF UpgradeInv, Quiet, Pending, RecordedSoFar, OkMeansEverywhere, FirstInWindow
<1> QED
  BY <1>2, <1>3 DEF UpgradeInv

LEMMA RollbackDbRows ==
  ASSUME UpgradeTypeOK, NEW d \in Dbs, rollbackDb(d)
  PROVE  /\ rows' = rows \/ rows' = [rows EXCEPT ![d] = Without(rows[d])]
         /\ faults' = faults => rows' = [rows EXCEPT ![d] = Without(rows[d])]
         /\ faults' \in faults .. faults + 1 /\ faults' \in 0 .. MaxFaults
BY DatabasesAssumption DEF rollbackDb, UpgradeTypeOK

LEMMA RollbackDbInv ==
  ASSUME UpgradeInv, NEW d \in Dbs, rollbackDb(d) PROVE UpgradeInv'
<1>1. /\ pc = "rollback" /\ UNCHANGED <<pc, code, failed, answer>>
      /\ left' = left \ {d} /\ d \in left
  BY DEF rollbackDb
<1>2. rows \in [Dbs -> Seq(Releases)]
  BY DEF UpgradeInv, UpgradeTypeOK
<1>3. rows[d] \in Seq(Releases) /\ Without(rows[d]) \in Seq(Releases)
  BY <1>2, WithoutProperties
<1>4. rows' \in [Dbs -> Seq(Releases)]
  BY <1>2, <1>3, RollbackDbRows DEF UpgradeInv
<1>5. UpgradeTypeOK'
  BY <1>1, <1>4, RollbackDbRows DEF UpgradeInv, UpgradeTypeOK
<1>6. answer = "none"
  BY <1>1 DEF UpgradeInv, Quiet
<1>7. rows'[1] = rows[1] \/ rows'[1] = Without(rows[1])
  BY <1>2, DbOne, RollbackDbRows DEF UpgradeInv
<1>8. FirstInWindow'
  <2>1. CASE rows'[1] = rows[1]
    BY <2>1 DEF UpgradeInv, FirstInWindow
  <2>2. CASE rows'[1] = Without(rows[1])
    <3> DEFINE s == rows[1]
               t == rows'[1]
    <3>1. s \in Seq(Releases) /\ t = Without(s)
      BY <1>2, <2>2, DbOne
    <3> HIDE DEF s, t
    <3>2. /\ Len(s) \in Nat /\ Len(t) \in Nat /\ Len(t) <= Len(s)
          /\ \A i \in 1 .. Len(t) : t[i] = s[i]
      BY <3>1, WithoutProperties
    <3>3. \A i \in 1 .. Len(t) - 1 : i \in 1 .. Len(s) - 1 /\ t[i] = s[i] /\ t[i + 1] = s[i + 1]
      BY <3>2
    <3> QED
      BY <3>3 DEF UpgradeInv, FirstInWindow, s, t
  <2> QED
    BY <1>7, <2>1, <2>2
<1> QED
  BY <1>1, <1>5, <1>6, <1>8 DEF UpgradeInv, Quiet, Pending, RecordedSoFar, OkMeansEverywhere

LEMMA EndInv ==
  ASSUME UpgradeInv, rolledBack \/ Crash PROVE UpgradeInv'
<1>1. /\ pc # "idle" /\ pc' = "idle" /\ left' = {} /\ UNCHANGED <<rows, code>>
      /\ answer' \in {"none", "rolledBack"} /\ failed' = {}
      /\ faults' \in 0 .. MaxFaults
  <2>1. CASE rolledBack
    BY <2>1 DEF rolledBack, End, UpgradeInv, UpgradeTypeOK
  <2>2. CASE Crash
    BY <2>2, DatabasesAssumption DEF Crash, UpgradeInv, UpgradeTypeOK, Quiet
  <2> QED
    BY <2>1, <2>2
<1> QED
  BY <1>1 DEF UpgradeInv, Quiet, Pending, RecordedSoFar, OkMeansEverywhere, FirstInWindow, UpgradeTypeOK, Answers

-----------------------------------------------------------------------------
LEMMA NextUpgradeInv == UpgradeInv /\ [UpgradeNext]_upgradeVars => UpgradeInv'
<1> SUFFICES ASSUME UpgradeInv, [UpgradeNext]_upgradeVars PROVE UpgradeInv'
  OBVIOUS
<1>1. CASE UNCHANGED upgradeVars
  BY <1>1 DEF upgradeVars, UpgradeInv, UpgradeTypeOK, Quiet, Pending, Admitted, current, RecordedSoFar,
     OkMeansEverywhere, FirstInWindow
<1>2. CASE UpgradeNext
  BY <1>2, UpgradeStepInv, RecordInv, RecordedInv, RollbackInv, RollbackDbInv, EndInv
  DEF UpgradeNext
<1> QED
  BY <1>1, <1>2

\* Every variable keeps its type, and between commands nothing is left over.
THEOREM UpgradeTyped == UpgradeSpec => []UpgradeTypeOK
<1>1. UpgradeInv => UpgradeTypeOK
  BY DEF UpgradeInv
<1> QED
  BY InitUpgradeInv, NextUpgradeInv, <1>1, PTL DEF UpgradeSpec

\* An upgrade that answered ok has left every database at its version, until
\* the next command.
THEOREM OkIsEverywhere == UpgradeSpec => []OkMeansEverywhere
<1>1. UpgradeInv => OkMeansEverywhere
  BY DEF UpgradeInv, RecordedSoFar
<1> QED
  BY InitUpgradeInv, NextUpgradeInv, <1>1, PTL DEF UpgradeSpec

\* The history of the first database never leaves the window of ADR-0137,
\* whatever failed, was retried or was rolled back.
THEOREM FirstStaysInWindow == UpgradeSpec => []FirstInWindow
<1>1. UpgradeInv => FirstInWindow
  BY DEF UpgradeInv
<1> QED
  BY InitUpgradeInv, NextUpgradeInv, <1>1, PTL DEF UpgradeSpec

\* A failed recording may always be run again ("Re-run upgrade to retry.").
THEOREM RetryAlwaysAdmitted == UpgradeSpec => []RetryIsAdmitted
<1>1. UpgradeInv => RetryIsAdmitted
  BY DEF UpgradeInv, Pending, RetryIsAdmitted
<1> QED
  BY InitUpgradeInv, NextUpgradeInv, <1>1, PTL DEF UpgradeSpec

-----------------------------------------------------------------------------
(***************************************************************************)
(* How far the databases drift apart.  The command under way is counted as *)
(* done on the databases it has not reached (Effective): a step without a  *)
(* fault then changes no history, and a fault moves one, or a crash all of *)
(* them the same way, by a single row.                                     *)
(***************************************************************************)
Drift == UpgradeTypeOK /\ Skew /\ Agreement

LEMMA EffectiveLength ==
  ASSUME UpgradeTypeOK, NEW d \in Dbs
  PROVE  /\ Len(Effective(d)) \in Nat /\ Len(rows[d]) \in Nat
         /\ d \notin left => Effective(d) = rows[d]
         /\ d \in left /\ pc = "record" => Len(Effective(d)) = Len(rows[d]) + 1
         /\ d \in left /\ pc # "record" =>
              Len(Effective(d)) = IF Len(rows[d]) = 0 THEN 0 ELSE Len(rows[d]) - 1
<1>1. rows[d] \in Seq(Releases) /\ code \in Releases /\ Len(rows[d]) \in Nat
  BY DEF UpgradeTypeOK
<1>2. (rows[d] = <<>>) <=> Len(rows[d]) = 0
  BY <1>1
<1>3. Len(Append(rows[d], code)) = Len(rows[d]) + 1
  BY <1>1
<1>4. Len(Without(rows[d])) = IF rows[d] = <<>> THEN 0 ELSE Len(rows[d]) - 1
  BY <1>1, WithoutProperties
<1> QED
  BY <1>1, <1>2, <1>3, <1>4 DEF Effective

LEMMA Lengths ==
  UpgradeTypeOK => \A d \in Dbs :
    /\ Len(Effective(d)) \in Nat
    /\ d \in left /\ pc = "record" => Len(Effective(d)) = Len(rows[d]) + 1
    /\ d \in left /\ pc # "record" =>
         Len(Effective(d)) = IF Len(rows[d]) = 0 THEN 0 ELSE Len(rows[d]) - 1
BY EffectiveLength

\* The same of the next state.
LEMMA NextLengths ==
  UpgradeTypeOK' => \A d \in Dbs :
    /\ Len(Effective(d)') \in Nat
    /\ d \in left' /\ pc' = "record" => Len(Effective(d)') = Len(rows'[d]) + 1
    /\ d \in left' /\ pc' # "record" =>
         Len(Effective(d)') = IF Len(rows'[d]) = 0 THEN 0 ELSE Len(rows'[d]) - 1
<1>1. (UpgradeTypeOK => \A d \in Dbs :
         /\ Len(Effective(d)) \in Nat
         /\ d \in left /\ pc = "record" => Len(Effective(d)) = Len(rows[d]) + 1
         /\ d \in left /\ pc # "record" =>
              Len(Effective(d)) = IF Len(rows[d]) = 0 THEN 0 ELSE Len(rows[d]) - 1)'
  BY Lengths, PTL
<1> QED
  BY <1>1 DEF Dbs

\* A fault that moves every history the same way, by at most one row.
LEMMA FaultKeepsDrift ==
  ASSUME Drift, UpgradeTypeOK', faults' = faults + 1,
         \/ \A d \in Dbs : /\ Len(Effective(d)') <= Len(Effective(d))
                           /\ Len(Effective(d)) <= Len(Effective(d)') + 1
         \/ \A d \in Dbs : /\ Len(Effective(d)) <= Len(Effective(d)')
                           /\ Len(Effective(d)') <= Len(Effective(d)) + 1
  PROVE  Drift'
<1>1. \A d \in Dbs : Len(Effective(d)) \in Nat
  BY EffectiveLength DEF Drift
<1>2. \A d \in Dbs : Len(Effective(d)') \in Nat
  BY NextLengths
<1>3. faults \in Nat
  BY DatabasesAssumption DEF Drift, UpgradeTypeOK
<1>4. Skew'
  BY <1>1, <1>2, <1>3 DEF Drift, Skew
<1>5. Agreement'
  BY <1>3 DEF Agreement
<1> QED
  BY <1>4, <1>5 DEF Drift

\* A step that moves no history and is no fault.
LEMMA CalmKeepsDrift ==
  ASSUME Drift, UpgradeTypeOK', faults' = faults, \A d \in Dbs : Effective(d)' = Effective(d)
  PROVE  Drift'
BY DEF Drift, Skew, Agreement

\* A command that starts turns every history the same way.
LEMMA StartKeepsDrift ==
  ASSUME Drift, UpgradeTypeOK', pc = "idle", left' = Dbs, rows' = rows, faults' = faults,
         pc' \in {"record", "rollback"}
  PROVE  Drift'
<1>1. \A d \in Dbs : Effective(d) = rows[d] /\ Len(rows[d]) \in Nat
  BY EffectiveLength DEF Drift, UpgradeTypeOK
<1>2. faults \in Nat
  BY DatabasesAssumption DEF Drift, UpgradeTypeOK
<1>3. Agreement'
  BY <1>1 DEF Drift, Agreement, Effective
<1>4. \A d \in Dbs : Len(Effective(d)') = IF pc' = "record" THEN Len(rows[d]) + 1
                                          ELSE IF Len(rows[d]) = 0 THEN 0 ELSE Len(rows[d]) - 1
  BY NextLengths
<1>5. Skew'
  BY <1>1, <1>2, <1>4 DEF Drift, Skew
<1> QED
  BY <1>3, <1>5 DEF Drift

LEMMA RecordDrift ==
  ASSUME Drift, UpgradeTypeOK', NEW d \in Dbs, record(d) PROVE Drift'
<1>1. pc = "record" /\ pc' = pc /\ code' = code /\ left' = left \ {d} /\ d \in left
  BY DEF record
<1>2. rows \in [Dbs -> Seq(Releases)] /\ code \in Releases
  BY DEF Drift, UpgradeTypeOK
<1>3. /\ \/ rows' = [rows EXCEPT ![d] = Append(rows[d], code)] /\ faults' = faults
         \/ /\ faults' = faults + 1
            /\ rows' = rows \/ rows' = [rows EXCEPT ![d] = Append(rows[d], code)]
  BY DEF record
<1>4. \A e \in Dbs \ {d} : Effective(e)' = Effective(e)
  BY <1>1, <1>2, <1>3 DEF Effective
<1>5. Effective(d) = Append(rows[d], code) /\ Effective(d)' = rows'[d]
  BY <1>1 DEF Effective
<1>6. CASE rows' = [rows EXCEPT ![d] = Append(rows[d], code)]
  <2>1. \A e \in Dbs : Effective(e)' = Effective(e)
    BY <1>2, <1>4, <1>5, <1>6
  <2>2. CASE faults' = faults
    BY <2>1, <2>2, CalmKeepsDrift
  <2>3. CASE faults' = faults + 1
    <3>1. \A e \in Dbs : Len(Effective(e)) \in Nat
      BY EffectiveLength DEF Drift
    <3> QED
      BY <2>1, <2>3, <3>1, FaultKeepsDrift
  <2> QED
    BY <1>3, <2>2, <2>3
<1>7. CASE rows' = rows /\ faults' = faults + 1
  <2>1. \A e \in Dbs : Len(Effective(e)) \in Nat /\ Len(rows[e]) \in Nat
    BY EffectiveLength DEF Drift
  <2>2. Len(Effective(d)) = Len(rows[d]) + 1
    BY <1>1, EffectiveLength DEF Drift
  <2>3. Len(Effective(d)') = Len(rows[d])
    BY <1>5, <1>7
  <2>4. \A e \in Dbs : /\ Len(Effective(e)') <= Len(Effective(e))
                       /\ Len(Effective(e)) <= Len(Effective(e)') + 1
    BY <1>4, <2>1, <2>2, <2>3
  <2> QED
    BY <1>7, <2>4, FaultKeepsDrift
<1> QED
  BY <1>3, <1>6, <1>7

LEMMA RollbackDbDrift ==
  ASSUME Drift, UpgradeTypeOK', NEW d \in Dbs, rollbackDb(d) PROVE Drift'
<1>1. pc = "rollback" /\ pc' = pc /\ code' = code /\ left' = left \ {d} /\ d \in left
  BY DEF rollbackDb
<1>2. rows \in [Dbs -> Seq(Releases)]
  BY DEF Drift, UpgradeTypeOK
<1>3. \/ rows' = [rows EXCEPT ![d] = Without(rows[d])] /\ faults' = faults
      \/ rows' = rows /\ faults' = faults + 1
  BY DEF rollbackDb
<1>4. \A e \in Dbs \ {d} : Effective(e)' = Effective(e)
  BY <1>1, <1>2, <1>3 DEF Effective
<1>5. Effective(d) = Without(rows[d]) /\ Effective(d)' = rows'[d]
  BY <1>1 DEF Effective
<1>6. CASE rows' = [rows EXCEPT ![d] = Without(rows[d])] /\ faults' = faults
  <2>1. \A e \in Dbs : Effective(e)' = Effective(e)
    BY <1>2, <1>4, <1>5, <1>6
  <2> QED
    BY <1>6, <2>1, CalmKeepsDrift
<1>7. CASE rows' = rows /\ faults' = faults + 1
  <2>1. \A e \in Dbs : Len(Effective(e)) \in Nat /\ Len(rows[e]) \in Nat
    BY EffectiveLength DEF Drift
  <2>2. Len(Effective(d)) = IF Len(rows[d]) = 0 THEN 0 ELSE Len(rows[d]) - 1
    BY <1>1, EffectiveLength DEF Drift
  <2>3. Len(Effective(d)') = Len(rows[d])
    BY <1>5, <1>7
  <2>4. \A e \in Dbs : /\ Len(Effective(e)) <= Len(Effective(e)')
                       /\ Len(Effective(e)') <= Len(Effective(e)) + 1
    BY <1>4, <2>1, <2>2, <2>3
  <2> QED
    BY <1>7, <2>4, FaultKeepsDrift
<1> QED
  BY <1>3, <1>6, <1>7

\* The process dies: what the command had not reached keeps its rows.
LEMMA CrashDrift ==
  ASSUME Drift, UpgradeTypeOK', Crash PROVE Drift'
<1>1. /\ pc # "idle" /\ left' = {} /\ rows' = rows /\ faults' = faults + 1
  BY DEF Crash
<1>2. \A e \in Dbs : /\ Len(Effective(e)) \in Nat /\ Len(rows[e]) \in Nat
                     /\ Effective(e)' = rows[e]
  BY <1>1, EffectiveLength DEF Drift, Effective
<1>3. CASE pc = "record"
  <2>1. \A e \in Dbs : Len(Effective(e)) \in {Len(rows[e]), Len(rows[e]) + 1}
    BY <1>3, EffectiveLength DEF Drift
  <2>2. \A e \in Dbs : /\ Len(Effective(e)') <= Len(Effective(e))
                       /\ Len(Effective(e)) <= Len(Effective(e)') + 1
    BY <1>2, <2>1
  <2> QED
    BY <1>1, <2>2, FaultKeepsDrift
<1>4. CASE pc = "rollback"
  <2>1. \A e \in Dbs : /\ Len(Effective(e)) <= Len(rows[e])
                       /\ Len(rows[e]) <= Len(Effective(e)) + 1
    <3> TAKE e \in Dbs
    <3>1. \/ Effective(e) = rows[e]
          \/ Len(Effective(e)) = IF Len(rows[e]) = 0 THEN 0 ELSE Len(rows[e]) - 1
      BY <1>4, EffectiveLength DEF Drift
    <3> QED
      BY <1>2, <3>1
  <2>2. \A e \in Dbs : /\ Len(Effective(e)) <= Len(Effective(e)')
                       /\ Len(Effective(e)') <= Len(Effective(e)) + 1
    BY <1>2, <2>1
  <2> QED
    BY <1>1, <2>2, FaultKeepsDrift
<1> QED
  BY <1>1, <1>3, <1>4 DEF Drift, UpgradeTypeOK

\* The steps that touch no history and let no database's turn pass.
LEMMA StillDrift ==
  ASSUME Drift, UpgradeTypeOK', rows' = rows, faults' = faults, left' = left, left = {}
  PROVE  Drift'
<1>1. \A d \in Dbs : Effective(d)' = Effective(d)
  BY DEF Effective
<1> QED
  BY <1>1, CalmKeepsDrift

LEMMA NextDrift == Drift /\ UpgradeTypeOK' /\ [UpgradeNext]_upgradeVars => Drift'
<1> SUFFICES ASSUME Drift, UpgradeTypeOK', [UpgradeNext]_upgradeVars PROVE Drift'
  OBVIOUS
<1>1. CASE UNCHANGED upgradeVars
  <2>1. faults' = faults /\ \A d \in Dbs : Effective(d)' = Effective(d)
    BY <1>1 DEF upgradeVars, Effective
  <2> QED
    BY <2>1, CalmKeepsDrift
<1>2. ASSUME NEW to \in Releases, NEW opts \in Options, upgrade(to, opts) PROVE Drift'
  <2>1. pc = "idle" /\ rows' = rows /\ faults' = faults /\ left = {}
    BY <1>2 DEF upgrade, Start, End, Drift, UpgradeTypeOK
  <2>2. left' = left \/ (pc' = "record" /\ left' = Dbs)
    BY <1>2 DEF upgrade, Start, End
  <2> QED
    BY <2>1, <2>2, StillDrift, StartKeepsDrift
<1>3. CASE recorded
  BY <1>3, StillDrift DEF recorded
<1>4. CASE rollback
  <2>1. pc = "idle" /\ rows' = rows /\ faults' = faults /\ left = {}
    BY <1>4 DEF rollback, Start, End, Drift, UpgradeTypeOK
  <2>2. left' = left \/ (pc' = "rollback" /\ left' = Dbs)
    BY <1>4 DEF rollback, Start, End
  <2> QED
    BY <2>1, <2>2, StillDrift, StartKeepsDrift
<1>5. CASE rolledBack
  BY <1>5, StillDrift DEF rolledBack, End
<1> QED
  BY <1>1, <1>2, <1>3, <1>4, <1>5, RecordDrift, RollbackDbDrift, CrashDrift DEF UpgradeNext

LEMMA InitDrift == UpgradeInit => Drift
<1> SUFFICES ASSUME UpgradeInit PROVE Drift
  OBVIOUS
<1>1. UpgradeTypeOK
  BY InitUpgradeInv DEF UpgradeInv
<1>2. \A d \in Dbs : Effective(d) = <<>>
  BY DEF UpgradeInit, Effective
<1>3. faults = 0
  BY DEF UpgradeInit
<1> QED
  BY <1>1, <1>2, <1>3 DEF Drift, Skew, Agreement

LEMMA DriftHolds == UpgradeSpec => []Drift
BY UpgradeTyped, InitDrift, NextDrift, PTL DEF UpgradeSpec

\* Between commands two histories differ in length by at most the faults.
THEOREM SkewIsBounded == UpgradeSpec => []SkewBounded
<1>1. Drift => SkewBounded
  BY DEF Drift, UpgradeTypeOK, Skew, SkewBounded, Effective
<1> QED
  BY DriftHolds, <1>1, PTL

\* Between commands, and without a fault, all databases have one history.
THEOREM DatabasesAgree == UpgradeSpec => []AgreeWithoutFaults
<1>1. Drift => AgreeWithoutFaults
  BY DEF Drift, UpgradeTypeOK, Agreement, AgreeWithoutFaults, Effective
<1> QED
  BY DriftHolds, <1>1, PTL
=============================================================================
