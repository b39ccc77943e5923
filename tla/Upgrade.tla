------------------------------- MODULE Upgrade -------------------------------
(***************************************************************************)
(* The upgrade orchestrator (core/src/upgrade/orchestrator.ts), as the     *)
(* platform CLI runs it against every configured database.  upgrade()      *)
(* decides from the first database's newest version row and then records   *)
(* the version on all of them in parallel; rollback() removes the newest   *)
(* row of each, one database after the other.  Nothing spans the           *)
(* databases, so a statement may fail, its answer may be lost, and the     *)
(* process may die, between any two rows.                                  *)
(*                                                                         *)
(* One command runs at a time.  The orchestrator dispatches no migration:  *)
(* where it "migrates" it asks whether the database is healthy.            *)
(***************************************************************************)
EXTENDS Naturals, Sequences

CONSTANTS
  N,          \* databases; dbs[0] is database 1
  Releases,   \* versions of the artifacts the operator may install
  Breaking,   \* those whose manifest names breaking migrations
  MaxRows,    \* bound: version rows of a database when an upgrade starts
  MaxFaults   \* bound: failed statements and crashes

ASSUME ReleasesAssumption ==
  /\ Releases \subseteq [major : Nat, minor : Nat, patch : Nat]
  /\ Breaking \subseteq Releases
ASSUME DatabasesAssumption == N \in Nat \ {0} /\ MaxRows \in Nat /\ MaxFaults \in Nat

VARIABLES
  rows,     \* platform_versions of each database, the newest row last
  pc,       \* "idle", "record" or "rollback"
  code,     \* codeVersion of the command last run
  left,     \* databases whose turn in that command has not come
  failed,   \* databases whose record() answered an error
  answer,   \* what the command answered
  faults    \* failed statements and crashes so far

upgradeVars == <<rows, pc, code, left, failed, answer, faults>>

Dbs     == 1 .. N
Options == [dryRun : BOOLEAN, allowBreaking : BOOLEAN]
Answers == {"none", "refused", "failed", "planned", "ok", "unhealthy",
            "recordFailed", "rolledBack"}

UpgradeInit ==
  /\ rows = [d \in Dbs |-> <<>>]
  /\ pc = "idle" /\ code \in Releases   \* of no effect before the first command
  /\ left = {} /\ failed = {} /\ answer = "none" /\ faults = 0

current(d)  == rows[d][Len(rows[d])]
Without(s)  == IF s = <<>> THEN s ELSE SubSeq(s, 1, Len(s) - 1)

\* v < w in the order of compareSemver.
Older(v, w) ==
  \/ v.major < w.major
  \/ v.major = w.major /\ v.minor < w.minor
  \/ v.major = w.major /\ v.minor = w.minor /\ v.patch < w.patch

\* Mutants: the window is one minor too wide; the running version is refused.
CompatibleThreeMinors(from, to) ==
  /\ ~Older(to, from)
  /\ to.major <= from.major + 1
  /\ to.major = from.major => to.minor <= from.minor + 3
CompatibleNewerOnly(from, to) ==
  /\ Older(from, to)
  /\ to.major <= from.major + 1
  /\ to.major = from.major => to.minor <= from.minor + 2

checkCompatibility(from, to) ==
  /\ ~Older(to, from)
  /\ to.major <= from.major + 1
  /\ to.major = from.major => to.minor <= from.minor + 2

Admitted(to) == rows[1] # <<>> => checkCompatibility(current(1), to)

-----------------------------------------------------------------------------
Start(step, dbs) ==
  /\ pc' = step /\ left' = dbs /\ answer' = "none"
  /\ UNCHANGED <<rows, failed, faults>>

End(reply) ==
  /\ pc' = "idle" /\ answer' = reply
  /\ UNCHANGED <<rows, left, failed, faults>>

\* Up to the first row: the version of the first database cannot be read, the
\* release is refused, a preflight gate or an unhealthy database stops the
\* command, or it was a dry run.
upgrade(to, opts) ==
  /\ pc = "idle"
  /\ \A d \in Dbs : Len(rows[d]) < MaxRows
  /\ code' = to
  /\ LET admitted == Admitted(to) /\ (to \in Breaking => opts.allowBreaking) IN
       \/ End("failed")
       \/ ~admitted /\ End("refused")
       \/ admitted /\ opts.dryRun /\ End("planned")
       \/ admitted /\ ~opts.dryRun /\ Start("record", Dbs)

\* versionPort.record() of one database.  On an error the row may be there.
record(d) ==
  /\ pc = "record" /\ d \in left
  /\ left' = left \ {d}
  /\ \/ /\ rows' = [rows EXCEPT ![d] = Append(@, code)]
        /\ UNCHANGED <<failed, faults>>
     \/ /\ faults < MaxFaults
        /\ faults' = faults + 1
        /\ failed' = failed \cup {d}
        /\ rows' \in {rows, [rows EXCEPT ![d] = Append(@, code)]}
  /\ UNCHANGED <<pc, code, answer>>

\* Mutants: the answer does not wait for all databases; it ignores errors.
recordedByFirst ==
  /\ pc = "record"
  /\ \/ failed # {} /\ End("recordFailed")
     \/ failed = {} /\ (End("ok") \/ End("unhealthy"))
  /\ UNCHANGED code
recordedAnyway ==
  /\ pc = "record" /\ left = {}
  /\ pc' = "idle" /\ answer' \in {"ok", "unhealthy"} /\ failed' = {}
  /\ UNCHANGED <<rows, code, left, faults>>

\* VERSION_RECORD_FAILED, or the health gate, which comes after the rows.
recorded ==
  /\ pc = "record" /\ left = {}
  /\ \/ failed # {} /\ pc' = "idle" /\ answer' = "recordFailed"
     \/ failed = {} /\ pc' = "idle" /\ answer' \in {"ok", "unhealthy"}
  /\ failed' = {}
  /\ UNCHANGED <<rows, code, left, faults>>

-----------------------------------------------------------------------------
\* Mutant: the first database, whose version was read, is taken for done.
rollbackOthers ==
  /\ pc = "idle"
  /\ \/ rows[1] = <<>> /\ End("failed")
     \/ rows[1] # <<>> /\ Start("rollback", Dbs \ {1})
  /\ UNCHANGED code

\* The first database has no version, or the loop over the databases begins.
rollback ==
  /\ pc = "idle"
  /\ \/ rows[1] = <<>> /\ End("failed")
     \/ rows[1] # <<>> /\ Start("rollback", Dbs)
  /\ UNCHANGED code

\* versionPort.rollback() of the next database: NOTHING_TO_ROLLBACK where it
\* has no row, and whatever it answers the loop goes on.
rollbackDb(d) ==
  /\ pc = "rollback" /\ d \in left
  /\ \A e \in left : d <= e
  /\ left' = left \ {d}
  /\ \/ /\ rows' = [rows EXCEPT ![d] = Without(@)]
        /\ UNCHANGED faults
     \/ /\ faults < MaxFaults
        /\ faults' = faults + 1
        /\ UNCHANGED rows
  /\ UNCHANGED <<pc, code, failed, answer>>

rolledBack == pc = "rollback" /\ left = {} /\ End("rolledBack") /\ UNCHANGED code

\* The process dies with the command half done.
Crash ==
  /\ pc # "idle"
  /\ faults < MaxFaults
  /\ faults' = faults + 1
  /\ pc' = "idle" /\ left' = {} /\ failed' = {}
  /\ UNCHANGED <<rows, code, answer>>

UpgradeNext ==
  \/ \E to \in Releases, opts \in Options : upgrade(to, opts)
  \/ \E d \in Dbs : record(d) \/ rollbackDb(d)
  \/ recorded \/ rollback \/ rolledBack \/ Crash

UpgradeSpec == UpgradeInit /\ [][UpgradeNext]_upgradeVars
-----------------------------------------------------------------------------
\* Every variable has its type, and no database is left over between commands.
UpgradeTypeOK ==
  /\ rows \in [Dbs -> Seq(Releases)]
  /\ pc \in {"idle", "record", "rollback"} /\ code \in Releases
  /\ left \subseteq Dbs /\ failed \subseteq Dbs
  /\ (pc = "idle" => left = {}) /\ (pc # "record" => failed = {})
  /\ answer \in Answers /\ faults \in 0 .. MaxFaults

\* Until the next command, an upgrade that answered ok has left every database
\* at its version.
OkMeansEverywhere ==
  answer = "ok" => \A d \in Dbs : rows[d] # <<>> /\ current(d) = code

\* ADR-0137 along the whole history of the first database, whatever failed,
\* was retried and was rolled back in between: from one row to the next the
\* version never falls, skips no major, and skips at most one minor.
FirstInWindow ==
  \A i \in 1 .. Len(rows[1]) - 1 :
    LET v == rows[1][i]
        w == rows[1][i + 1] IN
      \/ v.major + 1 = w.major
      \/ v.major = w.major /\ v.minor < w.minor /\ w.minor - v.minor <= 2
      \/ v.major = w.major /\ v.minor = w.minor /\ v.patch <= w.patch

\* Between commands the histories of two databases differ in length by no more
\* than the statements that failed and the processes that died.
SkewBounded ==
  pc = "idle" => \A d, e \in Dbs : Len(rows[d]) <= Len(rows[e]) + faults

\* Without a failure the databases have the same history between commands.
AgreeWithoutFaults ==
  pc = "idle" /\ faults = 0 => \A d, e \in Dbs : rows[d] = rows[e]

\* "Re-run upgrade to retry.": the artifact whose version could not be recorded
\* everywhere is not refused when it is run again.
RetryIsAdmitted == answer = "recordFailed" => Admitted(code)

=============================================================================
