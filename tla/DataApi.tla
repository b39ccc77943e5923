------------------------------- MODULE DataApi -------------------------------
(***************************************************************************)
(* Requests that change rows of a customer table (api-request-handler.ts)  *)
(* over Postgres (customer-repository.adapter.ts), made idempotent by a    *)
(* key (idempotency.helper.ts): the answer of an operation is stored under *)
(* its key, and a request that finds a stored answer gets that one.        *)
(*                                                                         *)
(* A client may send a request again, with its key, before, while or after *)
(* the first one is served (sdk/src/transport/index.ts).  A key is hashed  *)
(* with the operation, which names the table and the method and not the    *)
(* row.  Whatever a request asks of the table is refused, or is one        *)
(* statement; bulk operations are one statement a row.                     *)
(***************************************************************************)
EXTENDS Naturals, FiniteSets

CONSTANTS
  Rows, Keys, Callers,
  NoKey,                          \* the request has no Idempotency-Key
  Requests,                       \* the operations clients ask for, and under which key
  WINDOW,                         \* days an answer is kept for
  MaxSteps, MaxDays               \* bounds

ASSUME BoundsAssumption ==
  /\ {MaxSteps, MaxDays} \subseteq Nat
  /\ WINDOW \in Nat \ {0}
ASSUME SetsAssumption ==
  /\ IsFiniteSet(Rows) /\ IsFiniteSet(Keys) /\ NoKey \notin Keys
  /\ IsFiniteSet(Callers) /\ Callers # {}

VARIABLES
  table,                 \* the rows
  records,               \* idempotency_records
  call,                  \* where a request stands
  day,                   \* today
  begun, failures,       \* requests begun, and failed steps, so far
  answers,               \* requests answered with success, and by whose run
  ran,                   \* runs that came to their end
  changed,               \* the rows a run changed
  audited                \* runs the audit log tells of

vars == <<table, records, call, day, begun, failures, answers, ran, changed, audited>>
ghosts == <<answers, ran, changed>>

Methods == [create |-> "POST", badCreate |-> "POST", update |-> "PATCH.byId",
            archive |-> "DELETE.byId", hardDelete |-> "DELETE.byId",
            restore |-> "POST.restore.byId", bulkCreate |-> "POST.bulk",
            bulkUpdate |-> "PATCH", bulkDelete |-> "DELETE"]
Operations == DOMAIN Methods
ASSUME RequestsAssumption == Requests \subseteq [op : Operations, key : Keys \cup {NoKey}]

OnOneRow   == {"create", "update", "archive", "hardDelete", "restore"}
Tags       == {Methods[op] : op \in Operations}
Slots      == Tags \X Keys
Runs       == 0..MaxSteps
NoRecord   == [of |-> 0, expires |-> 0]
Row        == [state : {"none", "live", "archived"}, edit : Runs]
NoRow      == [state |-> "none", edit |-> 0]
Idle == [op |-> "create", key |-> NoKey, at |-> "idle", run |-> 0, day |-> 0,
         todo |-> {}, rows |-> {}, told |-> {}]
Calls == [op : Operations, key : Keys \cup {NoKey},
          at : {"idle", "work", "each", "audit", "store", "race"},
          run : Runs, day : 0..MaxDays, todo : SUBSET Rows, rows : SUBSET Rows,
          told : SUBSET Runs]

Init ==
  /\ table \in {[r \in Rows |-> NoRow], [r \in Rows |-> [NoRow EXCEPT !.state = "live"]]}
  /\ records = [s \in Slots |-> NoRecord]
  /\ call = [c \in Callers |-> Idle]
  /\ day = 0 /\ begun = 0 /\ failures = 0
  /\ answers = {} /\ ran = {} /\ audited = {}
  /\ changed = [r \in Runs |-> {}]
-----------------------------------------------------------------------------
Slot(c)        == <<Methods[call[c].op], call[c].key>>
Keyed(c)       == call[c].key # NoKey
Goto(c, place) == call' = [call EXCEPT ![c].at = place]
Finish(c)      == call' = [call EXCEPT ![c] = Idle]

\* Requests and failed steps are bounded together.
Starts == begun + failures < MaxSteps /\ begun' = begun + 1
Fails  == begun + failures < MaxSteps /\ failures' = failures + 1

\* Mutant: the two times are compared the wrong way round.
LiveLapsed(slot, now) == records[slot] # NoRecord /\ records[slot].expires <= now

\* A stored answer is good until it expires, by the clock the request began at.
Live(slot, now) == records[slot].expires > now

\* Who was answered in a slot so far.
Told(slot) == {a.call : a \in {b \in answers : b.slot = slot}}

\* Mutant: a request takes the number of the one after it.
ReceiveNext(c, op, key, rows, now) ==
  /\ call[c].at = "idle" /\ Starts
  /\ day' = now
  /\ call' = [call EXCEPT ![c] =
       [op |-> op, key |-> key, at |-> "work", run |-> begun' + 1, day |-> now,
        todo |-> rows, rows |-> {}, told |-> Told(<<Methods[op], key>>)]]
  /\ UNCHANGED <<table, records, audited, ghosts>>

\* A request begins, on some later day perhaps.
Receive(c, op, key, rows, now) ==
  /\ call[c].at = "idle" /\ Starts
  /\ day' = now
  /\ call' = [call EXCEPT ![c] =
       [op |-> op, key |-> key, at |-> "work", run |-> begun', day |-> now,
        todo |-> rows, rows |-> {}, told |-> Told(<<Methods[op], key>>)]]
  /\ UNCHANGED <<table, records, audited, ghosts>>

\* A request with a key looks for a record; one that cannot be read is taken
\* for none.
lookup(c, op, key, rows, now) ==
  LET slot == <<Methods[op], key>>
  IN /\ Receive(c, op, key, rows, now)
     /\ (~Live(slot, now) /\ UNCHANGED failures) \/ Fails

\* A request that finds an answer gets it.
stored(c, op, key, now) ==
  LET slot == <<Methods[op], key>>
  IN /\ call[c].at = "idle" /\ Starts
     /\ Live(slot, now) /\ day' = now
     /\ answers' = answers \cup {[call |-> begun', slot |-> slot, of |-> records[slot].of]}
     /\ UNCHANGED <<table, records, call, failures, ran, changed, audited>>

dispatch(c) ==
  \E request \in Requests, rows \in SUBSET Rows, now \in day..MaxDays :
    LET op == request.op  key == request.key
    IN /\ Cardinality(rows) \in CASE op \in OnOneRow    -> {1}
                                  [] op = "bulkCreate" -> 1..Cardinality(Rows)
                                  [] OTHER             -> {0}
       /\ IF key = NoKey THEN Receive(c, op, key, rows, now) /\ UNCHANGED failures
          ELSE lookup(c, op, key, rows, now) \/ stored(c, op, key, now)

\* A request is answered with what a run answered.
Answer(c, run) ==
  /\ answers' = answers \cup {[call |-> call[c].run, slot |-> Slot(c), of |-> run]}
  /\ Finish(c)
-----------------------------------------------------------------------------
\* Mutant: an archived row is updated.
FitsAny(op, r) == IF op \in {"create", "bulkCreate"} THEN table[r].state = "none"
                                                     ELSE table[r].state # "none"

\* The rows an operation finds.
Fits(op, r) ==
  CASE op \in {"create", "bulkCreate"}                            -> table[r].state = "none"
    [] op \in {"update", "bulkUpdate", "archive", "bulkDelete"}   -> table[r].state = "live"
    [] op \in {"hardDelete", "restore"}                           -> table[r].state # "none"

\* What an operation makes of a row.
Made(op, r, run) ==
  CASE op \in {"create", "bulkCreate", "update", "bulkUpdate"} -> [state |-> "live", edit |-> run]
    [] op \in {"archive", "bulkDelete"} -> [table[r] EXCEPT !.state = "archived"]
    [] op = "restore"                   -> [table[r] EXCEPT !.state = "live"]
    [] op = "hardDelete"                -> NoRow

Change(c, r) ==
  /\ table' = [table EXCEPT ![r] = Made(call[c].op, r, call[c].run)]
  /\ changed' = [changed EXCEPT ![call[c].run] = @ \cup {r}]

\* One row: one statement.  An error is answered, and not stored.
work(c) ==
  /\ call[c].at = "work" /\ call[c].op \in OnOneRow
  /\ \E r \in call[c].todo :
       IF Fits(call[c].op, r)
         THEN /\ Change(c, r)
              /\ call' = [call EXCEPT ![c].rows = {r}, ![c].todo = {}, ![c].at = "audit"]
         ELSE Finish(c) /\ UNCHANGED <<table, changed>>
  /\ UNCHANGED <<records, day, begun, failures, answers, ran, audited>>

\* A body that is no object is answered with 400, which is no error.
validationError(c) ==
  /\ call[c].at = "work" /\ call[c].op = "badCreate"
  /\ ran' = ran \cup {[run |-> call[c].run, slot |-> Slot(c), day |-> call[c].day,
                       rows |-> {}, told |-> call[c].told]}
  /\ IF Keyed(c) THEN Goto(c, "store") /\ UNCHANGED answers ELSE Answer(c, call[c].run)
  /\ UNCHANGED <<table, records, day, begun, failures, changed, audited>>

\* Bulk operations list the live rows their filter finds, and go on one by one.
list(c) ==
  /\ call[c].at = "work" /\ call[c].op \in {"bulkCreate", "bulkUpdate", "bulkDelete"}
  /\ \E rows \in SUBSET Rows :
       /\ IF call[c].op = "bulkCreate" THEN rows = call[c].todo
          ELSE \A r \in rows : table[r].state = "live"
       /\ call' = [call EXCEPT ![c].at = "each", ![c].todo = rows, ![c].rows = rows]
  /\ UNCHANGED <<table, records, day, begun, failures, audited, ghosts>>

\* Mutant: a row that is gone is counted with the others.
eachCounted(c) ==
  /\ call[c].at = "each"
  /\ \/ /\ call[c].todo = {} /\ Goto(c, "audit")
        /\ UNCHANGED <<table, changed>>
     \/ \E r \in call[c].todo :
          /\ call' = [call EXCEPT ![c].todo = @ \ {r}]
          /\ IF Fits(call[c].op, r) THEN Change(c, r) ELSE UNCHANGED <<table, changed>>
  /\ UNCHANGED <<records, day, begun, failures, answers, ran, audited>>

\* A row that is no longer there ends the operation with an error, halfway.
each(c) ==
  /\ call[c].at = "each"
  /\ \/ /\ call[c].todo = {} /\ Goto(c, "audit")
        /\ UNCHANGED <<table, changed>>
     \/ \E r \in call[c].todo :
          IF Fits(call[c].op, r)
            THEN Change(c, r) /\ call' = [call EXCEPT ![c].todo = @ \ {r}]
            ELSE Finish(c) /\ UNCHANGED <<table, changed>>
  /\ UNCHANGED <<records, day, begun, failures, answers, ran, audited>>
-----------------------------------------------------------------------------
\* The run comes to its end: it is audited, and answered or stored.
audit(c, logged) ==
  /\ call[c].at = "audit"
  /\ audited' = IF logged THEN audited \cup {call[c].run} ELSE audited
  /\ ran' = ran \cup {[run |-> call[c].run, slot |-> Slot(c), day |-> call[c].day,
                       rows |-> call[c].rows, told |-> call[c].told]}
  /\ IF Keyed(c) THEN Goto(c, "store") /\ UNCHANGED answers ELSE Answer(c, call[c].run)
  /\ UNCHANGED <<table, records, day, begun, changed>>

write(c) == audit(c, TRUE) /\ UNCHANGED failures

\* The answer of the audit log is not looked at.
writeFails(c) == audit(c, FALSE) /\ Fails

\* Mutant: a record that is there is replaced.
storeOver(c) ==
  /\ call[c].at = "store"
  /\ records' = [records EXCEPT ![Slot(c)] =
                   [of |-> call[c].run, expires |-> call[c].day + WINDOW]]
  /\ Answer(c, call[c].run)
  /\ UNCHANGED <<table, day, begun, failures, ran, changed, audited>>

\* The slot is unique: with a record in it, lapsed or not, the insert fails, and
\* the record that is there is read again and answered.
store(c) ==
  /\ call[c].at = "store"
  /\ IF records[Slot(c)] = NoRecord
       THEN /\ records' = [records EXCEPT ![Slot(c)] =
                             [of |-> call[c].run, expires |-> call[c].day + WINDOW]]
            /\ Answer(c, call[c].run)
       ELSE Answer(c, records[Slot(c)].of) /\ UNCHANGED records
  /\ UNCHANGED <<table, day, begun, failures, ran, changed, audited>>

storeFails(c) ==
  /\ call[c].at = "store" /\ Fails /\ Goto(c, "race")
  /\ UNCHANGED <<table, records, day, begun, audited, ghosts>>

\* After an insert that failed otherwise too, if there is a record.
race(c) ==
  /\ call[c].at = "race"
  /\ Answer(c, IF records[Slot(c)] = NoRecord THEN call[c].run ELSE records[Slot(c)].of)
  /\ UNCHANGED <<table, records, day, begun, failures, ran, changed, audited>>

raceFails(c) ==
  /\ Fails /\ Answer(c, call[c].run)
  /\ call[c].at = "race" \/ (call[c].at = "store" /\ records[Slot(c)] # NoRecord)
  /\ UNCHANGED <<table, records, day, begun, ran, changed, audited>>

\* A statement of the work fails, or the process dies.
stops(c) ==
  /\ call[c].at # "idle" /\ Fails /\ Finish(c)
  /\ UNCHANGED <<table, records, day, begun, audited, ghosts>>
-----------------------------------------------------------------------------
Step(c) ==
  \/ dispatch(c) \/ work(c) \/ validationError(c) \/ list(c) \/ each(c)
  \/ write(c) \/ writeFails(c)
  \/ store(c) \/ storeFails(c) \/ race(c) \/ raceFails(c) \/ stops(c)

Next == \E c \in Callers : Step(c)

Spec == Init /\ [][Next]_vars
-----------------------------------------------------------------------------
TypeOK ==
  /\ table \in [Rows -> Row]
  /\ records \in [Slots -> [of : Runs, expires : 0..(MaxDays + WINDOW)]]
  /\ call \in [Callers -> Calls]
  /\ day \in 0..MaxDays /\ begun \in Runs /\ failures \in Runs
  /\ answers \subseteq [call : Runs, slot : Tags \X (Keys \cup {NoKey}), of : Runs]
  /\ ran \subseteq [run : Runs, slot : Tags \X (Keys \cup {NoKey}), day : 0..MaxDays,
                    rows : SUBSET Rows, told : SUBSET Runs]
  /\ changed \in [Runs -> SUBSET Rows] /\ audited \subseteq Runs

\* Once a request with a key has been answered, one that is sent again runs
\* nothing as long as the record lives, whatever ran at the same time.
RetryRunsNothing ==
  \A y \in ran :
    (y.slot \in Slots /\ y.told # {}) => (records[y.slot].expires <= y.day \/ failures > 0)

\* Requests with one key get one answer, those that ran at the same time and
\* those that ran again after the record had lapsed too.
OneAnswerPerKey ==
  \A a \in answers : a.slot \in Slots => (a.of = records[a.slot].of \/ failures > 0)

\* An answer tells of a run that came to its end: it changed every row it set
\* out to change and no other, and is in the audit log.
AnswersTrue ==
  \A a \in answers : \E r \in ran :
    /\ r.run = a.of /\ r.slot = a.slot /\ changed[r.run] = r.rows
    /\ r.rows # {} => (r.run \in audited \/ failures > 0)

\* An archived row is not edited, by an operation that listed it before either.
ArchivedUntouched ==
  [][\A r \in Rows : table[r].state = "archived" => table'[r].edit \in {table[r].edit, 0}]_vars

\* A key has one answer, which is true and runs nothing again.
AnswersKept == TypeOK /\ RetryRunsNothing /\ OneAnswerPerKey /\ AnswersTrue
=============================================================================
