--------------------------- MODULE DataApi_proofs ---------------------------
(***************************************************************************)
(* Proofs about DataApi, for any rows, keys, callers and bounds.           *)
(***************************************************************************)
EXTENDS DataApi, TLAPS

\* A run that came to its end, in a slot.
Ended(run, slot) == \E r \in ran : r.run = run /\ r.slot = slot

\* A run that began after an answer was given had seen the record lapse.
Lapsed(slot, told, now) ==
  (slot \in Slots /\ told # {}) =>
    \/ records[slot] # NoRecord /\ records[slot].expires <= now
    \/ failures > 0

\* A request that is served: its run is no other's, has changed what it should
\* by now, and has ended when its answer is to be stored.
CallOK(c) ==
  call[c].at # "idle" =>
    /\ 1 <= call[c].run /\ call[c].run <= begun
    /\ call[c].at \in {"work", "each", "audit"} => \A r \in ran : r.run # call[c].run
    /\ call[c].at = "work"  => call[c].rows = {} /\ changed[call[c].run] = {}
    /\ call[c].at = "each"  => /\ call[c].op # "badCreate"
                               /\ changed[call[c].run] \cup call[c].todo = call[c].rows
    /\ call[c].at = "audit" => changed[call[c].run] = call[c].rows
    /\ call[c].at \in {"store", "race"} => Keyed(c) /\ Ended(call[c].run, Slot(c))
    /\ call[c].at = "race" => failures > 0
    /\ Lapsed(Slot(c), call[c].told, call[c].day)

\* A run that came to its end.
RunOK(r) ==
  /\ 1 <= r.run /\ r.run <= begun
  /\ changed[r.run] = r.rows
  /\ r.rows # {} => (r.run \in audited \/ failures > 0)
  /\ Lapsed(r.slot, r.told, r.day)

RunsApart ==
  /\ \A c, d \in Callers : (c # d /\ call[c].at # "idle" /\ call[d].at # "idle")
                             => call[c].run # call[d].run
  /\ \A n \in Runs : n > begun => changed[n] = {}

\* What is stored and what was answered is of a run that ended.
Answered ==
  /\ \A s \in Slots : records[s] # NoRecord => Ended(records[s].of, s)
  /\ \A a \in answers : Ended(a.of, a.slot)

IInv == /\ TypeOK /\ RunsApart /\ Answered /\ OneAnswerPerKey
        /\ \A c \in Callers : CallOK(c)
        /\ \A r \in ran : RunOK(r)
-----------------------------------------------------------------------------
LEMMA InitIInv == Init => IInv
<1> SUFFICES ASSUME Init PROVE IInv
  OBVIOUS
<1>1. Idle \in Calls /\ 0 \in Runs /\ 0 \in 0..MaxDays
  BY BoundsAssumption DEF Idle, Calls, Operations, Methods, Runs
<1>2. NoRow \in Row /\ [NoRow EXCEPT !.state = "live"] \in Row
  BY <1>1 DEF NoRow, Row
<1>3. NoRecord \in [of : Runs, expires : 0..(MaxDays + WINDOW)]
  BY <1>1, BoundsAssumption DEF NoRecord
<1>4. TypeOK
  BY <1>1, <1>2, <1>3 DEF Init, TypeOK
<1>5. \A c \in Callers : call[c].at = "idle"
  BY DEF Init, Idle
<1>6. RunsApart /\ Answered
  BY <1>5 DEF Init, RunsApart, Answered
<1> QED
  BY <1>4, <1>5, <1>6 DEF Init, IInv, OneAnswerPerKey, CallOK
-----------------------------------------------------------------------------
\* A request has a slot of the table of records exactly when it has a key.
LEMMA SlotOfKey ==
  ASSUME NEW k \in Calls
  PROVE  /\ <<Methods[k.op], k.key>> \in Tags \X (Keys \cup {NoKey})
         /\ k.key # NoKey <=> <<Methods[k.op], k.key>> \in Slots
<1>1. Methods[k.op] \in Tags /\ k.key \in Keys \cup {NoKey}
  BY DEF Calls, Tags
<1> QED
  BY <1>1, SetsAssumption DEF Slots

\* What a step of one request leaves of the invariant, when runs, records and
\* answers are only added to, and it changes rows only at work.
LEMMA StepKeeps ==
  ASSUME IInv, TypeOK', NEW c \in Callers,
         \A d \in Callers \ {c} : call'[d] = call[d],
         begun <= begun', failures <= failures', audited \subseteq audited',
         ran \subseteq ran',
         \A r \in ran' : r \in ran \/ (r.run = call[c].run /\ call[c].at # "idle" /\ RunOK(r)'),
         \/ changed' = changed
         \/ /\ call[c].at \in {"work", "each"}
            /\ \A n \in Runs : n # call[c].run => changed'[n] = changed[n],
         \A s \in Slots : \/ records'[s] = records[s]
                          \/ /\ records[s] = NoRecord
                             /\ \E r \in ran' : r.run = records'[s].of /\ r.slot = s,
         \A a \in answers' :
           \/ a \in answers
           \/ /\ Ended(a.of, a.slot)'
              /\ a.slot \in Slots => (a.of = records'[a.slot].of \/ failures' > 0),
         call'[c].at # "idle" => \/ call[c].at # "idle" /\ call'[c].run = call[c].run
                                 \/ call'[c].run > begun,
         CallOK(c)'
  PROVE  IInv'
<1>1. /\ call \in [Callers -> Calls] /\ \A d \in Callers : call[d].run \in Runs
      /\ begun \in Nat /\ begun' \in Nat /\ failures \in Nat /\ failures' \in Nat
      /\ \A d \in Callers : call[d].run \in Nat /\ call'[d].run \in Nat /\ call[d].day \in Nat
      /\ \A r \in ran : r.run \in Runs /\ r.run \in Nat /\ r.day \in Nat
      /\ \A s \in Slots : records[s].expires \in Nat
      /\ \A n \in Runs : n \in Nat
  BY BoundsAssumption DEF IInv, TypeOK, Calls, Runs
<1>2. \A run, slot : Ended(run, slot) => Ended(run, slot)'
  BY DEF Ended
<1>3. \A slot, told, now : Lapsed(slot, told, now) => Lapsed(slot, told, now)'
  BY <1>1 DEF Lapsed
<1>4. ASSUME NEW d \in Callers \ {c} PROVE CallOK(d)'
  <2> SUFFICES ASSUME call[d].at # "idle" PROVE CallOK(d)'
    BY DEF CallOK
  <2>1. CallOK(d) /\ Slot(d)' = Slot(d) /\ Keyed(d)' = Keyed(d) /\ call'[d] = call[d]
    BY DEF IInv, Slot, Keyed
  <2>2. call[c].at # "idle" => call[c].run # call[d].run
    BY DEF IInv, RunsApart
  <2>3. changed'[call[d].run] = changed[call[d].run]
    BY <1>1, <2>2
  <2>4. call[d].at \in {"work", "each", "audit"} => \A r \in ran' : r.run # call[d].run
    BY <2>1, <2>2 DEF CallOK
  <2>5. 1 <= call[d].run /\ call[d].run <= begun'
    BY <1>1, <2>1 DEF CallOK
  <2>6. /\ call[d].at \in {"store", "race"} => Keyed(d) /\ Ended(call[d].run, Slot(d))'
        /\ Lapsed(Slot(d), call[d].told, call[d].day)'
        /\ call[d].at = "race" => failures' > 0
    BY <1>1, <1>2, <1>3, <2>1 DEF CallOK
  <2> QED
    BY <2>1, <2>3, <2>4, <2>5, <2>6 DEF CallOK
<1>5. ASSUME NEW r \in ran PROVE RunOK(r)'
  <2>1. RunOK(r)
    BY DEF IInv
  <2>2. call[c].at \in {"work", "each"} => r.run # call[c].run
    BY DEF IInv, CallOK
  <2>3. changed'[r.run] = changed[r.run]
    BY <1>1, <2>2
  <2> QED
    BY <1>1, <1>3, <2>1, <2>3 DEF RunOK
<1>6. RunsApart'
  <2>1. \A d, e \in Callers : (d # e /\ call'[d].at # "idle" /\ call'[e].at # "idle")
                                => call'[d].run # call'[e].run
    <3>1. \A d \in Callers : call[d].at # "idle" => call[d].run <= begun
      BY DEF IInv, CallOK
    <3>2. \A d \in Callers \ {c} : (call'[d].at # "idle" /\ call'[c].at # "idle")
                                      => call'[c].run # call'[d].run
      BY <1>1, <3>1 DEF IInv, RunsApart
    <3>3. ASSUME NEW d \in Callers, NEW e \in Callers, d # e,
                 call'[d].at # "idle", call'[e].at # "idle"
          PROVE  call'[d].run # call'[e].run
      <4>1. CASE d # c /\ e # c
        BY <3>3, <4>1 DEF IInv, RunsApart
      <4>2. CASE d = c \/ e = c
        BY <3>2, <3>3, <4>2
      <4> QED
        BY <4>1, <4>2
    <3> QED
      BY <3>3
  <2>2. \A n \in Runs : n > begun' => changed'[n] = {}
    BY <1>1 DEF IInv, RunsApart, CallOK
  <2> QED
    BY <2>1, <2>2 DEF RunsApart
<1>7. Answered'
  <2>1. \A s \in Slots : records'[s] # NoRecord =>
          \E r \in ran' : r.run = records'[s].of /\ r.slot = s
    BY DEF IInv, Answered, Ended
  <2>2. \A a \in answers' : Ended(a.of, a.slot)'
    BY <1>2 DEF IInv, Answered
  <2> QED
    BY <2>1, <2>2 DEF Answered, Ended
<1>8. OneAnswerPerKey'
  <2> SUFFICES ASSUME NEW a \in answers, a.slot \in Slots
               PROVE  a.of = records'[a.slot].of \/ failures' > 0
    BY DEF OneAnswerPerKey
  <2>1. a.of = records[a.slot].of \/ failures > 0
    BY DEF IInv, OneAnswerPerKey
  <2>2. records[a.slot] # NoRecord \/ failures > 0
    <3>1. PICK r \in ran : r.run = a.of /\ r.slot = a.slot
      BY DEF IInv, Answered, Ended
    <3>2. 1 <= a.of
      BY <3>1 DEF IInv, RunOK
    <3> QED
      BY <2>1, <3>2 DEF NoRecord
  <2> QED
    BY <1>1, <2>1, <2>2
<1>9. (\A d \in Callers : CallOK(d)') /\ \A r \in ran' : RunOK(r)'
  BY <1>4, <1>5
<1> QED
  BY <1>6, <1>7, <1>8, <1>9 DEF IInv
-----------------------------------------------------------------------------
LEMMA GotoFacts ==
  ASSUME TypeOK, NEW c \in Callers,
         NEW place \in {"idle", "work", "each", "audit", "store", "race"}, Goto(c, place)
  PROVE  /\ call' \in [Callers -> Calls] /\ call'[c] = [call[c] EXCEPT !.at = place]
         /\ \A d \in Callers \ {c} : call'[d] = call[d]
         /\ Slot(c)' = Slot(c) /\ Keyed(c)' = Keyed(c)
<1>1. call \in [Callers -> Calls] /\ [call[c] EXCEPT !.at = place] \in Calls
  BY DEF TypeOK, Calls
<1>2. call' = [call EXCEPT ![c] = [call[c] EXCEPT !.at = place]]
  BY <1>1 DEF Goto
<1> QED
  BY <1>1, <1>2 DEF Slot, Keyed, Calls

LEMMA FinishFacts ==
  ASSUME TypeOK, NEW c \in Callers, Finish(c)
  PROVE  /\ call' \in [Callers -> Calls] /\ call'[c].at = "idle" /\ CallOK(c)'
         /\ \A d \in Callers \ {c} : call'[d] = call[d]
<1>1. call \in [Callers -> Calls] /\ Idle \in Calls
  BY BoundsAssumption DEF TypeOK, Idle, Calls, Operations, Methods, Runs
<1>2. call' = [call EXCEPT ![c] = Idle]
  BY DEF Finish
<1>3. call'[c] = Idle
  BY <1>1, <1>2
<1> QED
  BY <1>1, <1>2, <1>3 DEF Idle, CallOK

LEMMA Counted ==
  ASSUME TypeOK
  PROVE  /\ Starts => begun' \in Runs /\ begun' = begun + 1 /\ begun' >= 1
         /\ Fails => failures' \in Runs /\ failures' = failures + 1 /\ failures' > 0
         /\ begun \in Nat /\ failures \in Nat
         /\ \A n \in Runs : n \in Nat
  BY BoundsAssumption DEF TypeOK, Starts, Fails, Runs

\* A request whose call is over, and nothing else.
LEMMA OverIInv ==
  ASSUME IInv, NEW c \in Callers, Finish(c), UNCHANGED <<records, begun, answers, ran, changed, audited>>,
         table' \in [Rows -> Row], day' = day, failures' = failures \/ Fails
  PROVE  IInv'
<1>1. TypeOK /\ failures \in Nat /\ begun \in Nat
  BY Counted DEF IInv
<1>2. TypeOK' /\ failures <= failures'
  BY <1>1, FinishFacts, Counted DEF TypeOK
<1> QED
  BY <1>1, <1>2, FinishFacts, StepKeeps

LEMMA StopsIInv ==
  ASSUME IInv, NEW c \in Callers, stops(c)
  PROVE  IInv'
BY OverIInv DEF stops, ghosts, IInv, TypeOK

LEMMA ReceiveIInv ==
  ASSUME IInv, NEW c \in Callers, NEW op \in Operations, NEW key \in Keys \cup {NoKey},
         NEW rows \in SUBSET Rows, NEW now \in day..MaxDays, Receive(c, op, key, rows, now),
         failures' = failures \/ Fails,
         key # NoKey => (~Live(<<Methods[op], key>>, now) \/ failures' > 0)
  PROVE  IInv'
<1> DEFINE k == [op |-> op, key |-> key, at |-> "work", run |-> begun', day |-> now,
                 todo |-> rows, rows |-> {}, told |-> Told(<<Methods[op], key>>)]
           slot == <<Methods[op], key>>
<1>1. TypeOK /\ begun \in Nat /\ failures \in Nat /\ begun' = begun + 1 /\ begun' \in Runs
      /\ (failures' \in Runs) /\ failures <= failures'
  BY Counted DEF IInv, Receive, TypeOK
<1>2. now \in 0..MaxDays
  BY BoundsAssumption DEF IInv, TypeOK
<1>3. Told(slot) \in SUBSET Runs
  BY <1>1 DEF TypeOK, Told
<1>4. k \in Calls
  BY <1>1, <1>2, <1>3 DEF Calls
<1>5. /\ call' = [call EXCEPT ![c] = k] /\ day' = now
      /\ UNCHANGED <<table, records, audited, answers, ran, changed>>
  BY DEF Receive, ghosts
<1>6. call \in [Callers -> Calls]
  BY <1>1 DEF TypeOK
<1>7. /\ call' \in [Callers -> Calls] /\ call'[c] = k
      /\ \A d \in Callers \ {c} : call'[d] = call[d]
  BY <1>4, <1>5, <1>6
<1>8. TypeOK'
  BY <1>1, <1>2, <1>5, <1>7 DEF TypeOK
<1>9. k.at = "work" /\ k.run = begun' /\ k.rows = {} /\ k.told = Told(slot) /\ k.day = now
      /\ <<Methods[k.op], k.key>> = slot
  OBVIOUS
<1> HIDE DEF k
<1>10. Slot(c)' = slot
  BY <1>7, <1>9 DEF Slot
<1>11. Lapsed(Slot(c), call[c].told, call[c].day)'
  <2> SUFFICES ASSUME slot \in Slots, Told(slot) # {}
               PROVE  \/ records[slot] # NoRecord /\ records[slot].expires <= now
                      \/ failures' > 0
    BY <1>5, <1>7, <1>9, <1>10 DEF Lapsed
  <2>1. PICK a \in answers : a.slot = slot
    BY <1>5 DEF Told
  <2>2. a.of = records[slot].of \/ failures > 0
    BY <2>1 DEF IInv, OneAnswerPerKey
  <2>3. 1 <= a.of
    BY <2>1 DEF IInv, Answered, Ended, RunOK
  <2>4. records[slot] # NoRecord \/ failures > 0
    BY <2>2, <2>3 DEF NoRecord
  <2>5. key # NoKey
    BY SetsAssumption DEF Slots
  <2>6. records[slot].expires \in Nat /\ now \in Nat
    BY <1>1, <1>2, BoundsAssumption DEF TypeOK
  <2>7. records[slot].expires <= now \/ failures' > 0
    BY <2>5, <2>6 DEF Live
  <2>8. failures > 0 => failures' > 0
    BY <1>1, BoundsAssumption DEF Runs
  <2> QED
    BY <2>4, <2>7, <2>8
<1>12. changed[begun'] = {} /\ \A r \in ran : r.run # begun'
  BY <1>1 DEF IInv, RunsApart, RunOK, TypeOK, Runs
<1>13. CallOK(c)'
  <2>1. 1 <= begun' /\ begun' <= begun' /\ changed'[begun'] = {} /\ \A r \in ran' : r.run # begun'
    BY <1>1, <1>5, <1>12
  <2> QED
    BY <1>7, <1>9, <1>11, <2>1 DEF CallOK
<1> QED
  BY <1>1, <1>5, <1>7, <1>8, <1>9, <1>13, StepKeeps
LEMMA StoredIInv ==
  ASSUME IInv, NEW c \in Callers, NEW op \in Operations, NEW key \in Keys,
         NEW now \in day..MaxDays, stored(c, op, key, now)
  PROVE  IInv'
<1> DEFINE slot == <<Methods[op], key>>
<1>1. TypeOK /\ begun \in Nat /\ failures \in Nat /\ begun' = begun + 1 /\ begun' \in Runs
  BY Counted DEF IInv, stored
<1>2. slot \in Slots
  BY DEF Slots, Tags
<1>3. records[slot] # NoRecord /\ records[slot].of \in Runs
  BY <1>1, <1>2, BoundsAssumption DEF stored, Live, NoRecord, TypeOK
<1>4. /\ UNCHANGED <<table, records, call, failures, ran, changed, audited>> /\ day' = now
      /\ answers' = answers \cup {[call |-> begun', slot |-> slot, of |-> records[slot].of]}
  BY DEF stored
<1>5. now \in 0..MaxDays /\ slot \in Tags \X (Keys \cup {NoKey})
  BY <1>1, <1>2, BoundsAssumption DEF TypeOK, Slots
<1>6. TypeOK'
  BY <1>1, <1>3, <1>4, <1>5 DEF TypeOK
<1>7. Ended(records[slot].of, slot)
  BY <1>2, <1>3 DEF IInv, Answered
<1>8. \A a \in answers' : a \in answers \/ (a.slot = slot /\ a.of = records[slot].of)
  BY <1>4
<1>9. \A a \in answers' : a \in answers \/ (Ended(a.of, a.slot)' /\ a.of = records'[a.slot].of)
  BY <1>4, <1>7, <1>8 DEF Ended
<1>10. CallOK(c)'
  <2>1. CallOK(c) /\ Slot(c)' = Slot(c) /\ Keyed(c)' = Keyed(c) /\ call[c].run \in Nat
    BY <1>1, <1>4, BoundsAssumption DEF IInv, Slot, Keyed, TypeOK, Calls, Runs
  <2> QED
    BY <1>1, <1>4, <2>1 DEF CallOK, Lapsed, Ended
<1> QED
  BY <1>1, <1>4, <1>6, <1>9, <1>10, StepKeeps

LEMMA DispatchIInv ==
  ASSUME IInv, NEW c \in Callers, dispatch(c)
  PROVE  IInv'
<1>1. PICK request \in Requests, rows \in SUBSET Rows, now \in day..MaxDays :
        IF request.key = NoKey
          THEN Receive(c, request.op, request.key, rows, now) /\ UNCHANGED failures
          ELSE \/ lookup(c, request.op, request.key, rows, now)
               \/ stored(c, request.op, request.key, now)
  BY DEF dispatch
<1>2. request.op \in Operations /\ request.key \in Keys \cup {NoKey}
  BY RequestsAssumption
<1>3. CASE request.key = NoKey
  BY <1>1, <1>2, <1>3, ReceiveIInv
<1>4. CASE request.key # NoKey /\ lookup(c, request.op, request.key, rows, now)
  <2>1. Receive(c, request.op, request.key, rows, now)
    BY <1>4 DEF lookup
  <2>2. \/ ~Live(<<Methods[request.op], request.key>>, now) /\ failures' = failures
        \/ Fails /\ failures' > 0
    BY <1>4, Counted DEF lookup, IInv
  <2> QED
    BY <1>2, <2>1, <2>2, ReceiveIInv
<1>5. CASE request.key # NoKey /\ stored(c, request.op, request.key, now)
  BY <1>2, <1>5, StoredIInv
<1> QED
  BY <1>1, <1>3, <1>4, <1>5
-----------------------------------------------------------------------------
\* A request at work goes on, having changed one more row or none.
LEMMA WorkGoesOn ==
  ASSUME IInv, NEW c \in Callers, call[c].at \in {"work", "each"}, NEW k \in Calls,
         call' = [call EXCEPT ![c] = k], k.at \in {"work", "each", "audit"},
         k.op = call[c].op /\ k.key = call[c].key,
         k.run = call[c].run /\ k.told = call[c].told /\ k.day = call[c].day,
         k.at = "work"  => k.rows = {} /\ changed'[k.run] = {},
         k.at = "each"  => k.op # "badCreate" /\ changed'[k.run] \cup k.todo = k.rows,
         k.at = "audit" => changed'[k.run] = k.rows,
         \A n \in Runs : n # call[c].run => changed'[n] = changed[n],
         changed' \in [Runs -> SUBSET Rows], table' \in [Rows -> Row],
         UNCHANGED <<records, day, begun, failures, answers, ran, audited>>
  PROVE  IInv'
<1>1. TypeOK /\ failures \in Nat /\ begun \in Nat /\ call \in [Callers -> Calls]
  BY Counted DEF IInv, TypeOK
<1>2. /\ call' \in [Callers -> Calls] /\ call'[c] = k
      /\ \A d \in Callers \ {c} : call'[d] = call[d]
  BY <1>1
<1>3. TypeOK'
  BY <1>1, <1>2 DEF TypeOK
<1>4. Slot(c)' = Slot(c) /\ CallOK(c)
  BY <1>2 DEF Slot, IInv
<1>5. CallOK(c)'
  BY <1>2, <1>4 DEF CallOK, Lapsed
<1> QED
  BY <1>1, <1>2, <1>3, <1>5, StepKeeps

LEMMA MadeIsRow ==
  ASSUME TypeOK, NEW op \in Operations, NEW r \in Rows, NEW run \in Runs, op # "badCreate"
  PROVE  Made(op, r, run) \in Row
<1>1. table[r] \in Row /\ 0 \in Runs
  BY BoundsAssumption DEF TypeOK, Runs
<1>2. op \in {"create", "bulkCreate", "update", "bulkUpdate", "archive", "bulkDelete", "restore",
             "hardDelete", "badCreate"}
  BY DEF Operations, Methods
<1>3. CASE op \in {"create", "bulkCreate", "update", "bulkUpdate"}
  BY <1>3 DEF Made, Row
<1>4. CASE op \in {"archive", "bulkDelete"}
  BY <1>1, <1>4 DEF Made, Row
<1>5. CASE op = "restore"
  BY <1>1, <1>5 DEF Made, Row
<1>6. CASE op = "hardDelete"
  BY <1>1, <1>6 DEF Made, Row, NoRow
<1> QED
  BY <1>2, <1>3, <1>4, <1>5, <1>6

LEMMA ChangeFacts ==
  ASSUME TypeOK, NEW c \in Callers, NEW r \in Rows, call[c].op # "badCreate", Change(c, r)
  PROVE  /\ table' \in [Rows -> Row] /\ changed' \in [Runs -> SUBSET Rows]
         /\ changed'[call[c].run] = changed[call[c].run] \cup {r}
         /\ \A n \in Runs : n # call[c].run => changed'[n] = changed[n]
         /\ table' = [table EXCEPT ![r] = Made(call[c].op, r, call[c].run)]
<1>1. call[c].op \in Operations /\ call[c].run \in Runs
  BY DEF TypeOK, Calls
<1>2. Made(call[c].op, r, call[c].run) \in Row
  BY <1>1, MadeIsRow
<1> QED
  BY <1>1, <1>2 DEF TypeOK, Change
LEMMA WorkIInv ==
  ASSUME IInv, NEW c \in Callers, work(c)
  PROVE  IInv'
<1>1. /\ call[c].at = "work" /\ call[c].op \in OnOneRow
      /\ UNCHANGED <<records, day, begun, failures, answers, ran, audited>>
  BY DEF work
<1>2. PICK r \in call[c].todo :
        IF Fits(call[c].op, r)
          THEN /\ Change(c, r)
               /\ call' = [call EXCEPT ![c].rows = {r}, ![c].todo = {}, ![c].at = "audit"]
          ELSE Finish(c) /\ UNCHANGED <<table, changed>>
  BY DEF work
<1>3. TypeOK /\ call[c] \in Calls /\ r \in Rows /\ call \in [Callers -> Calls] /\ CallOK(c)
  BY DEF IInv, TypeOK, Calls
<1>4. CASE Fits(call[c].op, r)
  <2> DEFINE k == [call[c] EXCEPT !.rows = {r}, !.todo = {}, !.at = "audit"]
  <2>1. call' = [call EXCEPT ![c] = k] /\ k \in Calls
    BY <1>2, <1>3, <1>4 DEF Calls
  <2>2. /\ k.at = "audit" /\ k.op = call[c].op /\ k.key = call[c].key /\ k.run = call[c].run
        /\ k.told = call[c].told /\ k.day = call[c].day /\ k.rows = {r}
    BY <1>3 DEF Calls
  <2> HIDE DEF k
  <2>3. call[c].op # "badCreate"
    BY <1>1 DEF OnOneRow
  <2>4. /\ table' \in [Rows -> Row] /\ changed' \in [Runs -> SUBSET Rows]
        /\ changed'[call[c].run] = changed[call[c].run] \cup {r}
        /\ \A n \in Runs : n # call[c].run => changed'[n] = changed[n]
    BY <1>2, <1>3, <1>4, <2>3, ChangeFacts
  <2>5. changed'[k.run] = k.rows
    BY <1>1, <1>3, <2>2, <2>4 DEF CallOK
  <2> QED
    BY <1>1, <2>1, <2>2, <2>4, <2>5, WorkGoesOn
<1>5. CASE ~Fits(call[c].op, r)
  BY <1>1, <1>2, <1>3, <1>5, OverIInv DEF TypeOK
<1> QED
  BY <1>4, <1>5

LEMMA ListIInv ==
  ASSUME IInv, NEW c \in Callers, list(c)
  PROVE  IInv'
<1>1. /\ call[c].at = "work" /\ call[c].op # "badCreate"
      /\ UNCHANGED <<table, records, day, begun, failures, audited, answers, ran, changed>>
  BY DEF list, ghosts
<1>2. PICK rows \in SUBSET Rows :
        call' = [call EXCEPT ![c].at = "each", ![c].todo = rows, ![c].rows = rows]
  BY DEF list
<1>3. TypeOK /\ call[c] \in Calls /\ call \in [Callers -> Calls] /\ CallOK(c)
  BY DEF IInv, TypeOK
<1> DEFINE k == [call[c] EXCEPT !.at = "each", !.todo = rows, !.rows = rows]
<1>4. call' = [call EXCEPT ![c] = k] /\ k \in Calls
  BY <1>2, <1>3 DEF Calls
<1>5. /\ k.at = "each" /\ k.op = call[c].op /\ k.key = call[c].key /\ k.run = call[c].run
      /\ k.told = call[c].told /\ k.day = call[c].day /\ k.rows = rows /\ k.todo = rows
  BY <1>3 DEF Calls
<1> HIDE DEF k
<1>6. changed'[k.run] \cup k.todo = k.rows
  BY <1>1, <1>3, <1>5 DEF CallOK
<1>7. changed' \in [Runs -> SUBSET Rows] /\ table' \in [Rows -> Row]
  BY <1>1, <1>3 DEF TypeOK
<1> QED
  BY <1>1, <1>4, <1>5, <1>6, <1>7, WorkGoesOn

LEMMA EachIInv ==
  ASSUME IInv, NEW c \in Callers, each(c)
  PROVE  IInv'
<1>1. call[c].at = "each" /\ UNCHANGED <<records, day, begun, failures, answers, ran, audited>>
  BY DEF each
<1>2. TypeOK /\ call[c] \in Calls /\ call \in [Callers -> Calls] /\ CallOK(c)
      /\ table \in [Rows -> Row] /\ changed \in [Runs -> SUBSET Rows]
  BY DEF IInv, TypeOK
<1>3. call[c].op # "badCreate" /\ changed[call[c].run] \cup call[c].todo = call[c].rows
  BY <1>1, <1>2 DEF CallOK
<1>4. CASE call[c].todo = {} /\ Goto(c, "audit") /\ UNCHANGED <<table, changed>>
  <2> DEFINE k == [call[c] EXCEPT !.at = "audit"]
  <2>1. call' = [call EXCEPT ![c] = k] /\ k \in Calls
    BY <1>2, <1>4 DEF Calls, Goto
  <2>2. /\ k.at = "audit" /\ k.op = call[c].op /\ k.key = call[c].key /\ k.run = call[c].run
        /\ k.told = call[c].told /\ k.day = call[c].day /\ k.rows = call[c].rows
    BY <1>2 DEF Calls
  <2> HIDE DEF k
  <2> QED
    BY <1>1, <1>2, <1>3, <1>4, <2>1, <2>2, WorkGoesOn
<1>5. ASSUME NEW r \in call[c].todo, Fits(call[c].op, r), Change(c, r),
             call' = [call EXCEPT ![c].todo = @ \ {r}]
      PROVE  IInv'
  <2> DEFINE k == [call[c] EXCEPT !.todo = @ \ {r}]
  <2>1. call' = [call EXCEPT ![c] = k] /\ k \in Calls
    BY <1>2, <1>5 DEF Calls
  <2>2. /\ k.at = "each" /\ k.op = call[c].op /\ k.key = call[c].key /\ k.run = call[c].run
        /\ k.told = call[c].told /\ k.day = call[c].day /\ k.rows = call[c].rows
        /\ k.todo = call[c].todo \ {r}
    BY <1>1, <1>2 DEF Calls
  <2> HIDE DEF k
  <2>3. r \in Rows
    BY <1>2 DEF Calls
  <2>4. /\ table' \in [Rows -> Row] /\ changed' \in [Runs -> SUBSET Rows]
        /\ changed'[call[c].run] = changed[call[c].run] \cup {r}
        /\ \A n \in Runs : n # call[c].run => changed'[n] = changed[n]
    BY <1>2, <1>3, <1>5, <2>3, ChangeFacts
  <2>5. changed'[k.run] \cup k.todo = k.rows
    BY <1>3, <2>2, <2>4
  <2> QED
    BY <1>1, <1>3, <2>1, <2>2, <2>4, <2>5, WorkGoesOn
<1>6. CASE Finish(c) /\ UNCHANGED <<table, changed>>
  BY <1>1, <1>2, <1>6, OverIInv
<1> QED
  BY <1>4, <1>5, <1>6 DEF each
-----------------------------------------------------------------------------
\* What an answer adds.
LEMMA AnswerFacts ==
  ASSUME TypeOK, NEW c \in Callers, NEW run \in Runs, Answer(c, run)
  PROVE  /\ answers' \subseteq [call : Runs, slot : Tags \X (Keys \cup {NoKey}), of : Runs]
         /\ \A a \in answers' : a \in answers \/ (a.slot = Slot(c) /\ a.of = run)
         /\ Finish(c)
<1>1. call[c].run \in Runs /\ Slot(c) \in Tags \X (Keys \cup {NoKey})
  BY SlotOfKey DEF TypeOK, Slot, Calls
<1> QED
  BY <1>1 DEF Answer, TypeOK

\* A run comes to its end.
LEMMA EndsIInv ==
  ASSUME IInv, NEW c \in Callers, call[c].at \in {"work", "audit"},
         ran' = ran \cup {[run |-> call[c].run, slot |-> Slot(c), day |-> call[c].day,
                           rows |-> call[c].rows, told |-> call[c].told]},
         audited \subseteq audited', audited' \subseteq audited \cup {call[c].run},
         failures' = failures \/ Fails,
         call[c].rows # {} => (call[c].run \in audited' \/ failures' > 0),
         IF Keyed(c) THEN Goto(c, "store") /\ UNCHANGED answers ELSE Answer(c, call[c].run),
         UNCHANGED <<table, records, day, begun, changed>>
  PROVE  IInv'
<1>1. PICK r : r = [run |-> call[c].run, slot |-> Slot(c), day |-> call[c].day,
                    rows |-> call[c].rows, told |-> call[c].told]
  OBVIOUS
<1>2. /\ TypeOK /\ call[c] \in Calls /\ CallOK(c) /\ begun \in Nat /\ failures \in Nat
      /\ failures' \in Runs /\ failures <= failures' /\ call[c].run \in Runs
      /\ call[c].day \in 0..MaxDays
  BY Counted DEF IInv, TypeOK, Calls
<1>3. Slot(c) \in Tags \X (Keys \cup {NoKey}) /\ (Keyed(c) <=> Slot(c) \in Slots)
  BY <1>2, SlotOfKey DEF Slot, Keyed
<1>4. r \in [run : Runs, slot : Tags \X (Keys \cup {NoKey}), day : 0..MaxDays,
             rows : SUBSET Rows, told : SUBSET Runs]
  BY <1>1, <1>2, <1>3 DEF Calls
<1>5. /\ r.run = call[c].run /\ r.slot = Slot(c) /\ r.day = call[c].day
      /\ r.rows = call[c].rows /\ r.told = call[c].told
      /\ ran' = ran \cup {r}
  BY <1>1
<1>6. RunOK(r)'
  <2>1. /\ 1 <= call[c].run /\ call[c].run <= begun /\ changed[call[c].run] = call[c].rows
        /\ Lapsed(r.slot, r.told, r.day)
    BY <1>2, <1>5 DEF CallOK
  <2>2. Lapsed(r.slot, r.told, r.day)'
    BY <1>2, <2>1 DEF Lapsed, Runs
  <2> QED
    BY <1>5, <2>1, <2>2 DEF RunOK
<1>7. CASE Keyed(c) /\ Goto(c, "store") /\ UNCHANGED answers
  <2>1. /\ call' \in [Callers -> Calls] /\ call'[c] = [call[c] EXCEPT !.at = "store"]
        /\ \A d \in Callers \ {c} : call'[d] = call[d]
        /\ Slot(c)' = Slot(c) /\ Keyed(c)' = Keyed(c)
    BY <1>2, <1>7, GotoFacts
  <2>2. TypeOK'
    BY <1>2, <1>4, <1>5, <1>7, <2>1 DEF TypeOK
  <2>3. /\ call'[c].at = "store" /\ call'[c].run = call[c].run /\ call'[c].told = call[c].told
        /\ call'[c].day = call[c].day
    BY <1>2, <2>1 DEF Calls
  <2>4. CallOK(c)'
    <3>1. Ended(call[c].run, Slot(c))' /\ Lapsed(Slot(c), call[c].told, call[c].day)'
      BY <1>5, <1>6, <2>1, <2>3 DEF Ended, RunOK
    <3> QED
      BY <1>2, <1>7, <2>1, <2>3, <3>1 DEF CallOK
  <2>5. \A x \in ran' : x \in ran \/ (x.run = call[c].run /\ call[c].at # "idle" /\ RunOK(x)')
    BY <1>5, <1>6
  <2>6. /\ answers' = answers /\ begun <= begun' /\ failures <= failures' /\ ran \subseteq ran'
        /\ \A d \in Callers \ {c} : call'[d] = call[d]
        /\ call[c].at # "idle" /\ call'[c].run = call[c].run
    BY <1>2, <1>5, <1>7, <2>1, <2>3
  <2> QED
    BY <2>2, <2>4, <2>5, <2>6, StepKeeps
<1>8. CASE ~Keyed(c) /\ Answer(c, call[c].run)
  <2>1. /\ answers' \subseteq [call : Runs, slot : Tags \X (Keys \cup {NoKey}), of : Runs]
        /\ \A a \in answers' : a \in answers \/ (a.slot = Slot(c) /\ a.of = call[c].run)
        /\ call' \in [Callers -> Calls] /\ call'[c].at = "idle" /\ CallOK(c)'
        /\ \A d \in Callers \ {c} : call'[d] = call[d]
    BY <1>2, <1>8, AnswerFacts, FinishFacts
  <2>2. TypeOK'
    BY <1>2, <1>4, <1>5, <2>1 DEF TypeOK
  <2>3. \A a \in answers' : a \in answers \/ (Ended(a.of, a.slot)' /\ a.slot \notin Slots)
    BY <1>3, <1>5, <1>8, <2>1 DEF Ended
  <2> QED
    BY <1>2, <1>5, <1>6, <2>1, <2>2, <2>3, StepKeeps
<1> QED
  BY <1>7, <1>8

LEMMA AuditIInv ==
  ASSUME IInv, NEW c \in Callers, write(c) \/ writeFails(c)
  PROVE  IInv'
<1>1. CASE write(c)
  BY <1>1, EndsIInv DEF audit, write
<1>2. CASE writeFails(c)
  <2>1. failures' > 0 /\ Fails
    BY <1>2, Counted DEF IInv, writeFails
  <2> QED
    BY <1>2, <2>1, EndsIInv DEF audit, writeFails
<1> QED
  BY <1>1, <1>2

LEMMA ValidationErrorIInv ==
  ASSUME IInv, NEW c \in Callers, validationError(c)
  PROVE  IInv'
<1>1. call[c].rows = {}
  BY DEF IInv, CallOK, validationError
<1> QED
  BY <1>1, EndsIInv DEF validationError

\* The answer of a request with a key is given, and perhaps stored.
LEMMA AnswersIInv ==
  ASSUME IInv, NEW c \in Callers, call[c].at \in {"store", "race"},
         NEW run \in Runs, Answer(c, run),
         failures' = failures \/ Fails,
         \/ records' = records
         \/ /\ records[Slot(c)] = NoRecord /\ run = call[c].run
            /\ records' = [records EXCEPT ![Slot(c)] = [of |-> run, expires |-> call[c].day + WINDOW]],
         \/ run = call[c].run /\ failures' > 0
         \/ run = records'[Slot(c)].of /\ records'[Slot(c)] # NoRecord,
         UNCHANGED <<table, day, begun, ran, changed, audited>>
  PROVE  IInv'
<1>1. /\ TypeOK /\ call[c] \in Calls /\ CallOK(c) /\ begun \in Nat /\ failures \in Nat
      /\ failures' \in Runs /\ failures <= failures' /\ call[c].run \in Runs
      /\ call[c].day \in 0..MaxDays
  BY Counted DEF IInv, TypeOK, Calls
<1>2. Slot(c) \in Slots /\ Ended(call[c].run, Slot(c))
  BY <1>1, SlotOfKey DEF Slot, Keyed, CallOK
<1>3. /\ answers' \subseteq [call : Runs, slot : Tags \X (Keys \cup {NoKey}), of : Runs]
      /\ \A a \in answers' : a \in answers \/ (a.slot = Slot(c) /\ a.of = run)
      /\ call' \in [Callers -> Calls] /\ call'[c].at = "idle" /\ CallOK(c)'
      /\ \A d \in Callers \ {c} : call'[d] = call[d]
  BY <1>1, AnswerFacts, FinishFacts
<1>4. [of |-> call[c].run, expires |-> call[c].day + WINDOW]
        \in [of : Runs, expires : 0..(MaxDays + WINDOW)]
  BY <1>1, BoundsAssumption
<1>5. records' \in [Slots -> [of : Runs, expires : 0..(MaxDays + WINDOW)]]
  BY <1>1, <1>2, <1>4 DEF TypeOK
<1>6. \A s \in Slots : \/ records'[s] = records[s]
                       \/ /\ records[s] = NoRecord
                          /\ \E r \in ran' : r.run = records'[s].of /\ r.slot = s
  BY <1>1, <1>2 DEF Ended, TypeOK
<1>7. TypeOK'
  BY <1>1, <1>3, <1>5 DEF TypeOK
<1>8. Ended(run, Slot(c))
  <2>1. CASE run = call[c].run
    BY <1>2, <2>1
  <2>2. CASE run = records[Slot(c)].of /\ records[Slot(c)] # NoRecord
    BY <1>2, <2>2 DEF IInv, Answered
  <2> QED
    BY <2>1, <2>2
<1>9. \A a \in answers' : \/ a \in answers
                          \/ /\ Ended(a.of, a.slot)'
                             /\ a.of = records'[a.slot].of \/ failures' > 0
  BY <1>3, <1>8 DEF Ended
<1> QED
  BY <1>1, <1>3, <1>6, <1>7, <1>9, StepKeeps
LEMMA StoreIInv ==
  ASSUME IInv, NEW c \in Callers, store(c)
  PROVE  IInv'
<1>1. TypeOK /\ call[c].run \in Runs /\ CallOK(c) /\ call[c].at = "store"
  BY DEF IInv, TypeOK, Calls, store
<1>2. Slot(c) \in Slots /\ 1 <= call[c].run
  BY <1>1, SlotOfKey DEF CallOK, Slot, Keyed, TypeOK
<1>3. CASE records[Slot(c)] = NoRecord
  <2>1. Answer(c, call[c].run) /\ records' = [records EXCEPT ![Slot(c)] =
                                   [of |-> call[c].run, expires |-> call[c].day + WINDOW]]
    BY <1>3 DEF store
  <2>2. records'[Slot(c)].of = call[c].run /\ records'[Slot(c)] # NoRecord
    BY <1>1, <1>2, <2>1 DEF TypeOK, NoRecord
  <2>3. UNCHANGED <<table, day, begun, failures, ran, changed, audited>>
    BY DEF store
  <2> QED
    BY <1>1, <1>3, <2>1, <2>2, <2>3, AnswersIInv
<1>4. CASE records[Slot(c)] # NoRecord
  <2>1. records[Slot(c)].of \in Runs
    BY <1>1, <1>2 DEF TypeOK
  <2>2. /\ Answer(c, records[Slot(c)].of) /\ records' = records
        /\ UNCHANGED <<table, day, begun, failures, ran, changed, audited>>
    BY <1>4 DEF store
  <2>3. records'[Slot(c)].of = records[Slot(c)].of /\ records'[Slot(c)] # NoRecord
    BY <1>4, <2>2
  <2> QED
    BY <1>1, <2>1, <2>2, <2>3, AnswersIInv
<1> QED
  BY <1>3, <1>4

LEMMA StoreFailsIInv ==
  ASSUME IInv, NEW c \in Callers, storeFails(c)
  PROVE  IInv'
<1>1. /\ call[c].at = "store" /\ Goto(c, "race") /\ day' = day
      /\ UNCHANGED <<table, records, begun, audited, answers, ran, changed>>
  BY DEF storeFails, ghosts
<1>2. /\ TypeOK /\ CallOK(c) /\ call[c] \in Calls /\ begun \in Nat /\ failures \in Nat
      /\ failures' \in Runs /\ failures <= failures' /\ failures' > 0
  BY Counted DEF IInv, TypeOK, storeFails
<1>3. /\ call' \in [Callers -> Calls] /\ call'[c] = [call[c] EXCEPT !.at = "race"]
      /\ \A d \in Callers \ {c} : call'[d] = call[d]
      /\ Slot(c)' = Slot(c) /\ Keyed(c)' = Keyed(c)
  BY <1>1, <1>2, GotoFacts
<1>4. /\ call'[c].at = "race" /\ call'[c].run = call[c].run /\ call'[c].told = call[c].told
      /\ call'[c].day = call[c].day
  BY <1>2, <1>3 DEF Calls
<1>5. TypeOK'
  BY <1>1, <1>2, <1>3 DEF TypeOK
<1>6. CallOK(c)'
  BY <1>1, <1>2, <1>3, <1>4 DEF CallOK, Lapsed, Ended
<1>7. /\ begun <= begun' /\ failures <= failures' /\ call[c].at # "idle"
      /\ \A d \in Callers \ {c} : call'[d] = call[d]
  BY <1>1, <1>2, <1>3
<1> QED
  BY <1>1, <1>4, <1>5, <1>6, <1>7, StepKeeps

LEMMA RaceIInv ==
  ASSUME IInv, NEW c \in Callers, race(c) \/ raceFails(c)
  PROVE  IInv'
<1>1. TypeOK /\ call[c].run \in Runs /\ CallOK(c) /\ call[c].at \in {"store", "race"}
  BY DEF IInv, TypeOK, Calls, race, raceFails
<1>2. Slot(c) \in Slots
  BY <1>1, SlotOfKey DEF CallOK, Slot, Keyed, TypeOK
<1>3. CASE raceFails(c)
  <2>1. Fails /\ failures' > 0
    BY <1>1, <1>3, Counted DEF raceFails
  <2> QED
    BY <1>1, <1>3, <2>1, AnswersIInv DEF raceFails
<1>4. CASE race(c)
  <2>1. failures' > 0 /\ records[Slot(c)].of \in Runs
    BY <1>1, <1>2, <1>4 DEF CallOK, race, TypeOK
  <2>2. CASE records[Slot(c)] = NoRecord
    BY <1>1, <1>4, <2>1, <2>2, AnswersIInv DEF race
  <2>3. CASE records[Slot(c)] # NoRecord
    BY <1>1, <1>4, <2>1, <2>3, AnswersIInv DEF race
  <2> QED
    BY <2>2, <2>3
<1> QED
  BY <1>3, <1>4
-----------------------------------------------------------------------------
LEMMA StutterIInv == IInv /\ UNCHANGED vars => IInv'
<1> SUFFICES ASSUME IInv, UNCHANGED vars PROVE IInv'
  OBVIOUS
<1> USE DEF vars
<1>1. TypeOK' /\ RunsApart' /\ Answered' /\ OneAnswerPerKey'
  BY DEF IInv, TypeOK, RunsApart, Answered, Ended, OneAnswerPerKey
<1>2. (\A c \in Callers : CallOK(c)') /\ \A r \in ran' : RunOK(r)'
  BY DEF IInv, CallOK, RunOK, Ended, Lapsed, Slot, Keyed
<1> QED
  BY <1>1, <1>2 DEF IInv

LEMMA StepIInv == IInv /\ [Next]_vars => IInv'
<1> SUFFICES ASSUME IInv, NEW c \in Callers, Step(c) PROVE IInv'
  BY StutterIInv DEF Next
<1> QED
  BY DispatchIInv, WorkIInv, ValidationErrorIInv, ListIInv, EachIInv, AuditIInv, StoreIInv,
     StoreFailsIInv, RaceIInv, StopsIInv DEF Step

LEMMA Invariant == Spec => []IInv
BY InitIInv, StepIInv, PTL DEF Spec

\* Types, for every value of the constants.
THEOREM TypeCorrect == Spec => []TypeOK
BY Invariant, PTL DEF IInv

\* A key has one answer: requests that are sent again run nothing as long as the
\* record lives and get that answer, which tells of a run that came to its end,
\* changed what it set out to change and is in the audit log.
THEOREM AnswersAlwaysKept == Spec => []AnswersKept
<1>1. IInv => AnswersKept
  <2> SUFFICES ASSUME IInv PROVE AnswersKept
    OBVIOUS
  <2>1. RetryRunsNothing
    BY DEF IInv, RetryRunsNothing, RunOK, Lapsed
  <2>2. AnswersTrue
    BY DEF IInv, AnswersTrue, Answered, Ended, RunOK
  <2> QED
    BY <2>1, <2>2 DEF IInv, AnswersKept
<1> QED
  BY <1>1, Invariant, PTL

\* An archived row is not edited, whoever had listed it before it was archived.
THEOREM ArchivedNeverTouched == Spec => ArchivedUntouched
<1> DEFINE Untouched ==
      \A r \in Rows : table[r].state = "archived" => table'[r].edit \in {table[r].edit, 0}
<1>1. ASSUME IInv, [Next]_vars PROVE Untouched
  <2>1. CASE table' = table
    BY <2>1
  <2>2. CASE table' # table
    <3>1. PICK c \in Callers : work(c) \/ each(c)
      <4>1. PICK c \in Callers : Step(c)
        BY <1>1, <2>2 DEF Next, vars
      <4>2. ~dispatch(c)
        BY <2>2, Zenon DEF dispatch, lookup, stored, Receive
      <4> QED
        BY <2>2, <4>1, <4>2 DEF Step, ghosts,
         validationError, list, write, writeFails, audit, store, storeFails, race, raceFails, stops
    <3>2. PICK r \in call[c].todo : Fits(call[c].op, r) /\ Change(c, r)
      BY <2>2, <3>1 DEF work, each
    <3>3. TypeOK /\ r \in Rows /\ call[c].op # "badCreate"
      BY <1>1, <3>1, <3>2 DEF IInv, TypeOK, Calls, CallOK, work, each, OnOneRow
    <3>4. table' = [table EXCEPT ![r] = Made(call[c].op, r, call[c].run)] /\ table \in [Rows -> Row]
      BY <3>2, <3>3, ChangeFacts DEF TypeOK
    <3>5. ASSUME table[r].state = "archived"
          PROVE  Made(call[c].op, r, call[c].run).edit \in {table[r].edit, 0}
      <4>1. call[c].op \in {"hardDelete", "restore"}
        BY <3>2, <3>3, <3>5 DEF Fits, TypeOK, Calls, Operations, Methods
      <4> QED
        BY <3>3, <4>1 DEF Made, NoRow, TypeOK, Row
    <3> QED
      BY <3>4, <3>5
  <2> QED
    BY <2>1, <2>2
<1>2. Spec => [][Untouched]_vars
  BY <1>1, Invariant, PTL DEF Spec
<1> QED
  BY <1>2 DEF ArchivedUntouched
=============================================================================
