------------------------------ MODULE SseMerge ------------------------------
(***************************************************************************)
(* mergeAndDeliver (sse-handler.ts): one loop fans the streams of a        *)
(* connection into its response.  "ongoing" holds their iterators and      *)
(* "pending" one promise each; Promise.race picks the lowest slot already  *)
(* settled, or else the first promise to settle.  A promise remembers the  *)
(* slot it was made for, and next() answers its calls in order.  When a    *)
(* stream ends, splice renumbers the slots above it: the promises there go *)
(* on with an index that is no longer theirs.                              *)
(***************************************************************************)
EXTENDS Naturals, Sequences, FiniteSets

CONSTANTS
  Handles,     \* subscriptions of the connection
  MaxAnswers,  \* bound: events of a stream
  None

ASSUME BoundsAssumption == Handles \in Nat \ {0} /\ MaxAnswers \in Nat
ASSUME NoneAssumption == None \notin [iter : Nat, call : Nat, i : Nat]

VARIABLES
  ongoing,       \* the iterators, by slot
  pending,       \* the promises, by slot
  calls,         \* next() calls made on an iterator
  settled,       \* how many of them have an answer
  doneAt,        \* the first call answered "done", 0 before
  winner,        \* the promise the current race resolved with
  written,       \* the answers of a stream that were written
  again,         \* history: streams of which an answer was written twice or late
  moved,         \* history: streams that a splice gave another slot
  left,          \* the connection state's "disconnected"
  loop           \* "racing", or "over"

mergeVars == <<ongoing, pending, calls, settled, doneAt, winner, written,
               again, moved, left, loop>>

Iters   == 1 .. Handles
Promises == [iter : Iters, call : Nat, i : Iters]
Promise(iter, call, i) == [iter |-> iter, call |-> call, i |-> i]

MergeInit ==
  /\ ongoing = [i \in Iters |-> i]
  /\ pending = [i \in Iters |-> Promise(i, 1, i)]
  /\ calls = [i \in Iters |-> 1]
  /\ settled = [i \in Iters |-> 0]
  /\ doneAt = [i \in Iters |-> 0]
  /\ winner = None /\ written = [i \in Iters |-> {}] /\ again = {} /\ moved = {}
  /\ left = FALSE /\ loop = "racing"

\* A stream answers the oldest call it has not answered: with an event, or with
\* "done" from the moment it has ended (its change stream failed or was closed).
Answers(iter) ==
  IF doneAt[iter] # 0 THEN {doneAt[iter]}
  ELSE {d \in {0, settled[iter] + 1} : d = 0 => settled[iter] < MaxAnswers}

Settle(iter) ==
  /\ settled[iter] < calls[iter]
  /\ settled' = [settled EXCEPT ![iter] = @ + 1]
  /\ \E d \in Answers(iter) : doneAt' = [doneAt EXCEPT ![iter] = d]
  /\ LET now == {j \in DOMAIN pending : /\ pending[j].iter = iter
                                        /\ pending[j].call = settled'[iter]} IN
       winner' = IF winner = None /\ loop = "racing" /\ now # {}
                 THEN pending[CHOOSE j \in now : TRUE] ELSE winner
  /\ UNCHANGED <<ongoing, pending, calls, written, again, moved, left, loop>>

\* request.onClose; the loop looks at it between two races only.
Disconnect ==
  /\ ~left
  /\ left' = TRUE
  /\ UNCHANGED <<ongoing, pending, calls, settled, doneAt, winner, written,
                 again, moved, loop>>

\* Array.prototype.splice(i, 1)
Splice(seq, i) ==
  IF i \notin DOMAIN seq THEN seq
  ELSE SubSeq(seq, 1, i - 1) \o SubSeq(seq, i + 1, Len(seq))

\* The next turn of the while loop: stop, or race the promises of p.
Race(p) ==
  LET ready == {j \in DOMAIN p : p[j].call <= settled[p[j].iter]} IN
  /\ loop' = IF p = <<>> \/ left THEN "over" ELSE "racing"
  /\ winner' = IF loop' = "racing" /\ ready # {}
               THEN p[CHOOSE j \in ready : \A k \in ready : j <= k] ELSE None

\* iter.next(): calls after the last event are all answered "done" and are one here.
NextCall(iter) == IF calls[iter] > MaxAnswers THEN calls[iter] ELSE calls[iter] + 1

Ask(slot, iter) ==
  /\ calls' = [calls EXCEPT ![iter] = NextCall(iter)]
  /\ pending' = [pending EXCEPT ![slot] = Promise(iter, NextCall(iter), slot)]

Write(w) ==
  /\ written' = [written EXCEPT ![w.iter] = @ \cup {w.call}]
  /\ again' = IF \E c \in written[w.iter] : c >= w.call THEN again \cup {w.iter} ELSE again

\* Mutants: the refill pushes a promise instead of replacing one; the slot of an
\* event is filled again by the stream after it.
RefillPushes(w) ==
  /\ Write(w)
  /\ calls' = [calls EXCEPT ![w.iter] = NextCall(w.iter)]
  /\ pending' = Append(pending, Promise(w.iter, NextCall(w.iter), w.i))
  /\ UNCHANGED <<ongoing, moved>>
RefillNextSlot(w) ==
  /\ Write(w)
  /\ Ask(w.i, ongoing[(w.i % Len(ongoing)) + 1])
  /\ UNCHANGED <<ongoing, moved>>

\* Mutant: the event is taken, its stream is asked again, and nothing is written.
RefillOnly(w) ==
  /\ w.i \in DOMAIN ongoing
  /\ Ask(w.i, ongoing[w.i])
  /\ UNCHANGED <<ongoing, moved, written, again>>

\* writeEvent, then "Refill this slot".
Refill(w) ==
  /\ Write(w)
  /\ IF w.i \in DOMAIN ongoing THEN Ask(w.i, ongoing[w.i]) ELSE UNCHANGED <<calls, pending>>
  /\ UNCHANGED <<ongoing, moved>>

\* Mutant: the stream that is done stays in the race.
RemoveKeepsPending(w) ==
  /\ ongoing' = Splice(ongoing, w.i)
  /\ moved' = moved \cup {ongoing[j] : j \in {k \in DOMAIN ongoing : k > w.i}}
  /\ UNCHANGED <<pending, calls, written, again>>

\* Both arrays lose the slot the promise names, whoever is in it by now.
Remove(w) ==
  /\ ongoing' = Splice(ongoing, w.i)
  /\ pending' = Splice(pending, w.i)
  /\ moved' = moved \cup {ongoing[j] : j \in {k \in DOMAIN ongoing : k > w.i}}
  /\ UNCHANGED <<calls, written, again>>

Deliver ==
  /\ winner # None
  /\ LET done == doneAt[winner.iter] # 0 /\ winner.call >= doneAt[winner.iter] IN
       \/ done /\ Remove(winner)
       \/ ~done /\ Refill(winner)
  /\ Race(pending')
  /\ UNCHANGED <<settled, doneAt, left>>

MergeNext == Deliver \/ Disconnect \/ \E iter \in Iters : Settle(iter)

MergeSpec == MergeInit /\ [][MergeNext]_mergeVars

\* The event loop runs the continuation of a settled promise, and a stream that
\* has ended answers every next() at once.  When a stream yields is up to its table.
FairMergeSpec ==
  /\ MergeSpec
  /\ WF_mergeVars(Deliver)
  /\ \A iter \in Iters : WF_mergeVars(doneAt[iter] # 0 /\ Settle(iter))
-----------------------------------------------------------------------------
\* Every variable has its type.
MergeTypeOK ==
  /\ ongoing \in Seq(Iters) /\ pending \in Seq(Promises)
  /\ calls \in [Iters -> Nat] /\ settled \in [Iters -> Nat] /\ doneAt \in [Iters -> Nat]
  /\ winner \in Promises \cup {None}
  /\ written \in [Iters -> SUBSET Nat] /\ again \subseteq Iters /\ moved \subseteq Iters
  /\ left \in BOOLEAN /\ loop \in {"racing", "over"}

\* The two arrays belong together: one length, and in each slot a promise of its stream.
SameSlots ==
  /\ Len(ongoing) = Len(pending)
  /\ \A j \in DOMAIN pending : pending[j].iter = ongoing[j]

\* A stream that has not said "done", and below which none has ended, has its
\* newest call in the race, in the slot its answer will refill.
EveryStreamRaces ==
  \A iter \in Iters \ moved : doneAt[iter] = 0 =>
    \E j \in DOMAIN pending :
      ongoing[j] = iter /\ pending[j] = Promise(iter, calls[iter], j)

\* The arrays stay together whoever ends; every stream that a splice has not
\* moved stays in the race.  (sse-handler.ts:304, "Refill this slot")
RaceWellFormed == MergeTypeOK /\ SameSlots /\ EveryStreamRaces

\* The events of a stream that a splice has not moved are written in its order, each
\* once and none left out: all but the answer it was last asked for.
OnceInOrder ==
  \A iter \in Iters \ moved : iter \notin again /\ written[iter] = 1 .. calls[iter] - 1

\* Whatever a stream yields is written, unless the client disconnects or a stream
\* ends below another: the promise that stays behind then settles every race, and
\* nothing else of the process runs any more.
EverythingWritten ==
  \A iter \in Iters : \A c \in 1 .. MaxAnswers :
    (settled[iter] >= c /\ (doneAt[iter] = 0 \/ c < doneAt[iter]))
      ~> (c \in written[iter] \/ left \/ moved # {})

\* When every stream has ended, and none below another, so does the loop, and with
\* it the response.
LoopEnds == (\A iter \in Iters : doneAt[iter] # 0) ~> (loop = "over" \/ moved # {})

\* Everything is written, and then the loop ends, as long as no splice moves a stream.
StreamsServed == EverythingWritten /\ LoopEnds
=============================================================================
