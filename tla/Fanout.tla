------------------------------- MODULE Fanout -------------------------------
(***************************************************************************)
(* ChangeStreamFanout (changestream-shared): one source of change events,  *)
(* many subscribers with a buffer each.  publish() runs in the source's    *)
(* callback, next() in the subscriber's for-await loop; a subscriber that  *)
(* finds its buffer empty sleeps on a promise that publish(), close() or   *)
(* terminate() resolves.  JavaScript runs each of them to its end, so each *)
(* is one action, and they interleave in any order.                        *)
(*                                                                         *)
(* An event is its position in the source.  No source adapter publishes a  *)
(* gap itself, so droppedCount is zero again at the end of each publish(). *)
(***************************************************************************)
EXTENDS Naturals, Sequences, FiniteSets

CONSTANTS
  Subscribers,  \* iterables handed out by createSubscription
  Tables,       \* tables the source captures
  Wants,        \* the tables a subscriber asked for
  BufferSize,   \* opts.bufferSize
  MaxEvents     \* bound: events the source publishes

ASSUME WantsAssumption == Wants \in [Subscribers -> SUBSET Tables]
ASSUME SizesAssumption == BufferSize \in Nat \ {0} /\ MaxEvents \in Nat

VARIABLES
  published,    \* events published so far
  closed,       \* the fan-out takes no more events
  registered,   \* the keys of the subscribers map
  buffer,       \* what a slot still holds
  done,         \* the slot's flag
  consumer,     \* where the loop over the iterable stands
  received,     \* everything next() returned to a subscriber
  offered       \* positions publish() put into a subscriber's buffer

fanoutVars == <<published, closed, registered, buffer, done, consumer, received, offered>>

Items == [kind : {"data", "gap", "fatal"}, pos : 0 .. MaxEvents]
Data(p) == [kind |-> "data", pos |-> p]
Gap(p)  == [kind |-> "gap",  pos |-> p]
Fatal   == [kind |-> "fatal", pos |-> 0]

FanoutInit ==
  /\ published = 0 /\ closed = FALSE /\ registered = {}
  /\ buffer = [s \in Subscribers |-> <<>>]
  /\ done = [s \in Subscribers |-> FALSE]
  /\ consumer = [s \in Subscribers |-> "none"]
  /\ received = [s \in Subscribers |-> <<>>]
  /\ offered = [s \in Subscribers |-> {}]

createSubscription(s) ==
  /\ consumer[s] = "none"
  /\ registered' = registered \cup {s}
  /\ done' = [done EXCEPT ![s] = closed]
  /\ consumer' = [consumer EXCEPT ![s] = "reading"]
  /\ UNCHANGED <<published, closed, buffer, received, offered>>

-----------------------------------------------------------------------------
\* Mutants: the drop is not announced; the gap goes to the head of the buffer;
\* the gap names the position after the event.
EnqueueSilently(q, p) ==
  IF Len(q) >= BufferSize THEN Append(Tail(q), Data(p)) ELSE Append(q, Data(p))
EnqueueGapFirst(q, p) ==
  IF Len(q) >= BufferSize THEN <<Gap(p)>> \o Append(Tail(q), Data(p))
  ELSE Append(q, Data(p))
EnqueueLatePosition(q, p) ==
  IF Len(q) >= BufferSize THEN Tail(q) \o <<Gap(p + 1), Data(p)>>
  ELSE Append(q, Data(p))

\* A full buffer loses its oldest item, and gains a gap next to the event.
Enqueue(q, p) ==
  IF Len(q) >= BufferSize THEN Tail(q) \o <<Gap(p), Data(p)>>
  ELSE Append(q, Data(p))

\* Mutant: nobody resolves the sleeping promise.
WakeNone(S) == consumer
Wake(S) == [s \in Subscribers |->
              IF s \in S /\ consumer[s] = "waiting" THEN "reading" ELSE consumer[s]]

publish(t) ==
  /\ ~closed /\ published < MaxEvents
  /\ published' = published + 1
  /\ LET to == {s \in registered : ~done[s] /\ t \in Wants[s]} IN
       /\ buffer' = [s \in Subscribers |->
                       IF s \in to THEN Enqueue(buffer[s], published') ELSE buffer[s]]
       /\ offered' = [s \in Subscribers |->
                        IF s \in to THEN offered[s] \cup {published'} ELSE offered[s]]
       /\ consumer' = Wake(to)
  /\ UNCHANGED <<closed, registered, done, received>>

\* Mutant: a finished slot is not drained.
nextDoneFirst(s) ==
  /\ consumer[s] = "reading"
  /\ IF done[s]
     THEN /\ consumer' = [consumer EXCEPT ![s] = "ended"]
          /\ registered' = registered \ {s} /\ UNCHANGED <<buffer, received>>
     ELSE IF buffer[s] # <<>>
     THEN /\ received' = [received EXCEPT ![s] = Append(@, Head(buffer[s]))]
          /\ buffer' = [buffer EXCEPT ![s] = Tail(@)]
          /\ UNCHANGED <<registered, consumer>>
     ELSE /\ consumer' = [consumer EXCEPT ![s] = "waiting"]
          /\ UNCHANGED <<registered, buffer, received>>
  /\ UNCHANGED <<published, closed, done, offered>>

next(s) ==
  /\ consumer[s] = "reading"
  /\ \/ /\ buffer[s] # <<>>
        /\ received' = [received EXCEPT ![s] = Append(@, Head(buffer[s]))]
        /\ buffer' = [buffer EXCEPT ![s] = Tail(@)]
        /\ UNCHANGED <<registered, consumer>>
     \/ /\ buffer[s] = <<>> /\ done[s]
        /\ consumer' = [consumer EXCEPT ![s] = "ended"]
        /\ registered' = registered \ {s}
        /\ UNCHANGED <<buffer, received>>
     \/ /\ buffer[s] = <<>> /\ ~done[s]
        /\ consumer' = [consumer EXCEPT ![s] = "waiting"]
        /\ UNCHANGED <<registered, buffer, received>>
  /\ UNCHANGED <<published, closed, done, offered>>

\* return(): a loop that breaks is gone; one asleep wakes up to find it is done.
return(s) ==
  /\ consumer[s] \in {"reading", "waiting"}
  /\ done' = [done EXCEPT ![s] = TRUE]
  /\ registered' = registered \ {s}
  /\ consumer' = [consumer EXCEPT ![s] = IF @ = "waiting" THEN "reading" ELSE "left"]
  /\ UNCHANGED <<published, closed, buffer, received, offered>>

\* Both finish the slots still in the map; terminate() leaves them a last event.
terminate ==
  /\ ~closed
  /\ closed' = TRUE
  /\ buffer' = [s \in Subscribers |->
                  IF s \in registered THEN Append(buffer[s], Fatal) ELSE buffer[s]]
  /\ done' = [s \in Subscribers |-> done[s] \/ s \in registered]
  /\ consumer' = Wake(registered)
  /\ UNCHANGED <<published, registered, received, offered>>

close ==
  /\ closed' = TRUE
  /\ done' = [s \in Subscribers |-> done[s] \/ s \in registered]
  /\ consumer' = Wake(registered)
  /\ UNCHANGED <<published, registered, buffer, received, offered>>

FanoutNext ==
  \/ \E s \in Subscribers : createSubscription(s) \/ next(s) \/ return(s)
  \/ \E t \in Tables : publish(t)
  \/ terminate
  \/ close

FanoutSpec == FanoutInit /\ [][FanoutNext]_fanoutVars

\* A for-await loop whose body ends asks for the next event.
FairFanoutSpec == FanoutSpec /\ \A s \in Subscribers : WF_fanoutVars(next(s))

-----------------------------------------------------------------------------
\* Every variable has its type.
FanoutTypeOK ==
  /\ published \in 0 .. MaxEvents
  /\ closed \in BOOLEAN
  /\ registered \subseteq Subscribers
  /\ buffer \in [Subscribers -> Seq(Items)]
  /\ done \in [Subscribers -> BOOLEAN]
  /\ consumer \in [Subscribers -> {"none", "reading", "waiting", "ended", "left"}]
  /\ received \in [Subscribers -> Seq(Items)]
  /\ offered \in [Subscribers -> SUBSET (1 .. MaxEvents)]

Has(q, item)  == \E i \in DOMAIN q : q[i] = item
GapAfter(q, p) == \E i \in DOMAIN q : q[i].kind = "gap" /\ q[i].pos > p

Known(s, p) == Has(received[s], Data(p)) \/ Has(buffer[s], Data(p))
Announced(s, p) == GapAfter(received[s], p) \/ GapAfter(buffer[s], p)

\* An event dropped from a full buffer is announced by a gap later in the
\* stream, even when the gap that announced it is dropped in its turn.
LossAnnounced ==
  \A s \in Subscribers : \A p \in offered[s] : Known(s, p) \/ Announced(s, p)

\* A subscriber sleeps only over an empty buffer of a slot still in the map: no
\* publish() or close() between its check and its await is lost.
NoSleepOverWork ==
  \A s \in Subscribers :
    consumer[s] = "waiting" => buffer[s] = <<>> /\ ~done[s] /\ s \in registered

\* Positions never go back: what a subscriber is told of a row is never older
\* than what it was told before, and no event comes twice.
Precedes(x, y) == x.pos < y.pos \/ (x.pos = y.pos /\ x.kind = "gap" /\ y.kind = "data")
InOrder ==
  \A s \in Subscribers : \A i, j \in DOMAIN received[s] :
    i < j /\ received[s][j].kind # "fatal" => Precedes(received[s][i], received[s][j])

\* After close() or terminate() every loop over an iterable comes to its end.
EndsAfterClose ==
  \A s \in Subscribers :
    closed /\ consumer[s] # "none" ~> consumer[s] \in {"ended", "left"}

\* What was published while a subscriber listens reaches it, as the event or as
\* a gap after it, unless it leaves; closing drains the buffer first.
EventuallySeen ==
  \A s \in Subscribers : \A p \in 1 .. MaxEvents :
    p \in offered[s] ~> \/ Has(received[s], Data(p)) \/ GapAfter(received[s], p)
                        \/ consumer[s] = "left"

\* A subscriber is told of everything, and then let go.
Served == EventuallySeen /\ EndsAfterClose
=============================================================================
