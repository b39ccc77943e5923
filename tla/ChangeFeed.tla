----------------------------- MODULE ChangeFeed -----------------------------
(***************************************************************************)
(* One realtime subscription (subscription-manager.ts) over its life:      *)
(* subscribe, the generator of buildEventStream, the client's disconnect   *)
(* and its resume within the window, force-close and schema changes.       *)
(*                                                                         *)
(* Every subscribe or resume starts a generator (a stream) over a copy of  *)
(* the subscription object, {...saved}: counters are copied, the buffer    *)
(* array is the same for all of them.  A stream runs from one await to the *)
(* next in one action.  The loop that consumes it (mergeAndDeliver) asks   *)
(* for the next item as soon as it has written one, so an item yielded to  *)
(* a live consumer leads to the next in the same action; a consumer whose  *)
(* client disconnected takes the item it was waiting for, asks once more   *)
(* and stops.  The change stream watched is outside src/'s realtime code:  *)
(* positions 1, 2, ... in order.                                           *)
(***************************************************************************)
EXTENDS Naturals, Sequences, FiniteSets

CONSTANTS
  BUFFER_SIZE,   \* items buffered before the oldest is dropped
  BURST,         \* capacity of the token bucket
  Matching,      \* positions the pipeline lets through for this subscriber
  CanReplay,     \* supports('replay_from_position')
  MaxPos,        \* bound: events of the table
  MaxStreams,    \* bound: subscribe plus resumes
  MaxDeploys,    \* bound: schema changes
  None

ASSUME SizesAssumption ==
  /\ BUFFER_SIZE \in Nat \ {0} /\ BURST \in Nat \ {0}
  /\ MaxPos \in Nat /\ MaxStreams \in Nat /\ MaxDeploys \in Nat
ASSUME MatchingAssumption == Matching \subseteq 1 .. MaxPos
ASSUME EnvironmentAssumption == CanReplay \in BOOLEAN
ASSUME NoneAssumption == None \notin Nat

VARIABLES
  src,          \* the newest position of the table
  streams,      \* the generators started so far, each with its own object
  active,       \* which of them the subscriptions map holds
  saved,        \* resumeState: the scalars of the detached object
  buffer,       \* the buffer array all of them share
  live,         \* the streams whose consumer still loops
  deploys,      \* schema changes so far
  begun,        \* position of the table when the client subscribed
  received      \* what was written to the client, and on which stream

vars == <<src, streams, active, saved, buffer, live, deploys, begun, received>>

Stream == 1 .. Len(streams)
Kinds  == {"data", "gap", "schema_change", "error"}
Item(kind, pos) == [kind |-> kind, pos |-> pos]

Init ==
  /\ src = 0 /\ streams = <<>> /\ active = None /\ saved = None
  /\ buffer = <<>> /\ live = {}
  /\ deploys = 0 /\ begun = 0 /\ received = <<>>

\* The database commits a change to the table.
Emit ==
  /\ src < MaxPos
  /\ src' = src + 1
  /\ UNCHANGED <<streams, active, saved, buffer, live, deploys, begun, received>>

-----------------------------------------------------------------------------
\* bufferEvent: a full buffer loses its oldest item and gains a gap as well.
Buffered(buf, dropped, item) ==
  IF Len(buf) < BUFFER_SIZE
  THEN [buffer |-> Append(buf, item), dropped |-> dropped]
  ELSE [buffer |-> Tail(buf) \o <<Item("gap", item.pos), item>>, dropped |-> dropped + 1]

Sent(s, items) == [i \in DOMAIN items |->
                     [stream |-> s, kind |-> items[i].kind, pos |-> items[i].pos]]

\* The loop over the buffer, yielding each item to the consumer of stream s.
Flush(s, buf) ==
  LET kept == IF Len(buf) <= 2 THEN <<>> ELSE SubSeq(buf, 3, Len(buf)) IN
  /\ buffer' = IF s \in live THEN <<>> ELSE kept
  /\ received' = IF s \in live THEN received \o Sent(s, buf) ELSE received

\* Where the generator is left by that loop.
AfterFlush(s, buf) == IF s \notin live /\ Len(buf) >= 2 THEN "stuck" ELSE "watch"

-----------------------------------------------------------------------------
\* Mutants: the stream starts over at the beginning of the table, or at its
\* end; its count starts over; its bucket starts one token too full.
NewStreamFromStart(cursor, last, dropped) ==
  [pc |-> "watch", cursor |-> 0, event |-> 0, aborted |-> FALSE, late |-> FALSE,
   last |-> last, dropped |-> dropped, tokens |-> BURST]
NewStreamAtEnd(cursor, last, dropped) ==
  [pc |-> "watch", cursor |-> src, event |-> 0, aborted |-> FALSE, late |-> FALSE,
   last |-> last, dropped |-> dropped, tokens |-> BURST]
NewStreamResetsCount(cursor, last, dropped) ==
  [pc |-> "watch", cursor |-> cursor, event |-> 0, aborted |-> FALSE, late |-> FALSE,
   last |-> last, dropped |-> 0, tokens |-> BURST]
NewStreamOverfull(cursor, last, dropped) ==
  [pc |-> "watch", cursor |-> cursor, event |-> 0, aborted |-> FALSE, late |-> FALSE,
   last |-> last, dropped |-> dropped, tokens |-> BURST + 1]

NewStream(cursor, last, dropped) ==
  [pc |-> "watch", cursor |-> cursor, event |-> 0, aborted |-> FALSE, late |-> FALSE,
   last |-> last, dropped |-> dropped, tokens |-> BURST]

subscribe ==
  /\ streams = <<>>
  /\ streams' = <<NewStream(src, 0, 0)>>
  /\ active' = 1 /\ live' = {1} /\ begun' = src
  /\ UNCHANGED <<src, saved, buffer, deploys, received>>

\* The new generator yields the backlog first, then watches from the position
\* saved at the disconnect; an undefined position is no position.
resume ==
  /\ saved # None /\ Len(streams) < MaxStreams
  /\ LET n == Len(streams) + 1
         last == IF buffer = <<>> THEN saved.last ELSE buffer[Len(buffer)].pos IN
       /\ streams' = Append(streams, NewStream(
            IF CanReplay /\ saved.last > 0 THEN saved.last ELSE src,
            last, saved.dropped))
       /\ buffer' = <<>> /\ received' = received \o Sent(n, buffer)
       /\ active' = n /\ live' = {n}
  /\ saved' = None
  /\ UNCHANGED <<src, deploys, begun>>

\* The window of RESUME_WINDOW_MS passes.
Expire ==
  /\ saved # None
  /\ saved' = None
  /\ UNCHANGED <<src, streams, active, buffer, live, deploys, begun, received>>

\* abort.abort(); the generator may be waiting for a permission check.
Aborted(stream) == [stream EXCEPT !.aborted = TRUE, !.late = stream.pc = "check"]

\* Mutant: the detached object keeps running in the background.
detachKeepsRunning ==
  /\ active # None
  /\ saved' = [last |-> streams[active].last, dropped |-> streams[active].dropped]
  /\ live' = live \ {active}
  /\ active' = None
  /\ UNCHANGED <<src, streams, buffer, deploys, begun, received>>

\* onClose: detachConnection keeps the object for resume and stops the consumer.
detachConnection ==
  /\ active # None
  /\ streams' = [streams EXCEPT ![active] = Aborted(@)]
  /\ saved' = [last |-> streams[active].last, dropped |-> streams[active].dropped]
  /\ live' = live \ {active}
  /\ active' = None
  /\ UNCHANGED <<src, buffer, deploys, begun, received>>

\* Force-close: nothing is kept, and the consumer is not told.
cancelAllForConnection ==
  /\ active # None
  /\ streams' = [streams EXCEPT ![active] = Aborted(@)]
  /\ active' = None
  /\ UNCHANGED <<src, saved, buffer, live, deploys, begun, received>>

notifySchemaChange ==
  /\ deploys < MaxDeploys
  /\ deploys' = deploys + 1
  /\ active # None
  /\ LET b == Buffered(buffer, streams[active].dropped,
                       Item("schema_change", streams[active].last)) IN
       /\ buffer' = b.buffer
       /\ streams' = [streams EXCEPT ![active].dropped = b.dropped]
  /\ UNCHANGED <<src, active, saved, live, begun, received>>

-----------------------------------------------------------------------------
\* After pipeline.process: the token bucket, refilled by the time that passed,
\* lets the event through or turns it into a gap that waits in the buffer.
Process(s, p) ==
  \E t \in streams[s].tokens .. BURST :
    \/ /\ t = 0
       /\ LET b == Buffered(buffer, streams[s].dropped + 1, Item("gap", p)) IN
            /\ streams' = [streams EXCEPT ![s] =
                 [@ EXCEPT !.last = p, !.cursor = p, !.tokens = 0,
                           !.pc = "watch", !.dropped = b.dropped]]
            /\ buffer' = b.buffer
       /\ UNCHANGED received
    \/ /\ t > 0
       /\ LET b == Buffered(buffer, streams[s].dropped, Item("data", p)) IN
            /\ streams' = [streams EXCEPT ![s] =
                 [@ EXCEPT !.last = p, !.cursor = p, !.tokens = t - 1,
                           !.pc = AfterFlush(s, b.buffer), !.dropped = b.dropped]]
            /\ Flush(s, b.buffer)

\* Mutant: an aborted stream goes on.
ArriveIgnoresAbort(s) ==
  /\ streams[s].pc = "watch" /\ streams[s].cursor < src
  /\ LET p == streams[s].cursor + 1 IN
       \/ /\ p \notin Matching
          /\ streams' = [streams EXCEPT ![s].cursor = p]
          /\ UNCHANGED <<buffer, received>>
       \/ /\ p \in Matching
          /\ Process(s, p)
  /\ UNCHANGED <<src, active, saved, live, deploys, begun>>

\* Mutant: an event that is filtered out ends the loop (break for continue).
ArriveStopsAtFiltered(s) ==
  /\ streams[s].pc = "watch" /\ streams[s].cursor < src
  /\ streams[s].cursor + 1 \in Matching
  /\ \/ /\ streams[s].aborted
        /\ streams' = [streams EXCEPT ![s].pc = "ended"]
        /\ UNCHANGED <<buffer, received>>
     \/ /\ ~streams[s].aborted
        /\ Process(s, streams[s].cursor + 1)
  /\ UNCHANGED <<src, active, saved, live, deploys, begun>>

\* The next event of the change stream; the abort signal is looked at here only.
Arrive(s) ==
  /\ streams[s].pc = "watch" /\ streams[s].cursor < src
  /\ LET p == streams[s].cursor + 1 IN
       \/ /\ streams[s].aborted
          /\ streams' = [streams EXCEPT ![s].pc = "ended"]
          /\ UNCHANGED <<buffer, received>>
       \/ /\ ~streams[s].aborted /\ p \notin Matching
          /\ streams' = [streams EXCEPT ![s].cursor = p]
          /\ UNCHANGED <<buffer, received>>
       \/ /\ ~streams[s].aborted /\ p \in Matching   \* not in the permission cache
          /\ streams' = [streams EXCEPT ![s].pc = "check", ![s].event = p]
          /\ UNCHANGED <<buffer, received>>
       \/ /\ ~streams[s].aborted /\ p \in Matching   \* the pipeline answers at once
          /\ Process(s, p)
  /\ UNCHANGED <<src, active, saved, live, deploys, begun>>

Checked(s) ==
  /\ streams[s].pc = "check"
  /\ Process(s, streams[s].event)
  /\ UNCHANGED <<src, active, saved, live, deploys, begun>>

\* watch() throws: the client is told, and the generator is over; the
\* subscription stays in the map.
StreamFails(s) ==
  /\ streams[s].pc \in {"watch", "check"}
  /\ streams' = [streams EXCEPT ![s].pc = "ended"]
  /\ received' = IF s \in live
                 THEN received \o Sent(s, <<Item("error", streams[s].last)>>) ELSE received
  /\ UNCHANGED <<src, active, saved, buffer, live, deploys, begun>>

Next ==
  \/ Emit \/ subscribe \/ resume \/ Expire
  \/ detachConnection \/ cancelAllForConnection \/ notifySchemaChange
  \/ \E s \in Stream : Arrive(s) \/ Checked(s) \/ StreamFails(s)

Spec == Init /\ [][Next]_vars

\* The change stream and the permission check answer.  Nothing makes the
\* database change, the client come back, or the schema be deployed.
FairSpec ==
  /\ Spec
  /\ \A s \in 1 .. MaxStreams : WF_vars(s \in Stream /\ Arrive(s))
                             /\ WF_vars(s \in Stream /\ Checked(s))
-----------------------------------------------------------------------------
\* Every variable has its type.
TypeOK ==
  /\ src \in 0 .. MaxPos /\ begun \in 0 .. MaxPos /\ deploys \in 0 .. MaxDeploys
  /\ streams \in Seq([pc : {"watch", "check", "stuck", "ended"}, cursor : 0 .. MaxPos,
                      event : 0 .. MaxPos, aborted : BOOLEAN, late : BOOLEAN, last : 0 .. MaxPos,
                      dropped : Nat, tokens : 0 .. BURST])
  /\ active \in Stream \cup {None}
  /\ saved \in [last : 0 .. MaxPos, dropped : Nat] \cup {None}
  /\ buffer \in Seq([kind : Kinds, pos : 0 .. MaxPos])
  /\ live \subseteq Stream
  /\ received \in Seq([stream : Stream, kind : Kinds, pos : 0 .. MaxPos])

Got(kind, p) == \E i \in DOMAIN received : received[i].kind = kind /\ received[i].pos = p

\* The client has the event, or a gap after it, or the gap is on its way.
Accounted(p) ==
  \/ Got("data", p)
  \/ \E q \in p .. MaxPos : Got("gap", q)
  \/ \E i \in DOMAIN buffer : buffer[i].kind = "gap" /\ buffer[i].pos >= p

\* A generator that is no longer the one in the map has been told to stop: no
\* disconnect, resume or force-close leaves a second one running for the client.
OneStreamRuns == \A s \in Stream : streams[s].aborted <=> s # active

\* Positions the client has heard of.
Heard == {q \in 1 .. MaxPos : Got("data", q) \/ Got("gap", q)}

\* No connection was closed while one of its events was being checked.
ClosedBetweenEvents == \A s \in Stream : ~streams[s].late

\* Between the first event a client heard of and the position its stream has
\* reached, across any number of disconnects and resumes, every event of the
\* subscription was delivered or is announced as a gap, unless a disconnect
\* caught an event in its permission check.
NoSilentLoss ==
  active # None /\ ClosedBetweenEvents =>
    \A p \in Matching :
      (\E q \in Heard : q < p) /\ p <= streams[active].cursor => Accounted(p)

\* No event is delivered twice, or after a later one, over all connections; a
\* disconnect that catches an event in its check may repeat that event.
OnceInOrder ==
  ClosedBetweenEvents =>
    \A i, j \in DOMAIN received :
      i < j /\ received[i].kind = "data" /\ received[j].kind = "data"
        => received[i].pos < received[j].pos

\* totalDropped never undercounts what the client has not got of the events its
\* stream has passed, whatever was dropped on earlier connections (a late check
\* counts in an object nobody reads any more).
DropsCounted ==
  active # None /\ ClosedBetweenEvents =>
    Cardinality({p \in Matching : /\ p <= streams[active].cursor /\ ~Got("data", p)
                                  /\ \E q \in Heard : q < p})
      <= streams[active].dropped

\* Once a subscription is cancelled its stream delivers nothing more, except the
\* event it is checking at that moment and the news that it failed.
CancelStopsDelivery ==
  [][\A i \in DOMAIN received' \ DOMAIN received :
       \A s \in Stream :
         received'[i].stream = s /\ streams[s].aborted
           => received'[i].kind = "error" \/ streams[s].pc = "check"]_vars

\* While the client stays, an event of the table is delivered or turned into a
\* gap: the stream never stops at an event.
FeedAdvances ==
  \A p \in Matching :
    (active # None /\ begun < p /\ p <= src)
      ~> (active = None \/ p <= streams[active].cursor \/ streams[active].pc = "ended")

\* The state is well formed, and one stream runs for the client.
StreamsWellFormed == TypeOK /\ OneStreamRuns

\* What the client was told of the events its stream has passed is complete, in
\* order and without repetition, and the drops are counted.
EventsAccounted == NoSilentLoss /\ OnceInOrder /\ DropsCounted
=============================================================================
