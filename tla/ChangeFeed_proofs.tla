-------------------------- MODULE ChangeFeed_proofs --------------------------
(***************************************************************************)
(* Proofs about ChangeFeed, for any size of the buffer, the bucket and the *)
(* pipeline's choice of events, and any number of events, connections and  *)
(* schema changes.  A subscription object is judged by the position it saw *)
(* last and the position its stream has passed (InOrder, Complete): that   *)
(* is what a disconnect saves and a resume starts from.                    *)
(***************************************************************************)
EXTENDS ChangeFeed, FiniteSetTheorems, TLAPS

StreamObject == [pc : {"watch", "check", "stuck", "ended"}, cursor : 0 .. MaxPos,
                 event : 0 .. MaxPos, aborted : BOOLEAN, late : BOOLEAN, last : 0 .. MaxPos,
                 dropped : Nat, tokens : 0 .. BURST]
Message(S) == [stream : S, kind : Kinds, pos : 0 .. MaxPos]
Buffer == Seq([kind : Kinds, pos : 0 .. MaxPos])

\* A gap that waits in the buffer; a position the client has heard of or will.
Waiting(p) == \E i \in DOMAIN buffer : buffer[i].kind = "gap" /\ buffer[i].pos = p
Known(p) == Got("data", p) \/ Got("gap", p) \/ Waiting(p)
KnownBefore(p) == \E q \in 1 .. MaxPos : q < p /\ Known(q)

\* The generators: one runs, its consumer loops, nothing is kept while it runs.
OneRuns ==
  /\ OneStreamRuns
  /\ active # None => active \in live /\ saved = None
  /\ saved # None => streams # <<>>
  /\ streams = <<>> => received = <<>> /\ buffer = <<>>
  /\ \A s \in Stream : streams[s].aborted /\ streams[s].pc = "check" => streams[s].late
  /\ \A s \in Stream : streams[s].late => streams[s].aborted
  /\ \A s \in Stream : streams[s].pc = "check" =>
                         streams[s].event \in Matching /\ streams[s].event <= src

\* An object that saw "last" and whose stream passed "cursor" has told its client
\* nothing beyond "last", and "last" is the newest thing it has buffered.
InOrder(last, cursor) ==
  /\ last <= cursor /\ cursor <= src
  /\ \A i \in DOMAIN received : received[i].kind \in {"data", "gap"} => received[i].pos <= last
  /\ \A i \in DOMAIN buffer : buffer[i].kind # "data" /\ buffer[i].pos <= last
  /\ buffer # <<>> => buffer[Len(buffer)].pos = last

\* It has told, or is about to tell, of everything up to "cursor", and has counted
\* what it did not deliver.
Undelivered(c) == {p \in Matching : p <= c /\ ~Got("data", p) /\ KnownBefore(p)}
Complete(last, cursor, dropped) ==
  /\ last > 0 => \A p \in Matching : p <= last \/ cursor < p
  /\ \A p \in Matching : p <= cursor /\ KnownBefore(p) => Accounted(p)
  /\ Cardinality(Undelivered(cursor)) <= dropped

Checking(stream) ==
  stream.pc = "check" => /\ stream.event = stream.cursor + 1
                         /\ stream.event \in Matching /\ stream.event <= src

Ordered ==
  ClosedBetweenEvents =>
    /\ OnceInOrder
    /\ active # None => /\ Checking(streams[active])
                        /\ InOrder(streams[active].last, streams[active].cursor)
    /\ saved # None => InOrder(saved.last, saved.last)

\* A source that cannot replay skips what happened between two connections.
Told ==
  CanReplay /\ ClosedBetweenEvents =>
    /\ active # None => Complete(streams[active].last, streams[active].cursor,
                                 streams[active].dropped)
    /\ saved # None => Complete(saved.last, saved.last, saved.dropped)

IInv == TypeOK /\ OneRuns /\ Ordered /\ Told

-----------------------------------------------------------------------------
LEMMA SequenceFacts ==
  ASSUME NEW A, NEW q \in Seq(A)
  PROVE  /\ Len(q) \in Nat /\ DOMAIN q = 1 .. Len(q)
         /\ \A i \in DOMAIN q : q[i] \in A
         /\ \A B : A \subseteq B => q \in Seq(B)
OBVIOUS

LEMMA TypeFacts ==
  ASSUME TypeOK
  PROVE  /\ streams \in Seq(StreamObject) /\ buffer \in Buffer
         /\ received \in Seq(Message(Stream))
         /\ Len(streams) \in Nat /\ Stream = DOMAIN streams
         /\ \A s \in Stream : streams[s] \in StreamObject /\ s \in Nat /\ s # None
<1>1. /\ streams \in Seq(StreamObject) /\ buffer \in Buffer
      /\ received \in Seq(Message(Stream))
  BY DEF TypeOK, StreamObject, Buffer, Message
<1>2. Len(streams) \in Nat /\ Stream = DOMAIN streams
  BY <1>1 DEF Stream
<1>3. \A s \in Stream : streams[s] \in StreamObject
  BY <1>1, <1>2
<1>4. \A s \in Stream : s \in Nat /\ s # None
  BY <1>2, NoneAssumption DEF Stream
<1> QED
  BY <1>1, <1>2, <1>3, <1>4

LEMMA ObjectFields ==
  ASSUME NEW o \in StreamObject
  PROVE  /\ o.pc \in {"watch", "check", "stuck", "ended"}
         /\ o.cursor \in 0 .. MaxPos /\ o.event \in 0 .. MaxPos /\ o.last \in 0 .. MaxPos
         /\ o.aborted \in BOOLEAN /\ o.late \in BOOLEAN
         /\ o.dropped \in Nat /\ o.tokens \in 0 .. BURST
BY DEF StreamObject

LEMMA ItemTypes ==
  ASSUME NEW k \in Kinds, NEW p \in 0 .. MaxPos
  PROVE  /\ Item(k, p) \in [kind : Kinds, pos : 0 .. MaxPos]
         /\ Item(k, p).kind = k /\ Item(k, p).pos = p
BY DEF Item

LEMMA MatchingPositions == Matching \subseteq 1 .. MaxPos /\ Matching \subseteq 0 .. MaxPos
BY MatchingAssumption, SizesAssumption

\* What bufferEvent leaves: its item last, and either all that was there or a gap
\* at the item's position.
LEMMA BufferedFacts ==
  ASSUME NEW buf \in Buffer, NEW k \in Kinds, NEW p \in 0 .. MaxPos, NEW dropped \in Nat
  PROVE  LET b == Buffered(buf, dropped, Item(k, p)) IN
         /\ b.buffer \in Buffer /\ b.dropped \in Nat /\ dropped <= b.dropped
         /\ b.buffer # <<>> /\ b.buffer[Len(b.buffer)] = Item(k, p)
         /\ \A i \in DOMAIN b.buffer :
              i = Len(b.buffer) \/ b.buffer[i] = Item("gap", p)
                                \/ \E j \in DOMAIN buf : b.buffer[i] = buf[j]
         /\ \/ \A j \in DOMAIN buf : \E i \in DOMAIN b.buffer : b.buffer[i] = buf[j]
            \/ \E i \in DOMAIN b.buffer : b.buffer[i] = Item("gap", p)
<1> DEFINE x == Item(k, p)
           g == Item("gap", p)
           T == [kind : Kinds, pos : 0 .. MaxPos]
<1>1. x \in T /\ g \in T
  BY ItemTypes DEF Kinds
<1>2. buf \in Seq(T) /\ Len(buf) \in Nat
  BY DEF Buffer
<1> HIDE DEF x, g, T
<1>3. CASE Len(buf) < BUFFER_SIZE
  <2>1. Buffered(buf, dropped, x) = [buffer |-> Append(buf, x), dropped |-> dropped]
    BY <1>3 DEF Buffered
  <2>2. /\ Append(buf, x) \in Seq(T) /\ Append(buf, x) # <<>>
        /\ Len(Append(buf, x)) = Len(buf) + 1 /\ Append(buf, x)[Len(buf) + 1] = x
        /\ DOMAIN Append(buf, x) = 1 .. Len(buf) + 1 /\ DOMAIN buf = 1 .. Len(buf)
        /\ \A j \in 1 .. Len(buf) : Append(buf, x)[j] = buf[j]
    BY <1>1, <1>2
  <2>3. \A j \in DOMAIN buf : j \in DOMAIN Append(buf, x)
    BY <1>2, <2>2
  <2>4. \A i \in DOMAIN Append(buf, x) : i = Len(buf) + 1 \/ i \in DOMAIN buf
    BY <1>2, <2>2
  <2> QED
    BY <2>1, <2>2, <2>3, <2>4 DEF Buffer, x, T
<1>4. CASE ~(Len(buf) < BUFFER_SIZE)
  <2> DEFINE n == Len(buf)
             r == Tail(buf) \o <<g, x>>
  <2>1. Buffered(buf, dropped, x) = [buffer |-> r, dropped |-> dropped + 1]
    BY <1>4, ItemTypes DEF Buffered, x, g
  <2>2. n >= 1 /\ buf # <<>>
    BY <1>2, <1>4, SizesAssumption
  <2>3. /\ Tail(buf) \in Seq(T) /\ Len(Tail(buf)) = n - 1
        /\ \A i \in 1 .. n - 1 : Tail(buf)[i] = buf[i + 1]
    BY <1>2, <2>2
  <2>4. <<g, x>> \in Seq(T) /\ Len(<<g, x>>) = 2 /\ <<g, x>>[1] = g /\ <<g, x>>[2] = x
    BY <1>1
  <2>5. /\ r \in Seq(T) /\ Len(r) = n + 1
        /\ \A i \in 1 .. n - 1 : r[i] = buf[i + 1]
        /\ r[n] = g /\ r[n + 1] = x
    BY <1>2, <2>2, <2>3, <2>4
  <2> HIDE DEF r
  <2>6. DOMAIN r = 1 .. n + 1 /\ DOMAIN buf = 1 .. n /\ r # <<>>
    BY <1>2, <2>2, <2>5
  <2>7. \A i \in DOMAIN r : i = n + 1 \/ r[i] = g \/ \E j \in DOMAIN buf : r[i] = buf[j]
    <3> SUFFICES ASSUME NEW i \in 1 .. n + 1 PROVE i = n + 1 \/ r[i] = g \/ \E j \in DOMAIN buf : r[i] = buf[j]
      BY <2>6
    <3>1. CASE i \in 1 .. n - 1
      <4>1. r[i] = buf[i + 1] /\ i + 1 \in DOMAIN buf
        BY <3>1, <2>5, <2>6, <1>2
      <4> QED
        BY <4>1
    <3>2. CASE i \notin 1 .. n - 1
      BY <3>2, <1>2, <2>2, <2>5
    <3> QED
      BY <3>1, <3>2
  <2>8. n \in DOMAIN r
    BY <1>2, <2>2, <2>6
  <2>9. /\ Buffered(buf, dropped, x).buffer = r
        /\ Buffered(buf, dropped, x).dropped = dropped + 1
    BY <2>1
  <2>10. r \in Buffer /\ r[Len(r)] = x
    BY <2>5 DEF Buffer, T
  <2> QED
    BY <2>5, <2>6, <2>7, <2>8, <2>9, <2>10 DEF x, g
<1> QED
  BY <1>3, <1>4

\* b is what buf became when an item of kind k at p went in.
Grown(b, buf, k, p) ==
  /\ b \in Buffer /\ b # <<>> /\ b[Len(b)] = Item(k, p)
  /\ \A i \in DOMAIN b :
       i = Len(b) \/ b[i] = Item("gap", p) \/ \E j \in DOMAIN buf : b[i] = buf[j]
  /\ \/ \A j \in DOMAIN buf : \E i \in DOMAIN b : b[i] = buf[j]
     \/ \E i \in DOMAIN b : b[i] = Item("gap", p)

LEMMA BufferedGrows ==
  ASSUME NEW buf \in Buffer, NEW k \in Kinds, NEW p \in 0 .. MaxPos, NEW dropped \in Nat
  PROVE  Grown(Buffered(buf, dropped, Item(k, p)).buffer, buf, k, p)
BY BufferedFacts DEF Grown

\* What the client has after the items of a loop.
LEMMA ReceivedFacts ==
  ASSUME NEW S, received \in Seq(Message(S)),
         NEW s \in S,
         NEW items \in Buffer, received' = received \o Sent(s, items)
  PROVE  /\ received' \in Seq(Message(S))
         /\ Len(received') = Len(received) + Len(items)
         /\ Len(received) \in Nat /\ Len(items) \in Nat
         /\ \A i \in 1 .. Len(received) : received'[i] = received[i]
         /\ \A i \in 1 .. Len(items) :
              received'[Len(received) + i]
                = [stream |-> s, kind |-> items[i].kind, pos |-> items[i].pos]
<1> DEFINE R == Message(S)
           q == Sent(s, items)
<1>1. received \in Seq(R)
  OBVIOUS
<1>2. DOMAIN items = 1 .. Len(items) /\ Len(items) \in Nat
      /\ \A i \in DOMAIN items : items[i] \in [kind : Kinds, pos : 0 .. MaxPos]
  BY SequenceFacts DEF Buffer
<1>3. q = [i \in 1 .. Len(items) |-> [stream |-> s, kind |-> items[i].kind, pos |-> items[i].pos]]
  BY <1>2 DEF Sent
<1>4. \A i \in 1 .. Len(items) : [stream |-> s, kind |-> items[i].kind, pos |-> items[i].pos] \in R
  BY <1>2 DEF Message
<1> HIDE DEF R
<1>5. q \in Seq(R) /\ Len(q) = Len(items)
  BY <1>2, <1>3, <1>4
<1>6. \A i \in 1 .. Len(items) : q[i] = [stream |-> s, kind |-> items[i].kind, pos |-> items[i].pos]
  BY <1>3
<1> HIDE DEF q
<1>7. received' = received \o q
  BY DEF q
<1> QED
  <2>1. /\ received \o q \in Seq(R) /\ Len(received \o q) = Len(received) + Len(q)
        /\ \A i \in 1 .. Len(received) : (received \o q)[i] = received[i]
        /\ \A i \in 1 .. Len(q) : (received \o q)[Len(received) + i] = q[i]
    BY <1>1, <1>5, SMTT(30)
  <2>2. Len(received) \in Nat
    BY <1>1, SequenceFacts
  <2> QED
    BY <1>2, <1>5, <1>6, <1>7, <2>1, <2>2 DEF R

LEMMA GotFacts ==
  ASSUME NEW S, received \in Seq(Message(S)),
         NEW s \in S, NEW items \in Buffer, received' = received \o Sent(s, items)
  PROVE  \A k, p : Got(k, p)' <=> Got(k, p)
                                  \/ \E i \in DOMAIN items : items[i].kind = k /\ items[i].pos = p
<1> DEFINE n == Len(received)
           m == Len(items)
<1>1. /\ n \in Nat /\ m \in Nat /\ Len(received') = n + m
      /\ \A i \in 1 .. n : received'[i] = received[i]
      /\ \A i \in 1 .. m : received'[n + i]
                             = [stream |-> s, kind |-> items[i].kind, pos |-> items[i].pos]
      /\ received' \in Seq(Message(S))
  BY ReceivedFacts
<1>2. DOMAIN received' = 1 .. n + m /\ DOMAIN received = 1 .. n /\ DOMAIN items = 1 .. m
  BY <1>1 DEF Buffer
<1> HIDE DEF n, m
<1>3. \A i \in 1 .. n + m : i \in 1 .. n \/ (i - n \in 1 .. m /\ i = n + (i - n))
  BY <1>1
<1>4. \A i \in 1 .. n : i \in 1 .. n + m
  BY <1>1
<1>5. \A i \in 1 .. m : n + i \in 1 .. n + m
  BY <1>1
<1> SUFFICES ASSUME NEW k, NEW p
             PROVE  Got(k, p)' <=> Got(k, p)
                       \/ \E i \in DOMAIN items : items[i].kind = k /\ items[i].pos = p
  OBVIOUS
<1>6. ASSUME Got(k, p)'
      PROVE  Got(k, p) \/ \E i \in DOMAIN items : items[i].kind = k /\ items[i].pos = p
  <2>1. PICK i \in 1 .. n + m : received'[i].kind = k /\ received'[i].pos = p
    BY <1>2, <1>6 DEF Got
  <2>2. CASE i \in 1 .. n
    BY <1>1, <1>2, <2>1, <2>2 DEF Got
  <2>3. CASE i - n \in 1 .. m /\ i = n + (i - n)
    <3>1. received'[i] = [stream |-> s, kind |-> items[i - n].kind, pos |-> items[i - n].pos]
      BY <1>1, <2>3
    <3> QED
      BY <1>2, <2>1, <2>3, <3>1
  <2> QED
    BY <1>3, <2>2, <2>3
<1>7. ASSUME Got(k, p) PROVE Got(k, p)'
  BY <1>1, <1>2, <1>4, <1>7 DEF Got
<1>8. ASSUME NEW i \in DOMAIN items, items[i].kind = k, items[i].pos = p
      PROVE  Got(k, p)'
  <2>1. received'[n + i] = [stream |-> s, kind |-> k, pos |-> p] /\ n + i \in DOMAIN received'
    BY <1>1, <1>2, <1>5, <1>8
  <2> QED
    BY <2>1 DEF Got
<1> QED
  BY <1>6, <1>7, <1>8

-----------------------------------------------------------------------------
LEMMA UndeliveredFinite ==
  ASSUME NEW c
  PROVE  IsFiniteSet(Undelivered(c)) /\ Cardinality(Undelivered(c)) \in Nat
<1>1. IsFiniteSet(1 .. MaxPos)
  BY FS_Interval, SizesAssumption
<1>2. Undelivered(c) \subseteq 1 .. MaxPos
  BY MatchingPositions DEF Undelivered
<1>3. IsFiniteSet(Undelivered(c))
  BY <1>1, <1>2, FS_Subset
<1> QED
  BY <1>3, FS_CardinalityType

LEMMA Positions ==
  ASSUME TypeOK, NEW l \in Nat, NEW c \in Nat, InOrder(l, c)
  PROVE  \A q : Known(q) => q <= l
<1>1. \A i \in DOMAIN received : received[i].kind \in {"data", "gap"} => received[i].pos <= l
  BY DEF InOrder
<1>2. \A i \in DOMAIN buffer : buffer[i].pos <= l
  BY DEF InOrder
<1> QED
  BY <1>1, <1>2 DEF Known, Got, Waiting

\* The step that takes an object from (l, c) to (l2, c2): nothing before l2 becomes
\* known, what was told stays told unless a gap at l2 covers it, and an event that
\* is passed without being delivered is counted.
LEMMA CompletePreserved ==
  ASSUME TypeOK, NEW l \in Nat, NEW c \in Nat, NEW d \in Nat,
         InOrder(l, c), Complete(l, c, d),
         NEW l2 \in 0 .. MaxPos, NEW c2 \in 0 .. MaxPos, NEW d2 \in Nat,
         l <= l2, l2 <= c2, c2 <= c + 1, d <= d2,
         \A q : Known(q)' => Known(q) \/ q = l2,
         \A q : Got("data", q) => Got("data", q)',
         l2 > 0 => \A p \in Matching : p <= l2 \/ c2 < p,
         \/ Got("gap", l2)' \/ Waiting(l2)'
         \/ /\ \A q : Got("gap", q) \/ Waiting(q) => Got("gap", q)' \/ Waiting(q)'
            /\ l2 > l => Got("data", l2)',
         c + 1 \in Matching /\ c + 1 <= c2 => Got("data", c + 1)' \/ d + 1 <= d2,
         TypeOK'
  PROVE  Complete(l2, c2, d2)'
<1>1. \A q : Known(q) => q <= l
  BY Positions
<1>2. ASSUME NEW p \in Matching, p <= c2, KnownBefore(p)'
      PROVE  /\ p \in 1 .. MaxPos /\ l2 > 0 /\ p <= l2
             /\ KnownBefore(p) /\ (p <= c \/ p = c + 1)
  <2>1. PICK q \in 1 .. MaxPos : q < p /\ Known(q)'
    BY <1>2 DEF KnownBefore
  <2>2. p \in 1 .. MaxPos
    BY MatchingPositions
  <2>3. Known(q) \/ q = l2
    BY <2>1
  <2>4. l2 > 0
    BY <1>1, <2>1, <2>3, SizesAssumption
  <2>5. p <= l2
    BY <1>2, <2>2, <2>4, SizesAssumption
  <2>6. Known(q)
    BY <2>1, <2>2, <2>3, <2>5, SizesAssumption
  <2>7. p <= c \/ p = c + 1
    BY <1>2, <2>2, SizesAssumption
  <2> QED
    BY <2>1, <2>2, <2>4, <2>5, <2>6, <2>7 DEF KnownBefore
<1>3. ASSUME NEW p \in Matching, p <= c2, KnownBefore(p)'
      PROVE  Accounted(p)'
  <2>1. /\ p \in 1 .. MaxPos /\ l2 > 0 /\ p <= l2
        /\ KnownBefore(p) /\ (p <= c \/ p = c + 1)
    BY <1>2, <1>3
  <2>2. CASE Got("gap", l2)'
    <3>1. l2 \in p .. MaxPos
      BY <2>1, SizesAssumption
    <3> QED
      BY <2>2, <3>1 DEF Accounted
  <2>3. CASE Waiting(l2)'
    <3>1. PICK i \in DOMAIN buffer' : buffer'[i].kind = "gap" /\ buffer'[i].pos = l2
      BY <2>3 DEF Waiting
    <3> QED
      BY <2>1, <3>1 DEF Accounted
  <2>4. CASE /\ \A q : Got("gap", q) \/ Waiting(q) => Got("gap", q)' \/ Waiting(q)'
             /\ l2 > l => Got("data", l2)'
    <3>1. CASE p <= c
      <4>1. Accounted(p)
        BY <2>1, <3>1 DEF Complete
      <4>2. CASE Got("data", p)
        BY <4>2 DEF Accounted
      <4>3. ASSUME NEW q \in p .. MaxPos, Got("gap", q) \/ Waiting(q)
            PROVE  Accounted(p)'
        <5>1. CASE Got("gap", q)'
          BY <5>1 DEF Accounted
        <5>2. CASE Waiting(q)'
          <6>1. PICK i \in DOMAIN buffer' : buffer'[i].kind = "gap" /\ buffer'[i].pos = q
            BY <5>2 DEF Waiting
          <6>2. q >= p
            OBVIOUS
          <6> QED
            BY <6>1, <6>2 DEF Accounted
        <5> QED
          BY <2>4, <4>3, <5>1, <5>2
      <4>4. ASSUME NEW i \in DOMAIN buffer, buffer[i].kind = "gap", buffer[i].pos >= p
            PROVE  Accounted(p)'
        <5>1. Waiting(buffer[i].pos)
          BY <4>4 DEF Waiting
        <5>2. buffer \in Buffer
          BY TypeFacts
        <5>3. buffer[i] \in [kind : Kinds, pos : 0 .. MaxPos]
          BY <5>2, SequenceFacts DEF Buffer
        <5>4. buffer[i].pos \in p .. MaxPos
          BY <2>1, <4>4, <5>3
        <5> QED
          BY <4>3, <5>1, <5>4
      <4> QED
        BY <4>1, <4>2, <4>3, <4>4 DEF Accounted
    <3>2. CASE p = c + 1
      <4>1. l <= c
        BY DEF InOrder
      <4>2. l2 > l /\ p = l2
        BY <2>1, <3>2, <4>1, SizesAssumption
      <4> QED
        BY <2>4, <4>2 DEF Accounted
    <3> QED
      BY <2>1, <3>1, <3>2
  <2> QED
    BY <2>2, <2>3, <2>4
<1>4. Cardinality(Undelivered(c2)') <= d2
  <2> DEFINE U == Undelivered(c)
             V == Undelivered(c2)'
  <2>1. \A p \in V : p \in U \/ (p = c + 1 /\ d + 1 <= d2)
    <3> SUFFICES ASSUME NEW p \in V PROVE p \in U \/ (p = c + 1 /\ d + 1 <= d2)
      OBVIOUS
    <3>1. p \in Matching /\ p <= c2 /\ ~Got("data", p)' /\ KnownBefore(p)'
      BY DEF Undelivered
    <3>2. KnownBefore(p) /\ (p <= c \/ p = c + 1) /\ ~Got("data", p)
      BY <1>2, <3>1
    <3>3. CASE p <= c
      BY <3>1, <3>2, <3>3 DEF Undelivered
    <3>4. CASE p = c + 1
      BY <3>1, <3>4
    <3> QED
      BY <3>2, <3>3, <3>4
  <2>2. IsFiniteSet(U) /\ Cardinality(U) \in Nat
    BY UndeliveredFinite
  <2>3. Cardinality(U) <= d
    BY DEF Complete
  <2> HIDE DEF U, V
  <2>4. CASE d + 1 <= d2
    <3>1. V \subseteq U \cup {c + 1}
      BY <2>1
    <3>2. /\ IsFiniteSet(U \cup {c + 1})
          /\ Cardinality(U \cup {c + 1}) = IF c + 1 \in U THEN Cardinality(U) ELSE Cardinality(U) + 1
      BY <2>2, FS_AddElement
    <3>3. IsFiniteSet(V) /\ Cardinality(V) <= Cardinality(U \cup {c + 1})
      BY <3>1, <3>2, FS_Subset
    <3>4. Cardinality(V) \in Nat
      BY <3>3, FS_CardinalityType
    <3>5. Cardinality(V) <= d2
      BY <2>2, <2>3, <2>4, <3>2, <3>3, <3>4
    <3> QED
      BY <3>5 DEF V
  <2>5. CASE ~(d + 1 <= d2)
    <3>1. V \subseteq U
      BY <2>1, <2>5
    <3>2. IsFiniteSet(V) /\ Cardinality(V) <= Cardinality(U)
      BY <2>2, <3>1, FS_Subset
    <3>3. Cardinality(V) \in Nat
      BY <3>2, FS_CardinalityType
    <3>4. Cardinality(V) <= d2
      BY <2>2, <2>3, <3>2, <3>3
    <3> QED
      BY <3>4 DEF V
  <2> QED
    BY <2>4, <2>5
<1> QED
  BY <1>3, <1>4 DEF Complete, Undelivered

-----------------------------------------------------------------------------
\* Two subscription objects differ in nothing that decides which of them runs.
LEMMA StreamReplaced ==
  ASSUME TypeOK, NEW s \in Stream, NEW r \in StreamObject,
         streams' = [streams EXCEPT ![s] = r]
  PROVE  /\ streams' \in Seq(StreamObject) /\ Len(streams') = Len(streams)
         /\ Stream' = Stream /\ streams'[s] = r /\ streams' # <<>> /\ streams # <<>>
         /\ \A i \in Stream : i # s => streams'[i] = streams[i]
<1>1. streams \in Seq(StreamObject) /\ Len(streams) \in Nat /\ Stream = DOMAIN streams
  BY TypeFacts
<1>2. s \in 1 .. Len(streams)
  BY DEF Stream
<1> HIDE DEF StreamObject
<1>3. streams' \in Seq(StreamObject) /\ Len(streams') = Len(streams)
      /\ streams'[s] = r /\ \A i \in 1 .. Len(streams) : i # s => streams'[i] = streams[i]
  BY <1>1, <1>2
<1>4. streams' # <<>> /\ streams # <<>>
  BY <1>1, <1>2, <1>3
<1> QED
  BY <1>3, <1>4 DEF Stream

LEMMA TypeIntro ==
  ASSUME src' \in 0 .. MaxPos, begun' \in 0 .. MaxPos, deploys' \in 0 .. MaxDeploys,
         streams' \in Seq(StreamObject), active' \in Stream' \cup {None},
         saved' \in [last : 0 .. MaxPos, dropped : Nat] \cup {None},
         buffer' \in Buffer, live' \subseteq Stream', received' \in Seq(Message(Stream'))
  PROVE  TypeOK'
BY DEF TypeOK, StreamObject, Buffer, Message

LEMMA OneRunsKept ==
  ASSUME TypeOK, OneRuns, NEW s \in Stream, NEW r \in StreamObject,
         streams' = [streams EXCEPT ![s] = r],
         r.aborted = streams[s].aborted, r.late = streams[s].late,
         r.pc = "check" => /\ streams[s].pc = "check" \/ ~streams[s].aborted
                           /\ r.event \in Matching /\ r.event <= src,
         UNCHANGED <<src, active, saved, live>>
  PROVE  OneRuns' /\ (ClosedBetweenEvents' <=> ClosedBetweenEvents)
<1>1. /\ Stream' = Stream /\ streams'[s] = r /\ streams' # <<>>
      /\ \A i \in Stream : i # s => streams'[i] = streams[i]
  BY StreamReplaced
<1>2. \A i \in Stream : /\ streams'[i].aborted = streams[i].aborted
                         /\ streams'[i].late = streams[i].late
  BY <1>1
<1>3. OneStreamRuns'
  BY <1>1, <1>2 DEF OneRuns, OneStreamRuns
<1>4. /\ \A i \in Stream' : streams'[i].aborted /\ streams'[i].pc = "check" => streams'[i].late
      /\ \A i \in Stream' : streams'[i].late => streams'[i].aborted
      /\ \A i \in Stream' : streams'[i].pc = "check" =>
                             streams'[i].event \in Matching /\ streams'[i].event <= src'
  BY <1>1, <1>2 DEF OneRuns
<1>5. ClosedBetweenEvents' <=> ClosedBetweenEvents
  BY <1>1, <1>2 DEF ClosedBetweenEvents
<1> QED
  BY <1>1, <1>3, <1>4, <1>5 DEF OneRuns

-----------------------------------------------------------------------------
\* The order of what was delivered, and how it grows.
InSequence ==
  \A i, j \in DOMAIN received :
    i < j /\ received[i].kind = "data" /\ received[j].kind = "data"
      => received[i].pos < received[j].pos

LEMMA SequenceGrows ==
  ASSUME InSequence, NEW S, received \in Seq(Message(S)), NEW s \in S,
         NEW items \in Buffer, received' = received \o Sent(s, items),
         NEW p \in Nat, \A q : Got("data", q) => q < p,
         \A i \in DOMAIN items : items[i].kind = "data" => i = Len(items) /\ items[i].pos = p
  PROVE  InSequence'
<1> DEFINE n == Len(received)
           m == Len(items)
<1>1. /\ n \in Nat /\ m \in Nat /\ Len(received') = n + m
      /\ \A i \in 1 .. n : received'[i] = received[i]
      /\ \A i \in 1 .. m : received'[n + i]
                             = [stream |-> s, kind |-> items[i].kind, pos |-> items[i].pos]
      /\ received' \in Seq(Message(S))
  BY ReceivedFacts
<1>2. DOMAIN received' = 1 .. n + m /\ DOMAIN received = 1 .. n /\ DOMAIN items = 1 .. m
  BY <1>1, SequenceFacts DEF Buffer
<1> HIDE DEF n
<1>3. \A i \in 1 .. n + m : i \in 1 .. n \/ (i - n \in 1 .. m /\ i = n + (i - n))
  BY <1>1
<1>4. ASSUME NEW j \in 1 .. m, received'[n + j].kind = "data"
      PROVE  j = m /\ received'[n + j].pos = p
  <2>1. received'[n + j] = [stream |-> s, kind |-> items[j].kind, pos |-> items[j].pos]
    BY <1>1
  <2>2. items[j].kind = "data" /\ received'[n + j].pos = items[j].pos
    BY <1>4, <2>1
  <2> QED
    BY <1>2, <2>2
<1>5. ASSUME NEW i \in 1 .. n, received'[i].kind = "data" PROVE received'[i].pos < p
  <2>1. received[i].kind = "data" /\ received'[i].pos = received[i].pos
    BY <1>1, <1>5
  <2>2. Got("data", received[i].pos)
    BY <1>2, <2>1 DEF Got
  <2> QED
    BY <2>1, <2>2
<1> SUFFICES ASSUME NEW i \in 1 .. n + m, NEW j \in 1 .. n + m, i < j,
                    received'[i].kind = "data", received'[j].kind = "data"
             PROVE  received'[i].pos < received'[j].pos
  BY <1>2 DEF InSequence
<1>6. CASE j \in 1 .. n
  <2>1. i \in 1 .. n
    BY <1>1, <1>6
  <2> QED
    BY <1>1, <1>2, <1>6, <2>1 DEF InSequence
<1>7. CASE j - n \in 1 .. m /\ j = n + (j - n)
  <2>1. j - n = m /\ received'[j].pos = p
    BY <1>4, <1>7
  <2>2. i \in 1 .. n
    <3>1. CASE i - n \in 1 .. m /\ i = n + (i - n)
      <4>1. i - n = m
        BY <1>4, <3>1
      <4> QED
        BY <1>1, <2>1, <4>1
    <3> QED
      BY <1>3, <3>1
  <2> QED
    BY <1>5, <2>1, <2>2
<1> QED
  BY <1>3, <1>6, <1>7

\* InOrder in the words of Got.
LEMMA InOrderIntro ==
  ASSUME NEW l, NEW c, l <= c, c <= src',
         \A q : Got("data", q)' \/ Got("gap", q)' => q <= l,
         \A i \in DOMAIN buffer' : buffer'[i].kind # "data" /\ buffer'[i].pos <= l,
         buffer' # <<>> => buffer'[Len(buffer')].pos = l
  PROVE  InOrder(l, c)'
<1>1. \A i \in DOMAIN received' :
        received'[i].kind \in {"data", "gap"} => received'[i].pos <= l
  BY DEF Got
<1> QED
  BY <1>1 DEF InOrder

LEMMA InOrderElim ==
  ASSUME NEW l, NEW c, InOrder(l, c)
  PROVE  /\ l <= c /\ c <= src
         /\ \A q : Got("data", q) \/ Got("gap", q) => q <= l
         /\ \A i \in DOMAIN buffer : buffer[i].kind # "data" /\ buffer[i].pos <= l
         /\ buffer # <<>> => buffer[Len(buffer)].pos = l
BY DEF InOrder, Got

\* A step that neither delivers an event or a gap nor touches the buffer.
LEMMA Quiet ==
  ASSUME TypeOK, NEW l \in Nat, NEW c \in Nat, InOrder(l, c), src' \in Nat, src <= src',
         buffer' = buffer,
         \A q : (Got("data", q)' <=> Got("data", q)) /\ (Got("gap", q)' <=> Got("gap", q))
  PROVE  /\ InOrder(l, c)'
         /\ \A d : Complete(l, c, d) => Complete(l, c, d)'
<1>1. src \in Nat
  BY SizesAssumption DEF TypeOK
<1>2. InOrder(l, c)'
  <2>1. /\ l <= c /\ c <= src
        /\ \A q : Got("data", q) \/ Got("gap", q) => q <= l
        /\ \A i \in DOMAIN buffer : buffer[i].kind # "data" /\ buffer[i].pos <= l
        /\ buffer # <<>> => buffer[Len(buffer)].pos = l
    BY InOrderElim
  <2>2. c <= src'
    BY <1>1, <2>1
  <2> QED
    BY <2>1, <2>2, InOrderIntro
<1>3. \A q : Waiting(q)' <=> Waiting(q)
  BY DEF Waiting
<1>4. \A p : KnownBefore(p)' <=> KnownBefore(p)
  BY <1>3 DEF KnownBefore, Known
<1>5. \A p : Accounted(p)' <=> Accounted(p)
  BY DEF Accounted
<1>6. Undelivered(c)' = Undelivered(c)
  BY <1>4 DEF Undelivered
<1> QED
  BY <1>2, <1>4, <1>5, <1>6 DEF Complete

-----------------------------------------------------------------------------
\* The pipeline passed p and the token bucket, or the consumer, decided.
Limited(s, p) ==
  /\ received' = received
  /\ streams[s].dropped + 1 <= streams'[s].dropped
  /\ \E d \in Nat : buffer' = Buffered(buffer, d, Item("gap", p)).buffer
WrittenOut(s, p) ==
  /\ buffer' = <<>>
  /\ \E b : Grown(b, buffer, "data", p) /\ received' = received \o Sent(s, b)

LEMMA ProcessEffect ==
  ASSUME TypeOK, NEW s \in Stream, NEW p \in 1 .. MaxPos, Process(s, p)
  PROVE  \E r \in StreamObject :
           /\ streams' = [streams EXCEPT ![s] = r]
           /\ r.last = p /\ r.cursor = p /\ r.pc # "check"
           /\ r.aborted = streams[s].aborted /\ r.late = streams[s].late
           /\ streams[s].dropped <= r.dropped /\ streams'[s] = r
           /\ buffer' \in Buffer /\ received' \in Seq(Message(Stream))
           /\ s \in live => Limited(s, p) \/ WrittenOut(s, p)
<1> DEFINE o == streams[s]
<1>1. PICK t \in o.tokens .. BURST :
       \/ /\ t = 0
          /\ LET b == Buffered(buffer, o.dropped + 1, Item("gap", p)) IN
               /\ streams' = [streams EXCEPT ![s] =
                    [@ EXCEPT !.last = p, !.cursor = p, !.tokens = 0,
                              !.pc = "watch", !.dropped = b.dropped]]
               /\ buffer' = b.buffer
          /\ UNCHANGED received
       \/ /\ t > 0
          /\ LET b == Buffered(buffer, o.dropped, Item("data", p)) IN
               /\ streams' = [streams EXCEPT ![s] =
                    [@ EXCEPT !.last = p, !.cursor = p, !.tokens = t - 1,
                              !.pc = AfterFlush(s, b.buffer), !.dropped = b.dropped]]
               /\ Flush(s, b.buffer)
  BY DEF Process
<1>2. /\ streams \in Seq(StreamObject) /\ buffer \in Buffer
      /\ received \in Seq(Message(Stream)) /\ Stream = DOMAIN streams
      /\ o \in StreamObject
  BY TypeFacts
<1>3. p \in 0 .. MaxPos /\ o.dropped \in Nat /\ o.dropped + 1 \in Nat
      /\ o.tokens \in 0 .. BURST
  <2>1. o.dropped \in Nat /\ o.tokens \in 0 .. BURST
    BY <1>2, ObjectFields
  <2>2. p \in 0 .. MaxPos
    BY SizesAssumption
  <2> QED
    BY <2>1, <2>2
<1>4. t \in 0 .. BURST
  BY <1>3, SizesAssumption
<1>5. CASE t = 0
  <2> DEFINE b == Buffered(buffer, o.dropped + 1, Item("gap", p))
             r == [o EXCEPT !.last = p, !.cursor = p, !.tokens = 0,
                            !.pc = "watch", !.dropped = b.dropped]
  <2>1. "gap" \in Kinds
    BY DEF Kinds
  <2>2. b.buffer \in Buffer /\ b.dropped \in Nat /\ o.dropped + 1 <= b.dropped
    BY <1>2, <1>3, <2>1, BufferedFacts
  <2>3. streams' = [streams EXCEPT ![s] = r] /\ buffer' = b.buffer /\ received' = received
    BY <1>1, <1>5
  <2> HIDE DEF b
  <2>4. 0 \in 0 .. BURST
    BY SizesAssumption
  <2>5. r \in StreamObject
    BY <1>2, <1>3, <2>2, <2>4 DEF StreamObject
  <2>6. /\ r.last = p /\ r.cursor = p /\ r.pc # "check"
        /\ r.aborted = o.aborted /\ r.late = o.late /\ r.dropped = b.dropped
    BY <1>2 DEF StreamObject
  <2> HIDE DEF r
  <2>7. streams'[s] = r
    BY <2>3, <2>5, StreamReplaced
  <2>8. Limited(s, p)
    BY <1>3, <2>2, <2>3, <2>6, <2>7 DEF Limited, b
  <2> QED
    <3>1. o.dropped <= r.dropped
      BY <1>3, <2>2, <2>6
    <3> HIDE DEF o
    <3> QED
      BY <1>2, <2>2, <2>3, <2>5, <2>6, <2>7, <2>8, <3>1 DEF o
<1>6. CASE t > 0
  <2> DEFINE b == Buffered(buffer, o.dropped, Item("data", p))
             r == [o EXCEPT !.last = p, !.cursor = p, !.tokens = t - 1,
                            !.pc = AfterFlush(s, b.buffer), !.dropped = b.dropped]
  <2>1. "data" \in Kinds
    BY DEF Kinds
  <2>2. b.buffer \in Buffer /\ b.dropped \in Nat /\ o.dropped <= b.dropped
    BY <1>2, <1>3, <2>1, BufferedFacts
  <2>3. streams' = [streams EXCEPT ![s] = r] /\ Flush(s, b.buffer)
    BY <1>1, <1>6
  <2> HIDE DEF b
  <2>4. t - 1 \in 0 .. BURST
    BY <1>4, <1>6, SizesAssumption
  <2>5. AfterFlush(s, b.buffer) \in {"stuck", "watch"}
    BY DEF AfterFlush
  <2>6. r \in StreamObject
    BY <1>2, <1>3, <2>2, <2>4, <2>5 DEF StreamObject
  <2>7. /\ r.last = p /\ r.cursor = p /\ r.pc # "check"
        /\ r.aborted = o.aborted /\ r.late = o.late /\ r.dropped = b.dropped
    BY <1>2, <2>5 DEF StreamObject
  <2> HIDE DEF r
  <2>8. streams'[s] = r
    BY <2>3, <2>6, StreamReplaced
  <2>9. CASE s \in live
    <3>1. buffer' = <<>> /\ received' = received \o Sent(s, b.buffer)
      BY <2>3, <2>9 DEF Flush
    <3>2. received' \in Seq(Message(Stream))
      BY <1>2, <2>2, <3>1, ReceivedFacts
    <3>3. buffer' \in Buffer
      BY <3>1 DEF Buffer
    <3>4. WrittenOut(s, p)
      <4>1. Grown(b.buffer, buffer, "data", p)
        BY <1>2, <1>3, <2>1, BufferedGrows DEF b
      <4> QED
        BY <3>1, <4>1 DEF WrittenOut
    <3> QED
      BY <2>2, <2>3, <2>6, <2>7, <2>8, <3>2, <3>3, <3>4
  <2>10. CASE s \notin live
    <3>1. /\ received' = received
          /\ buffer' = IF Len(b.buffer) <= 2 THEN <<>> ELSE SubSeq(b.buffer, 3, Len(b.buffer))
      BY <2>3, <2>10 DEF Flush
    <3>2. buffer' \in Buffer
      <4> DEFINE T == [kind : Kinds, pos : 0 .. MaxPos]
                 q == b.buffer
      <4>1. q \in Seq(T)
        BY <2>2 DEF Buffer
      <4> HIDE DEF T, q
      <4>2. (IF Len(q) <= 2 THEN <<>> ELSE SubSeq(q, 3, Len(q))) \in Seq(T)
        BY <4>1
      <4> QED
        BY <3>1, <4>2 DEF Buffer, T, q
    <3> QED
      BY <1>2, <2>2, <2>3, <2>6, <2>7, <2>8, <2>10, <3>1, <3>2
  <2> QED
    BY <2>9, <2>10
<1> QED
  BY <1>4, <1>5, <1>6

LEMMA KnownNatural ==
  ASSUME TypeOK, NEW q, Known(q) PROVE q \in Nat
<1>1. received \in Seq(Message(Stream)) /\ buffer \in Buffer
  BY TypeFacts
<1>2. \A i \in DOMAIN received : received[i].pos \in Nat
  <2>1. \A i \in DOMAIN received : received[i] \in Message(Stream)
    BY <1>1, SequenceFacts
  <2> QED
    BY <2>1, SizesAssumption DEF Message
<1>3. \A i \in DOMAIN buffer : buffer[i].pos \in Nat
  <2>1. \A i \in DOMAIN buffer : buffer[i] \in [kind : Kinds, pos : 0 .. MaxPos]
    BY <1>1, SequenceFacts DEF Buffer
  <2> QED
    BY <2>1, SizesAssumption
<1> QED
  BY <1>2, <1>3 DEF Known, Got, Waiting

\* A gap or a schema change that goes into the buffer.
LEMMA BufferGrows ==
  ASSUME TypeOK, NEW l \in Nat, NEW c \in Nat, InOrder(l, c),
         NEW k \in {"gap", "schema_change"}, NEW l2 \in 0 .. MaxPos, NEW c2 \in Nat,
         l <= l2, l2 <= c2, c2 <= src', received' = received,
         NEW d \in Nat, buffer' = Buffered(buffer, d, Item(k, l2)).buffer
  PROVE  /\ buffer' \in Buffer /\ InOrder(l2, c2)'
         /\ \A q : Known(q)' => Known(q) \/ q = l2
         /\ \A q : (Got("data", q)' <=> Got("data", q)) /\ (Got("gap", q)' <=> Got("gap", q))
         /\ Waiting(l2)' \/ \A q : Waiting(q) => Waiting(q)'
         /\ k = "gap" => Waiting(l2)'
<1>1. k \in Kinds /\ "gap" \in Kinds
  BY DEF Kinds
<1>2. buffer \in Buffer
  BY TypeFacts
<1>3. /\ buffer' \in Buffer
      /\ buffer' # <<>> /\ buffer'[Len(buffer')] = Item(k, l2)
      /\ \A i \in DOMAIN buffer' :
           i = Len(buffer') \/ buffer'[i] = Item("gap", l2)
                           \/ \E j \in DOMAIN buffer : buffer'[i] = buffer[j]
      /\ \/ \A j \in DOMAIN buffer : \E i \in DOMAIN buffer' : buffer'[i] = buffer[j]
         \/ \E i \in DOMAIN buffer' : buffer'[i] = Item("gap", l2)
  BY <1>1, <1>2, BufferedFacts
<1>4. /\ Item(k, l2).kind = k /\ Item(k, l2).pos = l2
      /\ Item("gap", l2).kind = "gap" /\ Item("gap", l2).pos = l2
  BY <1>1, ItemTypes
<1>5. Len(buffer') \in DOMAIN buffer'
  <2>1. Len(buffer') \in Nat /\ DOMAIN buffer' = 1 .. Len(buffer')
    BY <1>3, SequenceFacts DEF Buffer
  <2>2. Len(buffer') # 0
    BY <1>3 DEF Buffer
  <2> QED
    BY <2>1, <2>2
<1>6. \A i \in DOMAIN buffer' :
        (buffer'[i].kind \in {"gap", "schema_change"} /\ buffer'[i].pos = l2)
          \/ \E j \in DOMAIN buffer : buffer'[i] = buffer[j]
  BY <1>3, <1>4
<1>7. \A q : (Got("data", q)' <=> Got("data", q)) /\ (Got("gap", q)' <=> Got("gap", q))
  BY DEF Got
<1>8. \A q : Waiting(q)' => Waiting(q) \/ q = l2
  BY <1>6 DEF Waiting
<1>9. Waiting(l2)' \/ \A q : Waiting(q) => Waiting(q)'
  BY <1>3, <1>4 DEF Waiting
<1>10. k = "gap" => Waiting(l2)'
  BY <1>3, <1>4, <1>5 DEF Waiting
<1>11. InOrder(l2, c2)'
  <2>1. /\ \A q : Got("data", q) \/ Got("gap", q) => q <= l
        /\ \A i \in DOMAIN buffer : buffer[i].kind # "data" /\ buffer[i].pos <= l
    BY InOrderElim
  <2>2. l2 \in Nat
    BY SizesAssumption
  <2>3. \A q : Got("data", q)' \/ Got("gap", q)' => q <= l2
    <3>1. ASSUME NEW q, Got("data", q)' \/ Got("gap", q)' PROVE q <= l2
      <4>1. Got("data", q) \/ Got("gap", q)
        BY <1>7, <3>1
      <4>2. q \in Nat
        BY <4>1, KnownNatural DEF Known
      <4>3. q <= l
        BY <2>1, <4>1
      <4> QED
        BY <2>2, <4>2, <4>3
    <3> QED
      BY <3>1
  <2>4. ASSUME NEW i \in DOMAIN buffer'
        PROVE  buffer'[i].kind # "data" /\ buffer'[i].pos <= l2
    <3>1. CASE buffer'[i].kind \in {"gap", "schema_change"} /\ buffer'[i].pos = l2
      BY <2>2, <3>1
    <3>2. ASSUME NEW j \in DOMAIN buffer, buffer'[i] = buffer[j]
          PROVE  buffer'[i].kind # "data" /\ buffer'[i].pos <= l2
      <4>1. buffer[j] \in [kind : Kinds, pos : 0 .. MaxPos]
        BY <1>2, SequenceFacts DEF Buffer
      <4>2. buffer[j].pos \in Nat /\ buffer[j].pos <= l
        BY <2>1, <4>1, SizesAssumption
      <4> QED
        BY <2>1, <2>2, <3>2, <4>2
    <3> QED
      BY <1>6, <3>1, <3>2
  <2>5. buffer'[Len(buffer')].pos = l2
    BY <1>3, <1>4
  <2> QED
    BY <2>3, <2>4, <2>5, InOrderIntro
<1>12. \A q : Known(q)' => Known(q) \/ q = l2
  BY <1>7, <1>8 DEF Known
<1> QED
  BY <1>3, <1>7, <1>9, <1>10, <1>11, <1>12

\* A loop over the buffer that writes everything, the event at p last.
LEMMA BufferWritten ==
  ASSUME TypeOK, NEW l \in Nat, NEW c \in Nat, InOrder(l, c), InSequence,
         NEW s \in Stream, NEW p \in 1 .. MaxPos, p = c + 1, p <= src',
         buffer' = <<>>, NEW b, Grown(b, buffer, "data", p),
         received' = received \o Sent(s, b)
  PROVE  /\ InOrder(p, p)' /\ InSequence'
         /\ \A q : Known(q)' => Known(q) \/ q = p
         /\ \A q : Got("data", q) => Got("data", q)'
         /\ Got("data", p)'
         /\ \/ Got("gap", p)'
            \/ \A q : Got("gap", q) \/ Waiting(q) => Got("gap", q)'
<1>1. "data" \in Kinds /\ "gap" \in Kinds /\ p \in 0 .. MaxPos /\ p \in Nat
  BY SizesAssumption DEF Kinds
<1>2. buffer \in Buffer /\ received \in Seq(Message(Stream))
  BY TypeFacts
<1>3. /\ b \in Buffer
      /\ b # <<>> /\ b[Len(b)] = Item("data", p)
      /\ \A i \in DOMAIN b :
           i = Len(b) \/ b[i] = Item("gap", p) \/ \E j \in DOMAIN buffer : b[i] = buffer[j]
      /\ \/ \A j \in DOMAIN buffer : \E i \in DOMAIN b : b[i] = buffer[j]
         \/ \E i \in DOMAIN b : b[i] = Item("gap", p)
  BY DEF Grown
<1>4. /\ Item("data", p).kind = "data" /\ Item("data", p).pos = p
      /\ Item("gap", p).kind = "gap" /\ Item("gap", p).pos = p
  BY <1>1, ItemTypes
<1>5. /\ l <= c
      /\ \A q : Got("data", q) \/ Got("gap", q) => q <= l
      /\ \A i \in DOMAIN buffer : buffer[i].kind # "data" /\ buffer[i].pos <= l
  BY InOrderElim
<1>6. received' = received \o Sent(s, b)
  OBVIOUS
<1>7. Len(b) \in DOMAIN b
  <2>1. Len(b) \in Nat /\ DOMAIN b = 1 .. Len(b)
    BY <1>3, SequenceFacts DEF Buffer
  <2>2. Len(b) # 0
    BY <1>3 DEF Buffer
  <2> QED
    BY <2>1, <2>2
<1>8. \A k, q : Got(k, q)' <=> Got(k, q) \/ \E i \in DOMAIN b : b[i].kind = k /\ b[i].pos = q
  <2>1. \A items \in Buffer :
          received' = received \o Sent(s, items) =>
            \A k, q : Got(k, q)' <=> Got(k, q)
                                    \/ \E i \in DOMAIN items : items[i].kind = k /\ items[i].pos = q
    <3> SUFFICES ASSUME NEW items \in Buffer, received' = received \o Sent(s, items)
                 PROVE  \A k, q : Got(k, q)' <=> Got(k, q)
                                    \/ \E i \in DOMAIN items : items[i].kind = k /\ items[i].pos = q
      OBVIOUS
    <3> QED
      BY <1>2, GotFacts
  <2> QED
    BY <1>3, <1>6, <2>1
<1>9. \A i \in DOMAIN b : b[i].kind = "data" => i = Len(b) /\ b[i].pos = p
  BY <1>3, <1>4, <1>5
<1>10. \A q : Got("data", q)' <=> Got("data", q) \/ q = p
  BY <1>3, <1>4, <1>7, <1>8, <1>9
<1>11. \A q : (\E i \in DOMAIN b : b[i].kind = "gap" /\ b[i].pos = q) => Waiting(q) \/ q = p
  BY <1>3, <1>4 DEF Waiting
<1>12. \A q : Got("gap", q)' => Got("gap", q) \/ Waiting(q) \/ q = p
  BY <1>8, <1>11
<1>13. \/ Got("gap", p)'
       \/ \A q : Got("gap", q) \/ Waiting(q) => Got("gap", q)'
  <2>1. CASE \A j \in DOMAIN buffer : \E i \in DOMAIN b : b[i] = buffer[j]
    BY <1>8, <2>1 DEF Waiting
  <2>2. CASE \E i \in DOMAIN b : b[i] = Item("gap", p)
    BY <1>4, <1>8, <2>2
  <2> QED
    BY <1>3, <2>1, <2>2
<1>14. ~ \E q : Waiting(q)'
  BY DEF Waiting
<1>15. \A q : Known(q) => q <= l
  BY Positions
<1>16. \A q : Got("data", q)' \/ Got("gap", q)' => q <= p
  <2> SUFFICES ASSUME NEW q, Got("data", q)' \/ Got("gap", q)' PROVE q <= p
    OBVIOUS
  <2>1. CASE q = p
    BY <1>1, <2>1
  <2>2. CASE q # p
    <3>1. Known(q)
      BY <1>10, <1>12, <2>2 DEF Known
    <3>2. q \in Nat
      BY <3>1, KnownNatural
    <3> QED
      BY <1>1, <1>5, <1>15, <3>1, <3>2
  <2> QED
    BY <2>1, <2>2
<1>17. InOrder(p, p)'
  <2>1. p <= p
    BY <1>1
  <2> QED
    BY <1>16, <2>1, InOrderIntro
<1>18. InSequence'
  <2>1. \A q : Got("data", q) => q < p
    <3> SUFFICES ASSUME NEW q, Got("data", q) PROVE q < p
      OBVIOUS
    <3>1. Known(q)
      BY DEF Known
    <3>2. q \in Nat
      BY <3>1, KnownNatural
    <3> QED
      BY <1>1, <1>5, <3>2
  <2> QED
    BY <1>1, <1>2, <1>3, <1>6, <1>9, <2>1, SequenceGrows
<1> QED
  BY <1>10, <1>12, <1>13, <1>14, <1>17, <1>18 DEF Known

-----------------------------------------------------------------------------
LEMMA InitEstablishes == Init => IInv
<1> SUFFICES ASSUME Init PROVE IInv
  OBVIOUS
<1>1. Len(streams) = 0 /\ Stream = {}
  BY DEF Init, Stream
<1>2. TypeOK
  BY SizesAssumption DEF Init, TypeOK
<1>3. OneRuns
  BY <1>1 DEF Init, OneRuns, OneStreamRuns
<1>4. Ordered /\ Told
  BY DEF Init, Ordered, Told, OnceInOrder
<1> QED
  BY <1>2, <1>3, <1>4 DEF IInv

LEMMA OnceInOrderIsSequence == ClosedBetweenEvents => (OnceInOrder <=> InSequence)
BY DEF OnceInOrder, InSequence

\* An event that passes the pipeline: either the stream still runs, or the
\* disconnect caught it in its check and nothing is promised any more.
LEMMA ProcessPreserves ==
  ASSUME IInv, NEW s \in Stream, NEW p \in Matching, p <= src, Process(s, p),
         \/ streams[s].pc = "check" /\ p = streams[s].event
         \/ ~streams[s].aborted /\ p = streams[s].cursor + 1,
         UNCHANGED <<src, active, saved, live, deploys, begun>>
  PROVE  IInv'
<1> DEFINE o == streams[s]
<1>1. TypeOK /\ OneRuns /\ Ordered /\ Told
  BY DEF IInv
<1>2. /\ p \in 1 .. MaxPos /\ p \in 0 .. MaxPos /\ p \in Nat
      /\ o \in StreamObject /\ s # None
  BY <1>1, MatchingPositions, TypeFacts, SizesAssumption
<1>3. /\ o.cursor \in Nat /\ o.last \in Nat /\ o.dropped \in Nat /\ o.aborted \in BOOLEAN
  BY <1>2, ObjectFields, SizesAssumption
<1>4. PICK r \in StreamObject :
         /\ streams' = [streams EXCEPT ![s] = r]
         /\ r.last = p /\ r.cursor = p /\ r.pc # "check"
         /\ r.aborted = o.aborted /\ r.late = o.late
         /\ o.dropped <= r.dropped /\ streams'[s] = r
         /\ buffer' \in Buffer /\ received' \in Seq(Message(Stream))
         /\ s \in live => Limited(s, p) \/ WrittenOut(s, p)
  BY <1>1, <1>2, ProcessEffect
<1>5. /\ streams' \in Seq(StreamObject) /\ Stream' = Stream
      /\ \A i \in Stream : i # s => streams'[i] = streams[i]
  BY <1>1, <1>4, StreamReplaced
<1>6. TypeOK'
  <2>1. /\ src \in 0 .. MaxPos /\ begun \in 0 .. MaxPos /\ deploys \in 0 .. MaxDeploys
        /\ active \in Stream \cup {None} /\ live \subseteq Stream
        /\ saved \in [last : 0 .. MaxPos, dropped : Nat] \cup {None}
    BY <1>1 DEF TypeOK
  <2> QED
    BY <1>4, <1>5, <2>1, TypeIntro
<1>7. OneRuns' /\ (ClosedBetweenEvents' <=> ClosedBetweenEvents)
  BY <1>1, <1>4, OneRunsKept
<1>8. ASSUME ClosedBetweenEvents
      PROVE  /\ OnceInOrder'
             /\ Checking(r)' /\ InOrder(p, p)'
             /\ CanReplay => Complete(p, p, r.dropped)'
             /\ active = s /\ active # None /\ saved = None
  <2>1. ~o.aborted
    BY <1>1, <1>8 DEF OneRuns, ClosedBetweenEvents
  <2>2. active = s /\ s \in live /\ saved = None /\ active # None
    BY <1>1, <1>2, <2>1 DEF OneRuns, OneStreamRuns
  <2>3. InSequence /\ Checking(o) /\ InOrder(o.last, o.cursor)
    BY <1>1, <1>8, <2>2, OnceInOrderIsSequence DEF Ordered
  <2>4. p = o.cursor + 1
    BY <2>3 DEF Checking
  <2>5. o.last <= o.cursor
    BY <2>3 DEF InOrder
  <2>6. r.dropped \in Nat
    BY ObjectFields
  <2>7. Checking(r)'
    BY <1>4 DEF Checking
  <2>8. \A x \in Matching : x <= p \/ p < x
    BY <1>2, MatchingPositions, SizesAssumption
  <2> HIDE DEF o
  <2>9. o.last <= p /\ p <= p /\ p <= src' /\ p <= o.cursor + 1 /\ o.cursor + 1 = p
    BY <1>2, <1>3, <2>4, <2>5
  <2>10. CASE Limited(s, p)
    <3>1. PICK d \in Nat : buffer' = Buffered(buffer, d, Item("gap", p)).buffer
      BY <2>10 DEF Limited
    <3>2. received' = received /\ o.dropped + 1 <= r.dropped
      BY <1>4, <2>10 DEF Limited, o
    <3>3. /\ InOrder(p, p)'
          /\ \A q : Known(q)' => Known(q) \/ q = p
          /\ \A q : (Got("data", q)' <=> Got("data", q)) /\ (Got("gap", q)' <=> Got("gap", q))
          /\ Waiting(p)'
      BY <1>1, <1>2, <1>3, <2>3, <2>9, <3>1, <3>2, BufferGrows
    <3>4. InSequence'
      BY <2>3, <3>2 DEF InSequence
    <3>5. ASSUME CanReplay PROVE Complete(p, p, r.dropped)'
      <4>1. Complete(o.last, o.cursor, o.dropped)
        BY <1>1, <1>8, <2>2, <3>5 DEF Told, o
      <4> QED
        BY <1>1, <1>2, <1>3, <1>4, <1>6, <2>3, <2>6, <2>8, <2>9, <3>2, <3>3, <4>1,
           CompletePreserved DEF o
    <3> QED
      BY <1>7, <1>8, <2>2, <2>7, <3>3, <3>4, <3>5 DEF OnceInOrder, InSequence
  <2>11. CASE WrittenOut(s, p)
    <3>1. PICK b : Grown(b, buffer, "data", p) /\ received' = received \o Sent(s, b)
      BY <2>11 DEF WrittenOut
    <3>2. /\ InOrder(p, p)' /\ InSequence'
          /\ \A q : Known(q)' => Known(q) \/ q = p
          /\ \A q : Got("data", q) => Got("data", q)'
          /\ Got("data", p)'
          /\ \/ Got("gap", p)'
             \/ \A q : Got("gap", q) \/ Waiting(q) => Got("gap", q)'
      <4>1. buffer' = <<>>
        BY <2>11 DEF WrittenOut
      <4>2. /\ TypeOK /\ s \in Stream /\ o.last \in Nat /\ o.cursor \in Nat /\ p \in 1 .. MaxPos
            /\ InOrder(o.last, o.cursor) /\ InSequence /\ p = o.cursor + 1 /\ p <= src'
            /\ Grown(b, buffer, "data", p) /\ received' = received \o Sent(s, b)
        BY <1>1, <1>2, <1>3, <2>3, <2>9, <3>1
      <4> QED
        BY <4>1, <4>2, BufferWritten, ZenonT(60)
    <3>3. ASSUME CanReplay PROVE Complete(p, p, r.dropped)'
      <4>1. Complete(o.last, o.cursor, o.dropped)
        BY <1>1, <1>8, <2>2, <3>3 DEF Told, o
      <4>2. o.dropped <= r.dropped
        BY <1>4 DEF o
      <4>3. \/ Got("gap", p)' \/ Waiting(p)'
            \/ \A q : Got("gap", q) \/ Waiting(q) => Got("gap", q)' \/ Waiting(q)'
        BY <3>2
      <4> QED
        BY <1>1, <1>2, <1>3, <1>6, <2>3, <2>6, <2>8, <2>9, <3>2, <4>1, <4>2, <4>3,
           CompletePreserved
    <3> QED
      BY <1>7, <1>8, <2>2, <2>7, <3>2, <3>3 DEF OnceInOrder, InSequence
  <2> QED
    BY <1>4, <2>2, <2>10, <2>11
<1>9. Ordered'
  BY <1>4, <1>7, <1>8 DEF Ordered
<1>10. Told'
  BY <1>4, <1>7, <1>8 DEF Told
<1> QED
  BY <1>6, <1>7, <1>9, <1>10 DEF IInv

-----------------------------------------------------------------------------
\* A step of one stream that tells its client nothing of an event.
NothingTold ==
  /\ received' \in Seq(Message(Stream))
  /\ \A q : (Got("data", q)' <=> Got("data", q)) /\ (Got("gap", q)' <=> Got("gap", q))
  /\ InSequence => InSequence'
Silently(s, r) ==
  /\ streams' = [streams EXCEPT ![s] = r]
  /\ r.aborted = streams[s].aborted /\ r.late = streams[s].late
  /\ r.last = streams[s].last /\ r.dropped = streams[s].dropped
  /\ r.pc = "check" => ~streams[s].aborted /\ Checking(r)
  /\ \/ r.cursor = streams[s].cursor
     \/ /\ ~streams[s].aborted /\ r.cursor = streams[s].cursor + 1
        /\ r.cursor <= src /\ r.cursor \notin Matching
  /\ UNCHANGED <<src, active, saved, buffer, live, deploys, begun>>
  /\ NothingTold

LEMMA NothingReceived ==
  ASSUME TypeOK, received' = received PROVE NothingTold
BY TypeFacts DEF NothingTold, Got, InSequence

LEMMA SilentStep ==
  ASSUME IInv, NEW s \in Stream, NEW r \in StreamObject, Silently(s, r)
  PROVE  IInv'
<1>0. /\ streams' = [streams EXCEPT ![s] = r]
      /\ r.aborted = streams[s].aborted /\ r.late = streams[s].late
      /\ r.last = streams[s].last /\ r.dropped = streams[s].dropped
      /\ r.pc = "check" => ~streams[s].aborted /\ Checking(r)
      /\ \/ r.cursor = streams[s].cursor
         \/ /\ ~streams[s].aborted /\ r.cursor = streams[s].cursor + 1
            /\ r.cursor <= src /\ r.cursor \notin Matching
      /\ UNCHANGED <<src, active, saved, buffer, live, deploys, begun>>
      /\ received' \in Seq(Message(Stream))
      /\ \A q : (Got("data", q)' <=> Got("data", q)) /\ (Got("gap", q)' <=> Got("gap", q))
      /\ InSequence => InSequence'
  BY DEF Silently, NothingTold
<1> USE <1>0
<1> DEFINE o == streams[s]
<1>1. TypeOK /\ OneRuns /\ Ordered /\ Told
  BY DEF IInv
<1>2. /\ streams' \in Seq(StreamObject) /\ Stream' = Stream /\ streams'[s] = r
      /\ \A i \in Stream : i # s => streams'[i] = streams[i]
  BY <1>1, StreamReplaced
<1>3. TypeOK'
  <2>1. /\ src \in 0 .. MaxPos /\ begun \in 0 .. MaxPos /\ deploys \in 0 .. MaxDeploys
        /\ active \in Stream \cup {None} /\ live \subseteq Stream
        /\ saved \in [last : 0 .. MaxPos, dropped : Nat] \cup {None}
    BY <1>1 DEF TypeOK
  <2>2. buffer \in Buffer
    BY <1>1, TypeFacts
  <2> QED
    BY <1>2, <2>1, <2>2, TypeIntro
<1>4. OneRuns' /\ (ClosedBetweenEvents' <=> ClosedBetweenEvents)
  BY <1>1, OneRunsKept DEF Checking
<1>5. /\ o \in StreamObject /\ o.last \in Nat /\ o.cursor \in Nat /\ o.dropped \in Nat
      /\ r.last \in 0 .. MaxPos /\ r.cursor \in 0 .. MaxPos /\ r.cursor \in Nat
      /\ src \in Nat
  <2>1. o \in StreamObject
    BY <1>1, TypeFacts
  <2>2. src \in Nat
    BY <1>1, SizesAssumption DEF TypeOK
  <2> QED
    BY <2>1, <2>2, ObjectFields, SizesAssumption
<1>6. \A q : Waiting(q)' <=> Waiting(q)
  BY DEF Waiting
<1>7. ASSUME InOrder(o.last, o.cursor)
      PROVE  /\ InOrder(r.last, r.cursor)'
             /\ Complete(o.last, o.cursor, o.dropped) => Complete(r.last, r.cursor, r.dropped)'
  <2>1. o.last <= o.cursor /\ o.cursor <= src
    BY <1>7 DEF InOrder
  <2>2. r.last <= r.cursor /\ r.cursor <= src /\ r.cursor <= o.cursor + 1
    BY <1>5, <2>1
  <2>3. InOrder(r.last, r.cursor)'
    <3>1. /\ \A q : Got("data", q) \/ Got("gap", q) => q <= o.last
          /\ \A i \in DOMAIN buffer : buffer[i].kind # "data" /\ buffer[i].pos <= o.last
          /\ buffer # <<>> => buffer[Len(buffer)].pos = o.last
      BY <1>7, InOrderElim
    <3> QED
      BY <2>2, <3>1, InOrderIntro
  <2>4. ASSUME Complete(o.last, o.cursor, o.dropped)
        PROVE  Complete(r.last, r.cursor, r.dropped)'
    <3>1. \A q : Known(q)' => Known(q) \/ q = r.last
      BY <1>6 DEF Known
    <3>2. r.last > 0 => \A p \in Matching : p <= r.last \/ r.cursor < p
      <4> SUFFICES ASSUME r.last > 0, NEW p \in Matching PROVE p <= r.last \/ r.cursor < p
        OBVIOUS
      <4>1. p <= o.last \/ o.cursor < p
        BY <2>4 DEF Complete
      <4>2. p \in Nat
        BY MatchingPositions, SizesAssumption
      <4> QED
        BY <1>5, <4>1, <4>2
    <3>3. /\ r.last > o.last => Got("data", r.last)'
          /\ \A q : Got("gap", q) \/ Waiting(q) => Got("gap", q)' \/ Waiting(q)'
      BY <1>5, <1>6
    <3>4. ~(o.cursor + 1 \in Matching /\ o.cursor + 1 <= r.cursor)
      BY <1>5
    <3>5. o.last <= r.last /\ o.dropped <= r.dropped
      BY <1>5
    <3>6. r.dropped \in Nat
      BY <1>5
    <3> HIDE DEF o
    <3> QED
      BY <1>1, <1>3, <1>5, <1>7, <2>2, <2>4, <3>1, <3>2, <3>3, <3>4, <3>5, <3>6,
         CompletePreserved
  <2> QED
    BY <2>3, <2>4
<1>8. ASSUME NEW l \in Nat, NEW c \in Nat, InOrder(l, c)
      PROVE  InOrder(l, c)' /\ \A d : Complete(l, c, d) => Complete(l, c, d)'
  BY <1>1, <1>5, <1>8, Quiet
<1>9. ASSUME saved # None
      PROVE  saved.last \in Nat
  BY <1>1, <1>9, SizesAssumption DEF TypeOK
<1>10. ASSUME active # None, active # s
       PROVE  \E x \in StreamObject :
                /\ streams[active] = x /\ streams'[active] = x
                /\ x.last \in Nat /\ x.cursor \in Nat
                /\ Checking(x) => Checking(x)'
  <2>1. active \in Stream
    BY <1>1, <1>10 DEF TypeOK
  <2>2. streams[active] \in StreamObject /\ streams'[active] = streams[active]
    BY <1>1, <1>2, <1>10, <2>1, TypeFacts
  <2>3. PICK x \in StreamObject : x = streams[active]
    BY <2>2
  <2>4. x.last \in Nat /\ x.cursor \in Nat
    BY ObjectFields, SizesAssumption
  <2>5. Checking(x) => Checking(x)'
    BY DEF Checking
  <2> QED
    BY <2>2, <2>3, <2>4, <2>5
<1>11. ASSUME active = s, Checking(o) PROVE Checking(r)'
  BY <1>5, <1>11 DEF Checking
<1>12. ASSUME ClosedBetweenEvents, active # None
       PROVE  /\ Checking(streams[active])'
              /\ InOrder(streams[active].last, streams[active].cursor)'
              /\ CanReplay => Complete(streams[active].last, streams[active].cursor,
                                       streams[active].dropped)'
  <2>1. /\ Checking(streams[active])
        /\ InOrder(streams[active].last, streams[active].cursor)
        /\ CanReplay => Complete(streams[active].last, streams[active].cursor,
                                 streams[active].dropped)
    BY <1>1, <1>12 DEF Ordered, Told
  <2>2. CASE active = s
    BY <1>2, <1>7, <1>11, <2>1, <2>2
  <2>3. CASE active # s
    <3>1. PICK x \in StreamObject :
            /\ streams[active] = x /\ streams'[active] = x
            /\ x.last \in Nat /\ x.cursor \in Nat
            /\ Checking(x) => Checking(x)'
      BY <1>10, <1>12, <2>3
    <3>2. /\ Checking(x)' /\ InOrder(x.last, x.cursor)'
          /\ CanReplay => Complete(x.last, x.cursor, x.dropped)'
      BY <1>8, <2>1, <3>1
    <3> QED
      BY <3>1, <3>2
  <2> QED
    BY <2>2, <2>3
<1>13. ASSUME ClosedBetweenEvents, saved # None
       PROVE  /\ InOrder(saved.last, saved.last)'
              /\ CanReplay => Complete(saved.last, saved.last, saved.dropped)'
  BY <1>1, <1>8, <1>9, <1>13 DEF Ordered, Told
<1>14. Ordered'
  <2>1. ClosedBetweenEvents => OnceInOrder'
    BY <1>1, <1>4, OnceInOrderIsSequence DEF Ordered, OnceInOrder, InSequence
  <2> QED
    BY <1>4, <1>12, <1>13, <2>1 DEF Ordered
<1>15. Told'
  BY <1>4, <1>12, <1>13 DEF Told
<1> QED
  BY <1>3, <1>4, <1>14, <1>15 DEF IInv

\* Items without an event keep the sequence as it is.
LEMMA NoEventInItems ==
  ASSUME NEW S, received \in Seq(Message(S)), NEW s \in S, NEW items \in Buffer,
         received' = received \o Sent(s, items), InSequence,
         \A i \in DOMAIN items : items[i].kind # "data"
  PROVE  InSequence'
<1>1. MaxPos + 1 \in Nat
  BY SizesAssumption
<1>2. \A q : Got("data", q) => q < MaxPos + 1
  <2> SUFFICES ASSUME NEW q, Got("data", q) PROVE q < MaxPos + 1
    OBVIOUS
  <2>1. PICK i \in DOMAIN received : received[i].pos = q
    BY DEF Got
  <2>2. received[i] \in Message(S)
    BY SequenceFacts
  <2> QED
    BY <2>1, <2>2, SizesAssumption DEF Message
<1> QED
  BY <1>1, <1>2, SequenceGrows

LEMMA ArrivePreserves ==
  ASSUME IInv, NEW s \in Stream, Arrive(s) PROVE IInv'
<1> DEFINE o == streams[s]
           p == o.cursor + 1
<1>1. TypeOK
  BY DEF IInv
<1>2. o \in StreamObject /\ streams \in Seq(StreamObject) /\ s \in DOMAIN streams
      /\ received \in Seq(Message(Stream))
  BY <1>1, TypeFacts
<1>3. /\ o.cursor \in Nat /\ o.cursor < src /\ src \in 0 .. MaxPos /\ o.aborted \in BOOLEAN
  <2>1. o.cursor \in 0 .. MaxPos /\ o.aborted \in BOOLEAN
    BY <1>2, ObjectFields
  <2>2. o.cursor < src
    BY DEF Arrive
  <2>3. src \in 0 .. MaxPos
    BY <1>1 DEF TypeOK
  <2> QED
    BY <2>1, <2>2, <2>3, SizesAssumption
<1>4. p \in 0 .. MaxPos /\ p <= src
  BY <1>3, SizesAssumption
<1>5. UNCHANGED <<src, active, saved, live, deploys, begun>>
  BY DEF Arrive
<1>6. CASE /\ o.aborted
           /\ streams' = [streams EXCEPT ![s].pc = "ended"]
           /\ UNCHANGED <<buffer, received>>
  <2> DEFINE r == [o EXCEPT !.pc = "ended"]
  <2>1. /\ r \in StreamObject /\ r.pc = "ended" /\ r.aborted = o.aborted /\ r.late = o.late
        /\ r.last = o.last /\ r.dropped = o.dropped /\ r.cursor = o.cursor
    BY <1>2 DEF StreamObject
  <2>2. streams' = [streams EXCEPT ![s] = r]
    BY <1>6
  <2> HIDE DEF r
  <2>3. NothingTold
    BY <1>1, <1>6, NothingReceived
  <2> QED
    BY <1>5, <1>6, <2>1, <2>2, <2>3, SilentStep DEF Silently
<1>7. CASE /\ ~o.aborted /\ p \notin Matching
           /\ streams' = [streams EXCEPT ![s].cursor = p]
           /\ UNCHANGED <<buffer, received>>
  <2> DEFINE r == [o EXCEPT !.cursor = p]
  <2>1. /\ r \in StreamObject /\ r.pc = "watch" /\ r.aborted = o.aborted /\ r.late = o.late
        /\ r.last = o.last /\ r.dropped = o.dropped /\ r.cursor = p
    BY <1>2, <1>4 DEF StreamObject, Arrive
  <2>2. streams' = [streams EXCEPT ![s] = r]
    BY <1>7
  <2> HIDE DEF r
  <2>3. NothingTold
    BY <1>1, <1>7, NothingReceived
  <2> QED
    BY <1>4, <1>5, <1>7, <2>1, <2>2, <2>3, SilentStep DEF Silently
<1>8. CASE /\ ~o.aborted /\ p \in Matching
           /\ streams' = [streams EXCEPT ![s].pc = "check", ![s].event = p]
           /\ UNCHANGED <<buffer, received>>
  <2> DEFINE r == [o EXCEPT !.pc = "check", !.event = p]
  <2>1. /\ r \in StreamObject /\ r.pc = "check" /\ r.event = p
        /\ r.aborted = o.aborted /\ r.late = o.late
        /\ r.last = o.last /\ r.dropped = o.dropped /\ r.cursor = o.cursor
    BY <1>2, <1>4 DEF StreamObject
  <2>2. streams' = [streams EXCEPT ![s] = r]
    BY <1>2, <1>8
  <2> HIDE DEF r
  <2>3. NothingTold
    BY <1>1, <1>8, NothingReceived
  <2>4. Checking(r)
    BY <1>4, <1>8, <2>1 DEF Checking
  <2> QED
    BY <1>5, <1>8, <2>1, <2>2, <2>3, <2>4, SilentStep DEF Silently
<1>9. CASE ~o.aborted /\ p \in Matching /\ Process(s, p)
  BY <1>4, <1>5, <1>9, ProcessPreserves
<1> QED
  BY <1>6, <1>7, <1>8, <1>9 DEF Arrive

LEMMA StreamFailsPreserves ==
  ASSUME IInv, NEW s \in Stream, StreamFails(s) PROVE IInv'
<1> DEFINE o == streams[s]
           r == [o EXCEPT !.pc = "ended"]
           e == Item("error", o.last)
<1>1. TypeOK
  BY DEF IInv
<1>2. o \in StreamObject /\ streams \in Seq(StreamObject) /\ s \in DOMAIN streams
      /\ received \in Seq(Message(Stream))
  BY <1>1, TypeFacts
<1>3. /\ r \in StreamObject /\ r.pc = "ended" /\ r.aborted = o.aborted /\ r.late = o.late
      /\ r.last = o.last /\ r.dropped = o.dropped /\ r.cursor = o.cursor
  BY <1>2 DEF StreamObject
<1>4. /\ streams' = [streams EXCEPT ![s] = r]
      /\ UNCHANGED <<src, active, saved, buffer, live, deploys, begun>>
      /\ received' = IF s \in live THEN received \o Sent(s, <<e>>) ELSE received
  BY DEF StreamFails
<1>5. /\ e \in [kind : Kinds, pos : 0 .. MaxPos] /\ e.kind = "error"
  <2>1. "error" \in Kinds /\ o.last \in 0 .. MaxPos
    BY <1>2, ObjectFields DEF Kinds
  <2> QED
    BY <2>1, ItemTypes
<1> HIDE DEF r, e
<1> DEFINE items == <<e>>
<1>6. items \in Buffer /\ DOMAIN items = {1} /\ items[1] = e
  BY <1>5 DEF Buffer
<1>7. NothingTold
  <2>1. CASE s \in live
    <3>1. received' = received \o Sent(s, items)
      BY <1>4, <2>1
    <3> HIDE DEF items
    <3>2. \A k, q : Got(k, q)' <=> Got(k, q)
                      \/ \E i \in DOMAIN items : items[i].kind = k /\ items[i].pos = q
      BY <1>2, <1>6, <3>1, GotFacts, ZenonT(60)
    <3>3. \A q : (Got("data", q)' <=> Got("data", q)) /\ (Got("gap", q)' <=> Got("gap", q))
      BY <1>5, <1>6, <3>2
    <3>4. received' \in Seq(Message(Stream))
      BY <1>2, <1>6, <3>1, ReceivedFacts
    <3>5. ASSUME InSequence PROVE InSequence'
      <4>1. \A i \in DOMAIN items : items[i].kind # "data"
        BY <1>5, <1>6
      <4> QED
        BY <1>2, <1>6, <3>1, <3>5, <4>1, NoEventInItems
    <3> QED
      BY <3>3, <3>4, <3>5 DEF NothingTold
  <2>2. CASE s \notin live
    BY <1>1, <1>4, <2>2, NothingReceived
  <2> QED
    BY <2>1, <2>2
<1> QED
  BY <1>3, <1>4, <1>7, SilentStep DEF Silently

LEMMA CheckedPreserves ==
  ASSUME IInv, NEW s \in Stream, Checked(s) PROVE IInv'
<1> DEFINE o == streams[s]
           p == o.event
<1>1. TypeOK /\ OneRuns /\ Ordered
  BY DEF IInv
<1>2. /\ o \in StreamObject /\ o.pc = "check" /\ Process(s, p)
      /\ UNCHANGED <<src, active, saved, live, deploys, begun>>
  BY <1>1, TypeFacts DEF Checked
<1>3. p \in Matching /\ p <= src
  BY <1>1, <1>2 DEF OneRuns
<1> QED
  BY <1>2, <1>3, ProcessPreserves

-----------------------------------------------------------------------------
\* The stream that runs is left as it is, and nothing is told.
LEMMA Untouched ==
  ASSUME IInv, TypeOK', UNCHANGED <<streams, active, live, buffer, received>>,
         src <= src', saved' = saved \/ saved' = None
  PROVE  IInv'
<1>1. TypeOK /\ OneRuns /\ Ordered /\ Told
  BY DEF IInv
<1>2. Stream' = Stream /\ src \in Nat /\ src' \in Nat
  BY <1>1, SizesAssumption DEF Stream, TypeOK
<1>3. \A s \in Stream : streams[s].event \in Nat
  <2> SUFFICES ASSUME NEW s \in Stream PROVE streams[s].event \in Nat
    OBVIOUS
  <2>1. streams[s] \in StreamObject
    BY <1>1, TypeFacts
  <2> QED
    BY <2>1, ObjectFields, SizesAssumption
<1>4. OneRuns'
  <2>1. OneStreamRuns'
    BY <1>1, <1>2 DEF OneRuns, OneStreamRuns
  <2>2. \A s \in Stream' : streams'[s].pc = "check" =>
                           streams'[s].event \in Matching /\ streams'[s].event <= src'
    BY <1>1, <1>2, <1>3 DEF OneRuns
  <2> QED
    BY <1>1, <1>2, <2>1, <2>2 DEF OneRuns
<1>5. ClosedBetweenEvents' <=> ClosedBetweenEvents
  BY <1>2 DEF ClosedBetweenEvents
<1>6. ASSUME NEW l \in Nat, NEW c \in Nat, InOrder(l, c)
      PROVE  InOrder(l, c)' /\ \A d : Complete(l, c, d) => Complete(l, c, d)'
  <2>1. \A q : (Got("data", q)' <=> Got("data", q)) /\ (Got("gap", q)' <=> Got("gap", q))
    BY DEF Got
  <2> QED
    BY <1>1, <1>2, <1>6, <2>1, Quiet
<1>7. ASSUME ClosedBetweenEvents, saved' # None
      PROVE  /\ InOrder(saved.last, saved.last)' /\ saved' = saved
             /\ CanReplay => Complete(saved.last, saved.last, saved.dropped)'
  <2>1. saved # None /\ saved' = saved
    BY <1>7
  <2>2. saved.last \in Nat
    BY <1>1, <2>1, SizesAssumption DEF TypeOK
  <2> QED
    BY <1>1, <1>6, <1>7, <2>1, <2>2 DEF Ordered, Told
<1>8. ASSUME ClosedBetweenEvents, active # None
      PROVE  /\ Checking(streams[active])'
             /\ InOrder(streams[active].last, streams[active].cursor)'
             /\ CanReplay => Complete(streams[active].last, streams[active].cursor,
                                      streams[active].dropped)'
  <2>1. active \in Stream
    BY <1>1, <1>8 DEF TypeOK
  <2>2. PICK x \in StreamObject : x = streams[active]
    BY <1>1, <2>1, TypeFacts
  <2>3. x.last \in Nat /\ x.cursor \in Nat
    BY ObjectFields, SizesAssumption
  <2>4. Checking(x) /\ InOrder(x.last, x.cursor)
    BY <1>1, <1>8, <2>2 DEF Ordered
  <2>5. CanReplay => Complete(x.last, x.cursor, x.dropped)
    BY <1>1, <1>8, <2>2 DEF Told
  <2>6. Checking(x)'
    <3>1. x.event \in Nat
      BY ObjectFields, SizesAssumption
    <3> QED
      BY <1>2, <2>4, <3>1 DEF Checking
  <2>7. /\ InOrder(x.last, x.cursor)'
        /\ CanReplay => Complete(x.last, x.cursor, x.dropped)'
    BY <1>6, <2>3, <2>4, <2>5
  <2>8. streams'[active'] = x
    BY <2>2
  <2> QED
    BY <2>6, <2>7, <2>8
<1>9. Ordered'
  <2>1. ClosedBetweenEvents => OnceInOrder'
    BY <1>1, <1>5 DEF Ordered, OnceInOrder
  <2> QED
    BY <1>5, <1>7, <1>8, <2>1 DEF Ordered
<1>10. Told'
  BY <1>5, <1>7, <1>8 DEF Told
<1> QED
  BY <1>4, <1>9, <1>10 DEF IInv

LEMMA EmitPreserves == IInv /\ Emit => IInv'
<1> SUFFICES ASSUME IInv, Emit PROVE IInv'
  OBVIOUS
<1>1. TypeOK
  BY DEF IInv
<1>2. src' = src + 1 /\ src < MaxPos
      /\ UNCHANGED <<streams, active, saved, buffer, live, deploys, begun, received>>
  BY DEF Emit
<1>3. src \in Nat /\ src' \in 0 .. MaxPos /\ src <= src'
  BY <1>1, <1>2, SizesAssumption DEF TypeOK
<1>4. TypeOK'
  BY <1>1, <1>2, <1>3 DEF TypeOK, Stream
<1> QED
  BY <1>2, <1>3, <1>4, Untouched

LEMMA ExpirePreserves == IInv /\ Expire => IInv'
<1> SUFFICES ASSUME IInv, Expire PROVE IInv'
  OBVIOUS
<1>1. TypeOK
  BY DEF IInv
<1>2. saved' = None
      /\ UNCHANGED <<src, streams, active, buffer, live, deploys, begun, received>>
  BY DEF Expire
<1>3. src <= src'
  BY <1>1, <1>2, SizesAssumption DEF TypeOK
<1>4. TypeOK'
  BY <1>1, <1>2 DEF TypeOK, Stream
<1> QED
  BY <1>2, <1>3, <1>4, Untouched

-----------------------------------------------------------------------------
Fresh(n, c, l, d) ==
  /\ n \in StreamObject /\ n.pc = "watch" /\ n.aborted = FALSE /\ n.late = FALSE
  /\ n.last = l /\ n.cursor = c /\ n.dropped = d

LEMMA NewStreamIsFresh ==
  ASSUME NEW c \in 0 .. MaxPos, NEW l \in 0 .. MaxPos, NEW d \in Nat
  PROVE  Fresh(NewStream(c, l, d), c, l, d)
BY SizesAssumption DEF NewStream, StreamObject, Fresh

\* Where nothing is known there is nothing to tell.
LEMMA NothingKnown ==
  ASSUME \A q : Known(q)' => q = 0, NEW c, NEW d \in Nat
  PROVE  Complete(0, c, d)'
<1>1. \A p : ~KnownBefore(p)'
  BY SizesAssumption DEF KnownBefore
<1>2. Undelivered(c)' = {}
  BY <1>1 DEF Undelivered
<1> QED
  BY <1>1, <1>2, FS_EmptySet DEF Complete

LEMMA subscribePreserves == IInv /\ subscribe => IInv'
<1> SUFFICES ASSUME IInv, subscribe PROVE IInv'
  OBVIOUS
<1>1. TypeOK /\ OneRuns
  BY DEF IInv
<1> DEFINE n == NewStream(src, 0, 0)
<1>2. /\ streams = <<>> /\ streams' = <<n>> /\ active' = 1 /\ live' = {1} /\ begun' = src
      /\ UNCHANGED <<src, saved, buffer, deploys, received>>
  BY DEF subscribe
<1>3. received = <<>> /\ buffer = <<>> /\ saved = None
  BY <1>1, <1>2 DEF OneRuns
<1>4. src \in 0 .. MaxPos /\ 0 \in 0 .. MaxPos /\ src \in Nat /\ 0 <= src
  BY <1>1, SizesAssumption DEF TypeOK
<1>5. /\ n \in StreamObject /\ n.pc = "watch" /\ n.aborted = FALSE /\ n.late = FALSE
      /\ n.last = 0 /\ n.cursor = src /\ n.dropped = 0
  <2>1. Fresh(n, src, 0, 0)
    BY <1>4, NewStreamIsFresh
  <2> QED
    BY <2>1 DEF Fresh
<1> HIDE DEF n
<1>6. streams' \in Seq(StreamObject) /\ Stream' = {1} /\ streams'[1] = n /\ streams' # <<>>
  BY <1>2, <1>5 DEF Stream
<1>7. TypeOK'
  <2>1. deploys \in 0 .. MaxDeploys
    BY <1>1 DEF TypeOK
  <2>2. buffer' \in Buffer /\ received' \in Seq(Message(Stream'))
    BY <1>2, <1>3 DEF Buffer
  <2> QED
    BY <1>2, <1>3, <1>4, <1>6, <2>1, <2>2, TypeIntro
<1>8. OneRuns'
  BY <1>2, <1>3, <1>5, <1>6, NoneAssumption DEF OneRuns, OneStreamRuns
<1>9. \A q : ~Got("data", q)' /\ ~Got("gap", q)' /\ ~Waiting(q)'
  BY <1>2, <1>3 DEF Got, Waiting
<1>10. PICK x \in StreamObject : x = n
  BY <1>5
<1>11. src' = src /\ streams'[active'] = x
  BY <1>2, <1>6, <1>10
<1>12. InOrder(0, src)'
  BY <1>2, <1>3, <1>4, <1>9 DEF InOrder
<1>13. Checking(x)'
  BY <1>5, <1>10 DEF Checking
<1>14. Ordered'
  <2>1. OnceInOrder'
    BY <1>2, <1>3 DEF OnceInOrder
  <2>2. saved' = None
    BY <1>2, <1>3
  <2> QED
    BY <1>5, <1>10, <1>11, <1>12, <1>13, <2>1, <2>2 DEF Ordered
<1>15. Told'
  <2>1. \A c : Complete(0, c, 0)'
    BY <1>9, NothingKnown DEF Known
  <2>2. saved' = None
    BY <1>2, <1>3
  <2> QED
    BY <1>5, <1>10, <1>11, <2>1, <2>2 DEF Told
<1> QED
  BY <1>7, <1>8, <1>14, <1>15 DEF IInv

LEMMA Appended ==
  ASSUME NEW A, NEW q \in Seq(A), NEW x \in A
  PROVE  /\ Append(q, x) \in Seq(A) /\ Len(Append(q, x)) = Len(q) + 1
         /\ Append(q, x) # <<>> /\ Append(q, x)[Len(q) + 1] = x
         /\ \A i \in 1 .. Len(q) : Append(q, x)[i] = q[i]
OBVIOUS

LEMMA resumePreserves == IInv /\ resume => IInv'
<1> SUFFICES ASSUME IInv, resume PROVE IInv'
  OBVIOUS
<1>1. TypeOK /\ OneRuns /\ Ordered /\ Told
  BY DEF IInv
<1> DEFINE n == Len(streams) + 1
           last == IF buffer = <<>> THEN saved.last ELSE buffer[Len(buffer)].pos
           cursor == IF CanReplay /\ saved.last > 0 THEN saved.last ELSE src
           new == NewStream(cursor, last, saved.dropped)
<1>2. /\ saved # None /\ saved' = None
      /\ streams' = Append(streams, new)
      /\ buffer' = <<>> /\ received' = received \o Sent(n, buffer)
      /\ active' = n /\ live' = {n}
      /\ UNCHANGED <<src, deploys, begun>>
  BY DEF resume
<1>3. /\ streams \in Seq(StreamObject) /\ buffer \in Buffer /\ received \in Seq(Message(Stream))
      /\ Len(streams) \in Nat /\ \A s \in Stream : s # None
  BY <1>1, TypeFacts
<1>4. /\ saved.last \in 0 .. MaxPos /\ saved.dropped \in Nat /\ src \in 0 .. MaxPos
      /\ begun \in 0 .. MaxPos /\ deploys \in 0 .. MaxDeploys
  BY <1>1, <1>2 DEF TypeOK
<1>5. last \in 0 .. MaxPos
  <2>1. CASE buffer = <<>>
    BY <1>4, <2>1
  <2>2. CASE buffer # <<>>
    <3>1. Len(buffer) \in Nat /\ DOMAIN buffer = 1 .. Len(buffer)
          /\ \A i \in DOMAIN buffer : buffer[i] \in [kind : Kinds, pos : 0 .. MaxPos]
      BY <1>3, SequenceFacts DEF Buffer
    <3>2. Len(buffer) # 0
      BY <1>3, <2>2 DEF Buffer
    <3>3. buffer[Len(buffer)] \in [kind : Kinds, pos : 0 .. MaxPos]
      BY <3>1, <3>2
    <3> QED
      BY <2>2, <3>3
  <2> QED
    BY <2>1, <2>2
<1>6. cursor \in 0 .. MaxPos
  BY <1>4
<1>7. active = None
  BY <1>1, <1>2 DEF OneRuns
<1>8. /\ new \in StreamObject /\ new.pc = "watch" /\ new.aborted = FALSE /\ new.late = FALSE
      /\ new.last = last /\ new.cursor = cursor /\ new.dropped = saved.dropped
  <2> HIDE DEF last, cursor
  <2>1. Fresh(new, cursor, last, saved.dropped)
    BY <1>4, <1>5, <1>6, NewStreamIsFresh
  <2> QED
    BY <2>1 DEF Fresh
<1> HIDE DEF new
<1>9. /\ streams' \in Seq(StreamObject) /\ Len(streams') = n /\ streams' # <<>>
      /\ streams'[n] = new /\ \A i \in 1 .. Len(streams) : streams'[i] = streams[i]
  BY <1>2, <1>3, <1>8, Appended
<1>10. /\ Stream' = Stream \cup {n} /\ n \notin Stream /\ n \in Nat
       /\ \A i \in Stream : streams'[i] = streams[i]
  BY <1>3, <1>9 DEF Stream
<1>11. received \in Seq(Message(Stream'))
  <2>1. Message(Stream) \subseteq Message(Stream')
    BY <1>10 DEF Message
  <2> QED
    BY <1>3, <2>1, SequenceFacts
<1>12. n \in Stream'
  BY <1>10
<1> HIDE DEF n
<1>13. received' \in Seq(Message(Stream'))
  <2>1. PICK S : S = Stream'
    OBVIOUS
  <2>2. received \in Seq(Message(S)) /\ n \in S
    BY <1>11, <1>12, <2>1
  <2>3. received' \in Seq(Message(S))
    BY <1>2, <1>3, <2>2, ReceivedFacts
  <2> QED
    BY <2>1, <2>3
<1>14. TypeOK'
  <2>1. buffer' \in Buffer
    BY <1>2 DEF Buffer
  <2> QED
    BY <1>2, <1>4, <1>9, <1>10, <1>12, <1>13, <2>1, TypeIntro
<1>15. OneRuns'
  <2>1. n # None
    BY <1>10, NoneAssumption
  <2>2. \A s \in Stream : streams[s].aborted
    BY <1>1, <1>3, <1>7 DEF OneRuns, OneStreamRuns
  <2>3. OneStreamRuns'
    BY <1>2, <1>8, <1>9, <1>10, <2>2 DEF OneStreamRuns
  <2>4. \A s \in Stream' :
          /\ streams'[s].aborted /\ streams'[s].pc = "check" => streams'[s].late
          /\ streams'[s].late => streams'[s].aborted
          /\ streams'[s].pc = "check" =>
               streams'[s].event \in Matching /\ streams'[s].event <= src'
    BY <1>1, <1>2, <1>8, <1>9, <1>10 DEF OneRuns
  <2> QED
    BY <1>2, <1>9, <2>1, <2>3, <2>4 DEF OneRuns
<1>16. ClosedBetweenEvents' => ClosedBetweenEvents
  BY <1>10 DEF ClosedBetweenEvents
<1>17. PICK x \in StreamObject : x = new
  BY <1>8
<1>18. streams'[active'] = x /\ active' # None /\ saved' = None
  BY <1>2, <1>9, <1>10, <1>17, NoneAssumption
<1>19. Checking(x)'
  BY <1>8, <1>17 DEF Checking
<1>20. \A k, q : Got(k, q)' <=> Got(k, q)
                  \/ \E i \in DOMAIN buffer : buffer[i].kind = k /\ buffer[i].pos = q
  <2>1. PICK S : S = Stream'
    OBVIOUS
  <2>2. received \in Seq(Message(S)) /\ n \in S
    BY <1>11, <1>12, <2>1
  <2>3. PICK items \in Buffer : items = buffer
    BY <1>3
  <2>4. received' = received \o Sent(n, items)
    BY <1>2, <2>3
  <2>5. \A k, q : Got(k, q)' <=> Got(k, q)
                  \/ \E i \in DOMAIN items : items[i].kind = k /\ items[i].pos = q
    BY <2>2, <2>4, GotFacts
  <2> QED
    BY <2>3, <2>5
<1>21. ASSUME ClosedBetweenEvents
       PROVE  /\ OnceInOrder' /\ InOrder(x.last, x.cursor)'
              /\ CanReplay => Complete(x.last, x.cursor, x.dropped)'
  <2>1. InSequence /\ InOrder(saved.last, saved.last)
    BY <1>1, <1>2, <1>21, OnceInOrderIsSequence DEF Ordered
  <2>2. /\ saved.last <= src
        /\ \A q : Got("data", q) \/ Got("gap", q) => q <= saved.last
        /\ \A i \in DOMAIN buffer : buffer[i].kind # "data" /\ buffer[i].pos <= saved.last
        /\ buffer # <<>> => buffer[Len(buffer)].pos = saved.last
    BY <2>1, InOrderElim
  <2>3. last = saved.last
    BY <2>2
  <2>4. InSequence'
    <3>1. PICK S : S = Stream'
      OBVIOUS
    <3>2. received \in Seq(Message(S)) /\ n \in S
      BY <1>11, <1>12, <3>1
    <3> QED
      BY <1>2, <1>3, <2>1, <2>2, <3>2, NoEventInItems
  <2>5. cursor >= saved.last /\ cursor <= src
    BY <1>4, <2>2
  <2>6. \A q : (Got("data", q)' <=> Got("data", q)) /\ (Got("gap", q)' <=> Got("gap", q) \/ Waiting(q))
    BY <1>20, <2>2 DEF Waiting
  <2>7. \A q : Known(q)' <=> Known(q)
    BY <1>2, <2>6 DEF Known, Waiting
  <2>8. \A q : Known(q) => q <= saved.last /\ q \in Nat
    BY <2>2, <1>1, KnownNatural DEF Known, Waiting
  <2>9. InOrder(x.last, x.cursor)'
    <3>1. \A q : Got("data", q)' \/ Got("gap", q)' => q <= saved.last
      BY <2>6, <2>8 DEF Known
    <3>2. x.last = saved.last /\ x.cursor = cursor /\ src' = src /\ buffer' = <<>>
      BY <1>2, <1>8, <1>17, <2>3
    <3> HIDE DEF cursor
    <3>3. x.last <= x.cursor /\ x.cursor <= src'
      BY <1>4, <1>6, <2>5, <3>2
    <3>4. \A q : Got("data", q)' \/ Got("gap", q)' => q <= x.last
      BY <3>1, <3>2
    <3> QED
      BY <3>2, <3>3, <3>4, InOrderIntro
  <2>10. ASSUME CanReplay PROVE Complete(x.last, x.cursor, x.dropped)'
    <3>1. CASE saved.last = 0
      <4>1. \A q : Known(q)' => q = 0
        BY <2>7, <2>8, <3>1
      <4>2. x.last = 0 /\ x.dropped \in Nat
        BY <1>8, <1>17, <2>3, <3>1, ObjectFields
      <4> QED
        BY <4>1, <4>2, NothingKnown
    <3>2. CASE saved.last # 0
      <4>1. x.last = saved.last /\ x.cursor = saved.last /\ x.dropped = saved.dropped
        BY <1>4, <1>8, <1>17, <2>3, <2>10, <3>2
      <4>2. Complete(saved.last, saved.last, saved.dropped)
        BY <1>1, <1>2, <1>21, <2>10 DEF Told
      <4>3. Complete(x.last, x.last, x.dropped) /\ InOrder(x.last, x.last)
        BY <2>1, <4>1, <4>2
      <4>4. /\ x.last \in Nat /\ x.last \in 0 .. MaxPos /\ x.dropped \in Nat
            /\ x.last <= x.last /\ x.last <= x.last + 1 /\ x.dropped <= x.dropped
            /\ ~(x.last + 1 <= x.last) /\ ~(x.last > x.last)
        BY ObjectFields, SizesAssumption
      <4>5. \A p \in Matching : p <= x.last \/ x.last < p
        BY <4>4, MatchingPositions, SizesAssumption
      <4>6. \A q : Known(q)' => Known(q) \/ q = x.last
        BY <2>7
      <4>7. \A q : Got("gap", q) \/ Waiting(q) => Got("gap", q)' \/ Waiting(q)'
        BY <2>6
      <4>8. Complete(x.last, x.last, x.dropped)'
        BY <1>1, <1>14, <2>6, <4>3, <4>4, <4>5, <4>6, <4>7, CompletePreserved
      <4> QED
        BY <4>1, <4>8
    <3> QED
      BY <3>1, <3>2
  <2> QED
    BY <2>4, <2>9, <2>10 DEF OnceInOrder, InSequence
<1>22. Ordered'
  <2>1. /\ ClosedBetweenEvents' => OnceInOrder'
        /\ ClosedBetweenEvents' => InOrder(x.last, x.cursor)'
    BY <1>16, <1>21
  <2> QED
    BY <1>18, <1>19, <2>1 DEF Ordered, OnceInOrder
<1>23. Told'
  BY <1>16, <1>18, <1>21 DEF Told
<1> QED
  BY <1>14, <1>15, <1>22, <1>23 DEF IInv

-----------------------------------------------------------------------------
\* A connection that goes: its object is aborted, and what was buffered stays.
LEMMA StoppedFacts ==
  ASSUME TypeOK, OneRuns, active # None,
         streams' = [streams EXCEPT ![active] = Aborted(@)],
         active' = None, UNCHANGED <<src, buffer, received>>
  PROVE  /\ active \in Stream /\ streams[active] \in StreamObject
         /\ streams' \in Seq(StreamObject) /\ Stream' = Stream
         /\ streams' # <<>> /\ OneStreamRuns'
         /\ \A s \in Stream' : streams'[s].aborted /\ streams'[s].pc = "check"
                                 => streams'[s].late
         /\ \A s \in Stream' : streams'[s].late => streams'[s].aborted
         /\ \A s \in Stream' : streams'[s].pc = "check" =>
                                streams'[s].event \in Matching /\ streams'[s].event <= src'
         /\ ClosedBetweenEvents' => ClosedBetweenEvents
         /\ OnceInOrder => OnceInOrder'
<1> DEFINE o == streams[active]
           r == Aborted(o)
<1>1. /\ active \in Stream /\ o \in StreamObject /\ streams \in Seq(StreamObject)
      /\ \A s \in Stream : s # None
  BY TypeFacts DEF TypeOK
<1>2. /\ r \in StreamObject /\ r.aborted = TRUE /\ r.late = (o.pc = "check")
      /\ r.pc = o.pc /\ r.event = o.event
  BY <1>1 DEF Aborted, StreamObject
<1> HIDE DEF r
<1>3. streams' = [streams EXCEPT ![active] = r]
  BY DEF r
<1>4. /\ streams' \in Seq(StreamObject) /\ Stream' = Stream /\ streams'[active] = r
      /\ streams' # <<>> /\ \A i \in Stream : i # active => streams'[i] = streams[i]
  BY <1>1, <1>2, <1>3, StreamReplaced
<1>5. OneStreamRuns'
  <2>1. \A i \in Stream : streams'[i].aborted
    BY <1>2, <1>4 DEF OneRuns, OneStreamRuns
  <2> QED
    BY <1>1, <1>4, <2>1 DEF OneStreamRuns
<1>6. ~o.late
  <2>1. ~o.aborted
    BY <1>1 DEF OneRuns, OneStreamRuns
  <2> QED
    BY <1>1, <2>1 DEF OneRuns
<1>7. ClosedBetweenEvents' => ClosedBetweenEvents
  BY <1>4, <1>6 DEF ClosedBetweenEvents
<1>8. \A s \in Stream' :
        /\ streams'[s].aborted /\ streams'[s].pc = "check" => streams'[s].late
        /\ streams'[s].late => streams'[s].aborted
        /\ streams'[s].pc = "check" =>
             streams'[s].event \in Matching /\ streams'[s].event <= src'
  <2>1. /\ streams'[active].aborted /\ streams'[active].pc = "check"
             => streams'[active].late
        /\ streams'[active].late => streams'[active].aborted
    BY <1>2, <1>4
  <2>2. streams'[active].pc = "check" =>
          streams'[active].event \in Matching /\ streams'[active].event <= src'
    BY <1>1, <1>2, <1>4 DEF OneRuns
  <2>3. ASSUME NEW s \in Stream, s # active
        PROVE  /\ streams'[s].aborted /\ streams'[s].pc = "check" => streams'[s].late
               /\ streams'[s].late => streams'[s].aborted
               /\ streams'[s].pc = "check" =>
                    streams'[s].event \in Matching /\ streams'[s].event <= src'
    <3>1. streams'[s] = streams[s]
      BY <1>4, <2>3
    <3> QED
      BY <3>1 DEF OneRuns
  <2> QED
    BY <1>4, <2>1, <2>2, <2>3
<1>9. OnceInOrder => OnceInOrder'
  <2>1. InSequence => InSequence'
    BY DEF InSequence
  <2> QED
    BY <1>7, <2>1 DEF OnceInOrder, InSequence
<1> QED
  BY <1>1, <1>4, <1>5, <1>7, <1>8, <1>9

LEMMA cancelAllForConnectionPreserves == IInv /\ cancelAllForConnection => IInv'
<1> SUFFICES ASSUME IInv, cancelAllForConnection PROVE IInv'
  OBVIOUS
<1>1. TypeOK /\ OneRuns /\ Ordered
  BY DEF IInv
<1>2. /\ active # None /\ active' = None
      /\ streams' = [streams EXCEPT ![active] = Aborted(@)]
      /\ UNCHANGED <<src, saved, buffer, live, deploys, begun, received>>
  BY DEF cancelAllForConnection
<1>3. saved' = None
  BY <1>1, <1>2 DEF OneRuns
<1>4. /\ streams' \in Seq(StreamObject) /\ Stream' = Stream
      /\ streams' # <<>> /\ OneStreamRuns'
      /\ \A s \in Stream' : streams'[s].aborted /\ streams'[s].pc = "check"
                              => streams'[s].late
      /\ \A s \in Stream' : streams'[s].late => streams'[s].aborted
      /\ \A s \in Stream' : streams'[s].pc = "check" =>
                             streams'[s].event \in Matching /\ streams'[s].event <= src'
      /\ ClosedBetweenEvents' => ClosedBetweenEvents
      /\ OnceInOrder => OnceInOrder'
  BY <1>1, <1>2, StoppedFacts
<1>5. TypeOK'
  <2>1. buffer' \in Buffer /\ received' \in Seq(Message(Stream'))
    BY <1>1, <1>2, <1>4, TypeFacts
  <2>2. /\ src \in 0 .. MaxPos /\ begun \in 0 .. MaxPos /\ deploys \in 0 .. MaxDeploys
        /\ live \subseteq Stream
    BY <1>1 DEF TypeOK
  <2> QED
    BY <1>2, <1>3, <1>4, <2>1, <2>2, TypeIntro
<1>6. OneRuns'
  BY <1>2, <1>3, <1>4 DEF OneRuns
<1>7. Ordered' /\ Told'
  BY <1>1, <1>2, <1>3, <1>4 DEF Ordered, Told
<1> QED
  BY <1>5, <1>6, <1>7 DEF IInv

LEMMA detachConnectionPreserves == IInv /\ detachConnection => IInv'
<1> SUFFICES ASSUME IInv, detachConnection PROVE IInv'
  OBVIOUS
<1>1. TypeOK /\ OneRuns /\ Ordered /\ Told
  BY DEF IInv
<1> DEFINE l == streams[active].last
           d == streams[active].dropped
<1>2. /\ active # None /\ active' = None
      /\ streams' = [streams EXCEPT ![active] = Aborted(@)]
      /\ saved' = [last |-> l, dropped |-> d]
      /\ live' = live \ {active}
      /\ UNCHANGED <<src, buffer, deploys, begun, received>>
  BY DEF detachConnection
<1>3. /\ active \in Stream /\ streams[active] \in StreamObject
      /\ streams' \in Seq(StreamObject) /\ Stream' = Stream
      /\ streams' # <<>> /\ OneStreamRuns'
      /\ \A s \in Stream' : streams'[s].aborted /\ streams'[s].pc = "check"
                              => streams'[s].late
      /\ \A s \in Stream' : streams'[s].late => streams'[s].aborted
      /\ \A s \in Stream' : streams'[s].pc = "check" =>
                             streams'[s].event \in Matching /\ streams'[s].event <= src'
      /\ ClosedBetweenEvents' => ClosedBetweenEvents
      /\ OnceInOrder => OnceInOrder'
  BY <1>1, <1>2, StoppedFacts
<1>4. PICK x \in StreamObject : x = streams[active]
  BY <1>3
<1>5. /\ x.last \in Nat /\ x.last \in 0 .. MaxPos /\ x.cursor \in Nat /\ x.dropped \in Nat
      /\ l = x.last /\ d = x.dropped
  BY <1>4, ObjectFields, SizesAssumption
<1> HIDE DEF l, d
<1>6. /\ saved' = [last |-> x.last, dropped |-> x.dropped]
      /\ saved'.last = x.last /\ saved'.dropped = x.dropped
  BY <1>2, <1>5
<1>7. TypeOK'
  <2>1. buffer' \in Buffer /\ received' \in Seq(Message(Stream'))
    BY <1>1, <1>2, <1>3, TypeFacts
  <2>2. /\ src \in 0 .. MaxPos /\ begun \in 0 .. MaxPos /\ deploys \in 0 .. MaxDeploys
        /\ live \subseteq Stream
    BY <1>1 DEF TypeOK
  <2> QED
    BY <1>2, <1>3, <1>5, <1>6, <2>1, <2>2, TypeIntro
<1>8. OneRuns'
  BY <1>2, <1>3 DEF OneRuns
<1>9. ASSUME ClosedBetweenEvents
      PROVE  /\ InOrder(x.last, x.last)'
             /\ CanReplay => Complete(x.last, x.last, x.dropped)'
  <2>1. InOrder(x.last, x.cursor) /\ CanReplay => Complete(x.last, x.cursor, x.dropped)
    BY <1>1, <1>2, <1>4, <1>9 DEF Ordered, Told
  <2>2. InOrder(x.last, x.cursor)
    BY <1>1, <1>2, <1>4, <1>9 DEF Ordered
  <2>3. x.last <= x.cursor /\ x.cursor <= src /\ src \in Nat /\ x.last <= x.last
    BY <1>1, <1>5, <2>2, SizesAssumption DEF InOrder, TypeOK
  <2>4. x.last <= src
    BY <1>5, <2>3
  <2>5. InOrder(x.last, x.last)
    BY <2>2, <2>3, <2>4 DEF InOrder
  <2>6. \A q : (Got("data", q)' <=> Got("data", q)) /\ (Got("gap", q)' <=> Got("gap", q))
    BY <1>2 DEF Got
  <2>7. InOrder(x.last, x.last)'
    BY <1>1, <1>2, <1>5, <2>3, <2>5, <2>6, Quiet
  <2>8. ASSUME CanReplay PROVE Complete(x.last, x.last, x.dropped)'
    <3>1. Complete(x.last, x.cursor, x.dropped)
      BY <1>1, <1>2, <1>4, <1>9, <2>8 DEF Told
    <3>2. \A q : Waiting(q)' <=> Waiting(q)
      BY <1>2 DEF Waiting
    <3>3. /\ \A q : Known(q)' => Known(q) \/ q = x.last
          /\ \A q : Got("gap", q) \/ Waiting(q) => Got("gap", q)' \/ Waiting(q)'
      BY <2>6, <3>2 DEF Known
    <3>4. \A p \in Matching : p <= x.last \/ x.last < p
      BY <1>5, MatchingPositions, SizesAssumption
    <3>5. /\ x.last <= x.cursor + 1 /\ x.dropped <= x.dropped /\ ~(x.last > x.last)
          /\ ~(x.cursor + 1 <= x.last)
      BY <1>5, <2>3
    <3> QED
      BY <1>1, <1>5, <1>7, <2>2, <2>3, <2>6, <3>1, <3>3, <3>4, <3>5, CompletePreserved
  <2> QED
    BY <2>7, <2>8
<1>10. Ordered'
  <2>1. ClosedBetweenEvents' => InOrder(x.last, x.last)'
    BY <1>3, <1>9
  <2>2. ClosedBetweenEvents' => OnceInOrder'
    BY <1>1, <1>3 DEF Ordered
  <2>3. active' = None
    BY <1>2
  <2> QED
    BY <1>6, <2>1, <2>2, <2>3 DEF Ordered
<1>11. Told'
  BY <1>2, <1>3, <1>6, <1>9 DEF Told
<1> QED
  BY <1>7, <1>8, <1>10, <1>11 DEF IInv

LEMMA notifySchemaChangePreserves == IInv /\ notifySchemaChange => IInv'
<1> SUFFICES ASSUME IInv, notifySchemaChange PROVE IInv'
  OBVIOUS
<1>1. TypeOK /\ OneRuns /\ Ordered /\ Told
  BY DEF IInv
<1> DEFINE b == Buffered(buffer, streams[active].dropped,
                         Item("schema_change", streams[active].last))
<1>2. /\ deploys < MaxDeploys /\ deploys' = deploys + 1 /\ active # None
      /\ buffer' = b.buffer /\ streams' = [streams EXCEPT ![active].dropped = b.dropped]
      /\ UNCHANGED <<src, active, saved, live, begun, received>>
  BY DEF notifySchemaChange
<1>3. /\ active \in Stream /\ buffer \in Buffer /\ received \in Seq(Message(Stream))
      /\ streams \in Seq(StreamObject) /\ streams[active] \in StreamObject
  BY <1>1, <1>2, TypeFacts DEF TypeOK
<1>4. PICK o \in StreamObject : o = streams[active]
  BY <1>3
<1>5. /\ o.last \in Nat /\ o.last \in 0 .. MaxPos /\ o.cursor \in Nat
      /\ o.cursor \in 0 .. MaxPos /\ o.dropped \in Nat
  BY ObjectFields, SizesAssumption
<1>6. "schema_change" \in Kinds /\ "schema_change" \in {"gap", "schema_change"}
  BY DEF Kinds
<1>7. buffer' \in Buffer /\ b.dropped \in Nat /\ o.dropped <= b.dropped
  BY <1>2, <1>3, <1>4, <1>5, <1>6, BufferedFacts
<1>8. buffer' = Buffered(buffer, o.dropped, Item("schema_change", o.last)).buffer
  BY <1>2, <1>4
<1> HIDE DEF b
<1> DEFINE r0 == [o EXCEPT !.dropped = b.dropped]
<1>9. /\ r0 \in StreamObject /\ r0.dropped = b.dropped /\ r0.pc = o.pc
      /\ r0.aborted = o.aborted /\ r0.late = o.late /\ r0.last = o.last
      /\ r0.cursor = o.cursor /\ r0.event = o.event
  BY <1>7 DEF StreamObject
<1>10. streams' = [streams EXCEPT ![active] = r0]
  BY <1>2, <1>4
<1> HIDE DEF r0
<1>11. PICK r \in StreamObject : r = r0
  BY <1>9
<1>12. /\ r.dropped \in Nat /\ o.dropped <= r.dropped /\ r.pc = o.pc
       /\ r.aborted = o.aborted /\ r.late = o.late /\ r.last = o.last
       /\ r.cursor = o.cursor /\ r.event = o.event
       /\ streams' = [streams EXCEPT ![active] = r]
  BY <1>7, <1>9, <1>10, <1>11
<1>13. streams' \in Seq(StreamObject) /\ Stream' = Stream /\ streams'[active] = r
  BY <1>1, <1>3, <1>12, StreamReplaced
<1>14. TypeOK'
  <2>1. /\ src \in 0 .. MaxPos /\ begun \in 0 .. MaxPos /\ deploys \in 0 .. MaxDeploys
        /\ live \subseteq Stream /\ saved \in [last : 0 .. MaxPos, dropped : Nat] \cup {None}
    BY <1>1 DEF TypeOK
  <2>2. deploys' \in 0 .. MaxDeploys
    BY <1>2, <2>1, SizesAssumption
  <2> QED
    BY <1>2, <1>3, <1>7, <1>13, <2>1, <2>2, TypeIntro
<1>15. r.pc = "check" => /\ streams[active].pc = "check" \/ ~streams[active].aborted
                         /\ r.event \in Matching /\ r.event <= src
  BY <1>1, <1>3, <1>4, <1>12 DEF OneRuns
<1>16. OneRuns' /\ (ClosedBetweenEvents' <=> ClosedBetweenEvents)
  BY <1>1, <1>2, <1>3, <1>4, <1>12, <1>15, OneRunsKept
<1>17. saved = None
  BY <1>1, <1>2 DEF OneRuns
<1>18. ASSUME ClosedBetweenEvents
       PROVE  /\ OnceInOrder' /\ Checking(r)' /\ InOrder(r.last, r.cursor)'
              /\ CanReplay => Complete(r.last, r.cursor, r.dropped)'
  <2>1. OnceInOrder /\ Checking(o) /\ InOrder(o.last, o.cursor)
    BY <1>1, <1>2, <1>4, <1>18 DEF Ordered
  <2>2. OnceInOrder'
    BY <1>2, <1>16, <1>18, <2>1 DEF OnceInOrder
  <2>3. Checking(r)'
    BY <1>2, <1>12, <2>1 DEF Checking
  <2>4. o.last <= o.cursor /\ o.cursor <= src'
    BY <1>2, <2>1 DEF InOrder
  <2>5. o.last <= o.last
    BY <1>5
  <2>6. /\ InOrder(o.last, o.cursor)'
        /\ \A q : Known(q)' => Known(q) \/ q = o.last
        /\ \A q : (Got("data", q)' <=> Got("data", q)) /\ (Got("gap", q)' <=> Got("gap", q))
        /\ Waiting(o.last)' \/ \A q : Waiting(q) => Waiting(q)'
    BY <1>1, <1>2, <1>5, <1>6, <1>8, <2>1, <2>4, <2>5, BufferGrows
  <2>7. ASSUME CanReplay PROVE Complete(o.last, o.cursor, r.dropped)'
    <3>1. Complete(o.last, o.cursor, o.dropped)
      BY <1>1, <1>2, <1>4, <1>18, <2>7 DEF Told
    <3>2. o.last > 0 => \A p \in Matching : p <= o.last \/ o.cursor < p
      BY <3>1 DEF Complete
    <3>3. /\ o.cursor <= o.cursor + 1 /\ ~(o.last > o.last) /\ ~(o.cursor + 1 <= o.cursor)
      BY <1>5
    <3>4. \/ Got("gap", o.last)' \/ Waiting(o.last)'
          \/ \A q : Got("gap", q) \/ Waiting(q) => Got("gap", q)' \/ Waiting(q)'
      BY <2>6
    <3> QED
      BY <1>1, <1>5, <1>12, <1>14, <2>1, <2>4, <2>5, <2>6, <3>1, <3>2, <3>3, <3>4,
         CompletePreserved
  <2> QED
    BY <1>12, <2>2, <2>3, <2>6, <2>7
<1>19. streams'[active'] = r /\ saved' = None
  BY <1>2, <1>13, <1>17
<1>20. Ordered'
  BY <1>16, <1>18, <1>19 DEF Ordered
<1>21. Told'
  BY <1>16, <1>18, <1>19 DEF Told
<1> QED
  BY <1>14, <1>16, <1>20, <1>21 DEF IInv

-----------------------------------------------------------------------------
\* Every step of the subscription keeps the invariant.
LEMMA NextPreserves == IInv /\ [Next]_vars => IInv'
<1> SUFFICES ASSUME IInv, [Next]_vars PROVE IInv'
  OBVIOUS
<1>1. CASE Emit
  BY <1>1, EmitPreserves
<1>2. CASE subscribe
  BY <1>2, subscribePreserves
<1>3. CASE resume
  BY <1>3, resumePreserves
<1>4. CASE Expire
  BY <1>4, ExpirePreserves
<1>5. CASE detachConnection
  BY <1>5, detachConnectionPreserves
<1>6. CASE cancelAllForConnection
  BY <1>6, cancelAllForConnectionPreserves
<1>7. CASE notifySchemaChange
  BY <1>7, notifySchemaChangePreserves
<1>8. ASSUME NEW s \in Stream, Arrive(s) \/ Checked(s) \/ StreamFails(s) PROVE IInv'
  BY <1>8, ArrivePreserves, CheckedPreserves, StreamFailsPreserves
<1>9. CASE UNCHANGED vars
  <2>1. UNCHANGED <<src, streams, active, saved, buffer, live, deploys, begun, received>>
    BY <1>9 DEF vars
  <2>2. TypeOK
    BY DEF IInv
  <2>3. TypeOK'
    BY <2>1, <2>2 DEF TypeOK, Stream
  <2>4. src <= src'
    BY <2>1, <2>2, SizesAssumption DEF TypeOK
  <2> QED
    BY <2>1, <2>3, <2>4, Untouched
<1> QED
  BY <1>1, <1>2, <1>3, <1>4, <1>5, <1>6, <1>7, <1>8, <1>9 DEF Next

\* The invariant holds in every reachable state.
LEMMA Invariance == Spec => []IInv
<1> QED
  BY InitEstablishes, NextPreserves, PTL DEF Spec

\* Subscription objects, the resume state, the buffer and what the client
\* received keep their types, and no disconnect, resume or force-close leaves a
\* second generator running for the client, however often it comes back.
THEOREM StreamsAlwaysWellFormed == Spec => []StreamsWellFormed
<1>1. IInv => StreamsWellFormed
  BY DEF IInv, OneRuns, StreamsWellFormed
<1> QED
  BY <1>1, Invariance, PTL

LEMMA HeardIsKnown ==
  ASSUME NEW p, \E q \in Heard : q < p PROVE KnownBefore(p)
BY DEF Heard, KnownBefore, Known

LEMMA AccountedFollows == IInv => (CanReplay => EventsAccounted)
<1> SUFFICES ASSUME IInv, CanReplay PROVE EventsAccounted
  OBVIOUS
<1>1. TypeOK /\ Ordered /\ Told
  BY DEF IInv
<1>2. OnceInOrder
  <2>1. CASE ClosedBetweenEvents
    BY <1>1, <2>1 DEF Ordered
  <2>2. CASE ~ClosedBetweenEvents
    BY <2>2 DEF OnceInOrder
  <2> QED
    BY <2>1, <2>2
<1>3. ASSUME active # None, ClosedBetweenEvents
      PROVE  Complete(streams[active].last, streams[active].cursor, streams[active].dropped)
  BY <1>1, <1>3 DEF Told
<1>4. NoSilentLoss
  <2> SUFFICES ASSUME active # None, ClosedBetweenEvents, NEW p \in Matching,
                      \E q \in Heard : q < p, p <= streams[active].cursor
               PROVE  Accounted(p)
    BY DEF NoSilentLoss
  <2>1. KnownBefore(p)
    BY HeardIsKnown
  <2> QED
    BY <1>3, <2>1 DEF Complete
<1>5. DropsCounted
  <2> SUFFICES ASSUME active # None, ClosedBetweenEvents
               PROVE  Cardinality({p \in Matching : /\ p <= streams[active].cursor
                                                    /\ ~Got("data", p)
                                                    /\ \E q \in Heard : q < p})
                        <= streams[active].dropped
    BY DEF DropsCounted
  <2> DEFINE c == streams[active].cursor
             d == streams[active].dropped
             U == Undelivered(c)
             V == {p \in Matching : p <= c /\ ~Got("data", p) /\ \E q \in Heard : q < p}
  <2>1. V \subseteq U
    BY HeardIsKnown DEF Undelivered
  <2>2. IsFiniteSet(U) /\ Cardinality(U) \in Nat
    BY UndeliveredFinite
  <2>3. Cardinality(U) <= d
    BY <1>3 DEF Complete
  <2>4. d \in Nat
    <3>1. active \in Stream
      BY <1>1 DEF TypeOK
    <3>2. streams[active] \in StreamObject
      BY <1>1, <3>1, TypeFacts
    <3> QED
      BY <3>2, ObjectFields
  <2> HIDE DEF c, d, U, V
  <2>5. IsFiniteSet(V) /\ Cardinality(V) <= Cardinality(U)
    BY <2>1, <2>2, FS_Subset
  <2>6. Cardinality(V) \in Nat
    BY <2>5, FS_CardinalityType
  <2>7. Cardinality(V) <= d
    BY <2>2, <2>3, <2>4, <2>5, <2>6
  <2> QED
    BY <2>7 DEF V, c, d
<1> QED
  BY <1>2, <1>4, <1>5 DEF EventsAccounted

\* From a source that can replay, across any number of disconnects and resumes
\* none of which catches an event in its permission check: nothing is lost
\* silently, delivered twice or out of order, and the drops are counted.
THEOREM EventsAlwaysAccounted == Spec => [](CanReplay => EventsAccounted)
<1> QED
  BY AccountedFollows, Invariance, PTL

-----------------------------------------------------------------------------
\* What one step adds to what the client received.
Added == DOMAIN received' \ DOMAIN received

LEMMA AddedFacts ==
  ASSUME NEW S, received \in Seq(Message(S)), NEW s \in S, NEW items \in Buffer,
         received' = received \o Sent(s, items)
  PROVE  \A i \in Added : /\ received'[i].stream = s
                          /\ \E j \in DOMAIN items : received'[i].kind = items[j].kind
<1> DEFINE n == Len(received)
           m == Len(items)
<1>1. /\ n \in Nat /\ m \in Nat /\ Len(received') = n + m
      /\ \A i \in 1 .. m : received'[n + i]
                             = [stream |-> s, kind |-> items[i].kind, pos |-> items[i].pos]
      /\ received' \in Seq(Message(S))
  BY ReceivedFacts
<1>2. DOMAIN received' = 1 .. n + m /\ DOMAIN received = 1 .. n /\ DOMAIN items = 1 .. m
  BY <1>1, SequenceFacts DEF Buffer
<1> HIDE DEF n, m
<1>3. \A i \in Added : i - n \in 1 .. m /\ i = n + (i - n)
  BY <1>1, <1>2 DEF Added
<1> SUFFICES ASSUME NEW i \in Added
             PROVE  /\ received'[i].stream = s
                    /\ \E j \in DOMAIN items : received'[i].kind = items[j].kind
  OBVIOUS
<1>4. PICK j \in 1 .. m : i = n + j
  BY <1>3
<1>5. received'[i] = [stream |-> s, kind |-> items[j].kind, pos |-> items[j].pos]
  BY <1>1, <1>4
<1> QED
  BY <1>2, <1>5

LEMMA ProcessAdds ==
  ASSUME TypeOK, NEW s \in Stream, NEW p \in 1 .. MaxPos, Process(s, p)
  PROVE  \A i \in Added : received'[i].stream = s
<1>1. CASE s \in live
  <2>1. Limited(s, p) \/ WrittenOut(s, p)
    BY <1>1, ProcessEffect
  <2>2. CASE Limited(s, p)
    BY <2>2 DEF Limited, Added
  <2>3. CASE WrittenOut(s, p)
    <3>1. PICK b : Grown(b, buffer, "data", p) /\ received' = received \o Sent(s, b)
      BY <2>3 DEF WrittenOut
    <3>2. PICK items \in Buffer : items = b
      BY <3>1 DEF Grown
    <3>3. received' = received \o Sent(s, items) /\ received \in Seq(Message(Stream))
      BY <3>1, <3>2, TypeFacts
    <3> QED
      BY <3>3, AddedFacts
  <2> QED
    BY <2>1, <2>2, <2>3
<1>2. CASE s \notin live
  <2>1. received' = received
    BY <1>2 DEF Process, Flush
  <2> QED
    BY <2>1 DEF Added
<1> QED
  BY <1>1, <1>2

\* What a step may say on the stream of a cancelled subscription.
CancelledKeepsQuiet ==
  \A i \in Added : \A s \in Stream :
    received'[i].stream = s /\ streams[s].aborted
      => received'[i].kind = "error" \/ streams[s].pc = "check"

LEMMA StepKeepsQuiet == IInv /\ [Next]_vars => CancelledKeepsQuiet
<1> SUFFICES ASSUME IInv, [Next]_vars PROVE CancelledKeepsQuiet
  OBVIOUS
<1>1. TypeOK /\ OneRuns
  BY DEF IInv
<1>2. ASSUME received' = received PROVE CancelledKeepsQuiet
  BY <1>2 DEF CancelledKeepsQuiet, Added
<1>3. ASSUME NEW t \in Stream, \A i \in Added : received'[i].stream = t,
             ~streams[t].aborted \/ streams[t].pc = "check"
      PROVE  CancelledKeepsQuiet
  BY <1>3 DEF CancelledKeepsQuiet
<1>4. CASE resume
  <2> DEFINE n == Len(streams) + 1
  <2>1. /\ received \in Seq(Message(Stream)) /\ buffer \in Buffer
        /\ Len(streams) \in Nat /\ received' = received \o Sent(n, buffer)
    BY <1>1, <1>4, TypeFacts DEF resume
  <2>2. n \notin Stream
    BY <2>1 DEF Stream
  <2> HIDE DEF n
  <2>3. PICK S : S = Stream \cup {n}
    OBVIOUS
  <2>4. received \in Seq(Message(S)) /\ n \in S
    <3>1. Message(Stream) \subseteq Message(S)
      BY <2>3 DEF Message
    <3> QED
      BY <2>1, <2>3, <3>1, SequenceFacts
  <2>5. \A i \in Added : received'[i].stream = n
    BY <2>1, <2>4, AddedFacts
  <2> QED
    BY <2>2, <2>5 DEF CancelledKeepsQuiet
<1>5. ASSUME NEW t \in Stream, Arrive(t) PROVE CancelledKeepsQuiet
  <2>1. CASE received' = received
    BY <1>2, <2>1
  <2>2. CASE received' # received
    <3>1. /\ ~streams[t].aborted /\ streams[t].cursor + 1 \in Matching
          /\ Process(t, streams[t].cursor + 1)
      BY <1>5, <2>2 DEF Arrive
    <3>2. PICK p \in 1 .. MaxPos : Process(t, p)
      BY <3>1, MatchingPositions
    <3>3. \A i \in Added : received'[i].stream = t
      BY <1>1, <3>2, ProcessAdds
    <3> QED
      BY <1>3, <3>1, <3>3
  <2> QED
    BY <2>1, <2>2
<1>6. ASSUME NEW t \in Stream, Checked(t) PROVE CancelledKeepsQuiet
  <2>1. streams[t].pc = "check" /\ Process(t, streams[t].event)
    BY <1>6 DEF Checked
  <2>2. streams[t].event \in Matching
    BY <1>1, <2>1 DEF OneRuns
  <2>3. PICK p \in 1 .. MaxPos : Process(t, p)
    BY <2>1, <2>2, MatchingPositions
  <2>4. \A i \in Added : received'[i].stream = t
    BY <1>1, <2>3, ProcessAdds
  <2> QED
    BY <1>3, <2>1, <2>4
<1>7. ASSUME NEW t \in Stream, StreamFails(t) PROVE CancelledKeepsQuiet
  <2>1. CASE t \notin live
    BY <1>2, <1>7, <2>1 DEF StreamFails
  <2>2. CASE t \in live
    <3> DEFINE e == Item("error", streams[t].last)
               items == <<e>>
    <3>1. received' = received \o Sent(t, items) /\ received \in Seq(Message(Stream))
      BY <1>1, <1>7, <2>2, TypeFacts DEF StreamFails
    <3>2. e \in [kind : Kinds, pos : 0 .. MaxPos] /\ e.kind = "error"
      <4>1. streams[t].last \in 0 .. MaxPos
        BY <1>1, TypeFacts, ObjectFields
      <4>2. "error" \in Kinds
        BY DEF Kinds
      <4> QED
        BY <4>1, <4>2, ItemTypes
    <3> HIDE DEF e
    <3>3. items \in Buffer /\ DOMAIN items = {1} /\ items[1] = e
      BY <3>2 DEF Buffer
    <3> HIDE DEF items
    <3>4. \A i \in Added : \E j \in DOMAIN items : received'[i].kind = items[j].kind
      BY <3>1, <3>3, AddedFacts
    <3>5. \A i \in Added : received'[i].kind = "error"
      BY <3>2, <3>3, <3>4
    <3> QED
      BY <3>5 DEF CancelledKeepsQuiet
  <2> QED
    BY <2>1, <2>2
<1>8. ASSUME Emit \/ subscribe \/ Expire \/ detachConnection \/ cancelAllForConnection
               \/ notifySchemaChange \/ UNCHANGED vars
      PROVE  received' = received
  BY <1>8 DEF Emit, subscribe, Expire, detachConnection, cancelAllForConnection,
              notifySchemaChange, vars
<1> QED
  BY <1>2, <1>4, <1>5, <1>6, <1>7, <1>8 DEF Next

\* Once a subscription is cancelled, by its client's disconnect or by force, its
\* stream delivers nothing more but the event in its check and the news that it
\* failed, whatever the buffer holds and however the generators interleave.
THEOREM CancelAlwaysStops == Spec => CancelStopsDelivery
<1> DEFINE A == \A i \in DOMAIN received' \ DOMAIN received :
                  \A s \in Stream :
                    received'[i].stream = s /\ streams[s].aborted
                      => received'[i].kind = "error" \/ streams[s].pc = "check"
<1>1. IInv /\ [Next]_vars => [A]_vars
  BY StepKeepsQuiet DEF CancelledKeepsQuiet, Added
<1>2. Spec => [][A]_vars
  <2> HIDE DEF A
  <2> QED
    BY <1>1, Invariance, PTL DEF Spec
<1> QED
  BY <1>2 DEF CancelStopsDelivery

=============================================================================
