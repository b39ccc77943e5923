---------------------------- MODULE Realtime_proofs ----------------------------
(***************************************************************************)
(* Proofs about the three parts of the realtime path that a change event   *)
(* crosses after its feed: the registry of connections (Connections), the  *)
(* fan-out of a source (Fanout) and the loop that writes the streams of a  *)
(* connection (SseMerge).                                                  *)
(*                                                                         *)
(* Connections, for any requests, workspaces, principals and limits: every *)
(* way a connection closes is an instance of Close, so one lemma on Close  *)
(* serves the five actions that call it.                                   *)
(***************************************************************************)
EXTENDS Connections, Fanout, SseMerge,
        SequenceTheorems, FiniteSetTheorems, WellFoundedInduction, TLAPS

Resumable(c) == \E k \in Subs : <<c, k>> \in resumeState

\* A request registers once: what was closed by the server or kept for resume is
\* not registered and does not register again.
RegisteredOnce ==
  /\ forced \cap connections = {}
  /\ \A c \in Clients : Resumable(c) => c \notin connections
  /\ \A c \in Clients : handler[c] = "new" =>
                          c \notin connections \cup forced /\ ~Resumable(c)

\* Until it subscribes, only the server closes the connection of a request.
OpenOrForced == \A c \in Clients : handler[c] = "opening" => c \in connections \cup forced

ConnInv ==
  /\ PlacesCounted /\ ClosedForGood
  /\ IsFiniteSet(connections)
  /\ RegisteredOnce /\ OpenOrForced

-----------------------------------------------------------------------------
LEMMA InitEstablishes == Init => ConnInv
<1> SUFFICES ASSUME Init PROVE ConnInv
  OBVIOUS
<1>1. TypeOK
  BY DEF Init, TypeOK
<1>2. IndexesAgree
  BY RequestsAssumption DEF Init, IndexesAgree
<1>3. LimitsHold
  <2>1. \A S : {c \in connections : c \in S} = {}
    BY DEF Init
  <2>2. /\ \A w \in Workspaces : {c \in connections : Workspace[c] = w} = {}
        /\ \A p \in Principals : {c \in connections : Principal[c] = p} = {}
    BY DEF Init
  <2> QED
    BY <2>2, FS_EmptySet, LimitsAssumption DEF LimitsHold
<1>4. ClosedForGood /\ RegisteredOnce /\ OpenOrForced
  BY DEF Init, ClosedForGood, OrphansWereForced, ForcedLeavesNothing, RegisteredOnce,
         OpenOrForced, Resumable
<1>5. IsFiniteSet(connections)
  BY FS_EmptySet DEF Init
<1> QED
  BY <1>1, <1>2, <1>3, <1>4, <1>5 DEF ConnInv, PlacesCounted

\* Fewer connections stay within the limits.
LEMMA FewerConnections ==
  ASSUME IsFiniteSet(connections), LimitsHold, connections' \subseteq connections
  PROVE  LimitsHold' /\ IsFiniteSet(connections')
<1>1. \A S, T : IsFiniteSet(S) /\ T \subseteq S =>
        IsFiniteSet(T) /\ Cardinality(T) \in Nat /\ Cardinality(T) <= Cardinality(S)
  BY FS_Subset, FS_CardinalityType
<1>2. ASSUME NEW w \in Workspaces
      PROVE  Cardinality({c \in connections' : Workspace[c] = w})
               <= MAX_CONNECTIONS_PER_WORKSPACE
  <2> DEFINE S == {c \in connections : Workspace[c] = w}
             T == {c \in connections' : Workspace[c] = w}
  <2>1. S \subseteq connections /\ T \subseteq S
    OBVIOUS
  <2>2. /\ Cardinality(S) \in Nat /\ Cardinality(T) \in Nat
        /\ Cardinality(T) <= Cardinality(S)
    BY <1>1, <2>1
  <2>3. Cardinality(S) <= MAX_CONNECTIONS_PER_WORKSPACE
    BY DEF LimitsHold
  <2> HIDE DEF S, T
  <2>4. Cardinality(T) <= MAX_CONNECTIONS_PER_WORKSPACE
    BY <2>2, <2>3, LimitsAssumption
  <2> QED
    BY <2>4 DEF T
<1>3. ASSUME NEW p \in Principals
      PROVE  Cardinality({c \in connections' : Principal[c] = p})
               <= MAX_CONNECTIONS_PER_PRINCIPAL
  <2> DEFINE S == {c \in connections : Principal[c] = p}
             T == {c \in connections' : Principal[c] = p}
  <2>1. S \subseteq connections /\ T \subseteq S
    OBVIOUS
  <2>2. /\ Cardinality(S) \in Nat /\ Cardinality(T) \in Nat
        /\ Cardinality(T) <= Cardinality(S)
    BY <1>1, <2>1
  <2>3. Cardinality(S) <= MAX_CONNECTIONS_PER_PRINCIPAL
    BY DEF LimitsHold
  <2> HIDE DEF S, T
  <2>4. Cardinality(T) <= MAX_CONNECTIONS_PER_PRINCIPAL
    BY <2>2, <2>3, LimitsAssumption
  <2> QED
    BY <2>4 DEF T
<1> QED
  BY <1>1, <1>2, <1>3 DEF LimitsHold

\* A close, forced or not, by a handler that ends or stays where it is.
LEMMA ClosePreserves ==
  ASSUME ConnInv, NEW ids, NEW force \in BOOLEAN, Close(ids, force),
         handler' \in [Clients -> {"new", "opening", "streaming", "ended"}],
         \A c \in Clients : handler'[c] = handler[c] \/ handler'[c] = "ended",
         force \/ \A c \in Clients : c \in ids => handler'[c] # "opening",
         disconnected' \subseteq gone', gone' \subseteq Clients, generators' = generators
  PROVE  ConnInv'
<1> DEFINE closing == ids \cap connections
<1> USE DEF ConnInv
<1>1. /\ connections' = connections \ closing /\ stale' = stale \ closing
      /\ byWorkspace' = [w \in Workspaces |-> byWorkspace[w] \ closing]
      /\ byPrincipal' = [p \in Principals |-> byPrincipal[p] \ closing]
      /\ subscriptions' = [c \in Clients |-> IF c \in closing THEN {} ELSE subscriptions[c]]
      /\ resumeState' = IF force THEN resumeState
                        ELSE resumeState \cup UNION {{c} \X subscriptions[c] : c \in closing}
      /\ forced' = IF force THEN forced \cup closing ELSE forced
  BY DEF Close
<1>2. closing \subseteq connections /\ closing \subseteq Clients
      /\ \A c \in Clients : subscriptions[c] \subseteq Subs
  BY DEF PlacesCounted, TypeOK
<1> HIDE DEF closing
<1>3. resumeState' \subseteq Clients \X Subs
  BY <1>1, <1>2 DEF PlacesCounted, TypeOK
<1>4. \A c \in Clients : Resumable(c)' => Resumable(c) \/ (~force /\ c \in closing)
  BY <1>1, <1>2 DEF Resumable
<1>5. TypeOK'
  BY <1>1, <1>2, <1>3 DEF PlacesCounted, TypeOK
<1>6. IndexesAgree'
  BY <1>1, <1>2 DEF PlacesCounted, IndexesAgree
<1>7. LimitsHold' /\ IsFiniteSet(connections')
  BY <1>1, FewerConnections DEF PlacesCounted
<1>8. OrphansWereForced'
  BY <1>1, <1>2 DEF ClosedForGood, OrphansWereForced
<1>9. RegisteredOnce'
  BY <1>1, <1>2, <1>4 DEF RegisteredOnce
<1>10. ForcedLeavesNothing'
  <2>1. \A c \in Clients : c \in forced => ~Resumable(c)
    BY DEF ClosedForGood, ForcedLeavesNothing, Resumable
  <2>2. \A c \in Clients : c \in forced' => ~Resumable(c)'
    BY <1>1, <1>2, <1>4, <2>1 DEF RegisteredOnce
  <2>3. forced' \subseteq Clients
    BY <1>5 DEF TypeOK
  <2> QED
    BY <2>2, <2>3 DEF ForcedLeavesNothing, Resumable
<1>11. OpenOrForced'
  BY <1>1, <1>2 DEF OpenOrForced, closing
<1> QED
  BY <1>5, <1>6, <1>7, <1>8, <1>9, <1>10, <1>11 DEF PlacesCounted, ClosedForGood

-----------------------------------------------------------------------------
\* One more connection where Room found a place.
LEMMA RegisterPreserves ==
  ASSUME ConnInv, NEW c \in Clients, register(c) PROVE ConnInv'
<1> USE DEF ConnInv
<1>1. CASE /\ Room(c)
           /\ handler' = [handler EXCEPT ![c] = "opening"]
           /\ connections' = connections \cup {c}
           /\ byWorkspace' = [byWorkspace EXCEPT ![Workspace[c]] = @ \cup {c}]
           /\ byPrincipal' = [byPrincipal EXCEPT ![Principal[c]] = @ \cup {c}]
  <2>1. /\ handler[c] = "new" /\ c \notin connections \cup forced /\ ~Resumable(c)
        /\ UNCHANGED <<stale, subscriptions, resumeState, generators, disconnected, gone, forced>>
    BY DEF register, RegisteredOnce
  <2>2. Workspace[c] \in Workspaces /\ Principal[c] \in Principals
    BY RequestsAssumption
  <2>3. TypeOK'
    BY <1>1, <2>1, <2>2 DEF PlacesCounted, TypeOK
  <2>4. IndexesAgree'
    BY <1>1, <2>1, <2>2 DEF PlacesCounted, IndexesAgree, TypeOK
  <2>5. IsFiniteSet(connections')
    BY <1>1, FS_AddElement
  <2>6. \A S : S \subseteq connections =>
          /\ IsFiniteSet(S) /\ Cardinality(S) \in Nat
          /\ Cardinality(S \cup {c}) = Cardinality(S) + 1
    BY <2>1, FS_Subset, FS_AddElement, FS_CardinalityType
  <2>7. ASSUME NEW w \in Workspaces
        PROVE  Cardinality({d \in connections' : Workspace[d] = w})
                 <= MAX_CONNECTIONS_PER_WORKSPACE
    <3> DEFINE S == {d \in connections : Workspace[d] = w}
    <3>1. S \subseteq connections /\ S = byWorkspace[w]
      BY DEF PlacesCounted, IndexesAgree
    <3>2. CASE w = Workspace[c]
      <4>1. {d \in connections' : Workspace[d] = w} = S \cup {c}
        BY <1>1, <3>2
      <4>2. Cardinality(S) < MAX_CONNECTIONS_PER_WORKSPACE
        BY <1>1, <3>1, <3>2 DEF Room
      <4> HIDE DEF S
      <4>3. Cardinality(S \cup {c}) <= MAX_CONNECTIONS_PER_WORKSPACE
        BY <2>6, <3>1, <4>2, LimitsAssumption
      <4> QED
        BY <4>1, <4>3
    <3>3. CASE w # Workspace[c]
      <4>1. {d \in connections' : Workspace[d] = w} = S
        BY <1>1, <3>3
      <4> QED
        BY <4>1 DEF PlacesCounted, LimitsHold
    <3> QED
      BY <3>2, <3>3
  <2>8. ASSUME NEW p \in Principals
        PROVE  Cardinality({d \in connections' : Principal[d] = p})
                 <= MAX_CONNECTIONS_PER_PRINCIPAL
    <3> DEFINE S == {d \in connections : Principal[d] = p}
    <3>1. S \subseteq connections /\ S = byPrincipal[p]
      BY DEF PlacesCounted, IndexesAgree
    <3>2. CASE p = Principal[c]
      <4>1. {d \in connections' : Principal[d] = p} = S \cup {c}
        BY <1>1, <3>2
      <4>2. Cardinality(S) < MAX_CONNECTIONS_PER_PRINCIPAL
        BY <1>1, <3>1, <3>2 DEF Room
      <4> HIDE DEF S
      <4>3. Cardinality(S \cup {c}) <= MAX_CONNECTIONS_PER_PRINCIPAL
        BY <2>6, <3>1, <4>2, LimitsAssumption
      <4> QED
        BY <4>1, <4>3
    <3>3. CASE p # Principal[c]
      <4>1. {d \in connections' : Principal[d] = p} = S
        BY <1>1, <3>3
      <4> QED
        BY <4>1 DEF PlacesCounted, LimitsHold
    <3> QED
      BY <3>2, <3>3
  <2>9. ClosedForGood'
    BY <1>1, <2>1 DEF ClosedForGood, OrphansWereForced, ForcedLeavesNothing
  <2>10. RegisteredOnce' /\ OpenOrForced'
    BY <1>1, <2>1 DEF RegisteredOnce, OpenOrForced, Resumable, PlacesCounted, TypeOK
  <2> QED
    BY <2>3, <2>4, <2>5, <2>7, <2>8, <2>9, <2>10 DEF PlacesCounted, LimitsHold
<1>2. CASE /\ ~Room(c)
           /\ handler' = [handler EXCEPT ![c] = "ended"]
           /\ UNCHANGED <<connections, byWorkspace, byPrincipal>>
  <2>1. UNCHANGED <<stale, subscriptions, resumeState, generators, disconnected, gone, forced>>
    BY DEF register
  <2>2. TypeOK'
    BY <1>2, <2>1 DEF PlacesCounted, TypeOK
  <2>3. IndexesAgree' /\ LimitsHold' /\ ClosedForGood'
    BY <1>2, <2>1 DEF PlacesCounted, IndexesAgree, LimitsHold, ClosedForGood,
                      OrphansWereForced, ForcedLeavesNothing
  <2>4. RegisteredOnce' /\ OpenOrForced'
    BY <1>2, <2>1 DEF RegisteredOnce, OpenOrForced, Resumable, PlacesCounted, TypeOK
  <2> QED
    BY <1>2, <2>2, <2>3, <2>4 DEF PlacesCounted
<1> QED
  BY <1>1, <1>2 DEF register

\* The steps that touch no registration: only types and the subscriptions that a
\* handler makes are at stake.
LEMMA RegistryUntouched ==
  ASSUME ConnInv, TypeOK',
         UNCHANGED <<connections, byWorkspace, byPrincipal, resumeState, forced>>,
         \A c \in Clients : handler'[c] \in {handler[c], "streaming", "ended"},
         \A c \in Clients : subscriptions'[c] = subscriptions[c] \/ handler[c] = "opening"
  PROVE  ConnInv'
<1> USE DEF ConnInv
<1>1. IndexesAgree' /\ LimitsHold' /\ IsFiniteSet(connections')
  BY DEF PlacesCounted, IndexesAgree, LimitsHold
<1>2. OrphansWereForced'
  BY DEF ClosedForGood, OrphansWereForced, OpenOrForced
<1>3. ForcedLeavesNothing'
  BY DEF ClosedForGood, ForcedLeavesNothing
<1>4. RegisteredOnce' /\ OpenOrForced'
  BY DEF RegisteredOnce, OpenOrForced, Resumable
<1> QED
  BY <1>1, <1>2, <1>3, <1>4 DEF PlacesCounted, ClosedForGood

LEMMA NextPreserves == ConnInv /\ [Next]_vars => ConnInv'
<1> SUFFICES ASSUME ConnInv, [Next]_vars PROVE ConnInv'
  OBVIOUS
<1>0. TypeOK
  BY DEF ConnInv, PlacesCounted
<1>1. ASSUME NEW c \in Clients, register(c) PROVE ConnInv'
  BY <1>1, RegisterPreserves
<1>2. ASSUME NEW c \in Clients, open(c) PROVE ConnInv'
  <2>1. PICK S \in SUBSET Declared[c] :
          /\ subscriptions' = [subscriptions EXCEPT ![c] = S]
          /\ generators' = [generators EXCEPT ![c] = S]
    BY <1>2 DEF open
  <2>2. S \subseteq Subs
    BY DEF Subs
  <2>3. /\ handler[c] = "opening"
        /\ handler' = [handler EXCEPT ![c] = "streaming"]
        /\ UNCHANGED <<connections, byWorkspace, byPrincipal, stale, resumeState,
                       disconnected, gone, forced>>
    BY <1>2 DEF open
  <2>4. TypeOK'
    BY <1>0, <2>1, <2>2, <2>3 DEF TypeOK
  <2>5. /\ \A d \in Clients : handler'[d] \in {handler[d], "streaming", "ended"}
        /\ \A d \in Clients : subscriptions'[d] = subscriptions[d] \/ handler[d] = "opening"
    BY <1>0, <2>1, <2>3 DEF TypeOK
  <2> QED
    BY <2>3, <2>4, <2>5, RegistryUntouched
<1>3. ASSUME NEW c \in Clients, openFails(c) PROVE ConnInv'
  BY <1>0, <1>3, ClosePreserves DEF openFails, TypeOK
<1>4. ASSUME NEW c \in Clients, clientLeaves(c) PROVE ConnInv'
  BY <1>0, <1>4, RegistryUntouched DEF clientLeaves, TypeOK
<1>5. ASSUME NEW c \in Clients, onClose(c) PROVE ConnInv'
  BY <1>0, <1>5, ClosePreserves DEF onClose, TypeOK
<1>6. ASSUME NEW c \in Clients, goesStale(c) PROVE ConnInv'
  BY <1>0, <1>6, RegistryUntouched DEF goesStale, TypeOK
<1>7. ASSUME NEW c \in Clients, NEW k \in Subs, streamEnds(c, k) PROVE ConnInv'
  BY <1>0, <1>7, RegistryUntouched DEF streamEnds, TypeOK
<1>8. ASSUME NEW p \in Principals, sessionRevoked(p) PROVE ConnInv'
  BY <1>0, <1>8, ClosePreserves DEF sessionRevoked, TypeOK
<1>9. ASSUME NEW p \in Principals, NEW w \in Workspaces, memberRemoved(p, w) PROVE ConnInv'
  BY <1>0, <1>9, ClosePreserves DEF memberRemoved, TypeOK
<1>10. ASSUME evictIdleConnections PROVE ConnInv'
  BY <1>0, <1>10, ClosePreserves DEF evictIdleConnections, TypeOK
<1>11. ASSUME UNCHANGED vars PROVE ConnInv'
  <2>1. TypeOK'
    BY <1>0, <1>11 DEF TypeOK, vars
  <2> QED
    BY <1>0, <1>11, <2>1, RegistryUntouched DEF vars
<1> QED
  BY <1>1, <1>2, <1>3, <1>4, <1>5, <1>6, <1>7, <1>8, <1>9, <1>10, <1>11 DEF Next

LEMMA Invariance == Spec => []ConnInv
BY InitEstablishes, NextPreserves, PTL DEF Spec

-----------------------------------------------------------------------------
\* Every variable keeps its type.
THEOREM TypeCorrect == Spec => []TypeOK
<1>1. ConnInv => TypeOK
  BY DEF ConnInv, PlacesCounted
<1> QED
  BY <1>1, Invariance, PTL

\* The indexes the limits are checked against hold exactly the registered
\* connections, and no workspace or principal has more than it may, whatever
\* closes a connection during the awaits of its handler.
THEOREM PlacesAlwaysCounted == Spec => []PlacesCounted
<1>1. ConnInv => PlacesCounted
  BY DEF ConnInv
<1> QED
  BY <1>1, Invariance, PTL

\* Only a connection the server closed can leave subscriptions behind, and it
\* leaves nothing to resume.
THEOREM ClosedIsForGood == Spec => []ClosedForGood
<1>1. ConnInv => ClosedForGood
  BY DEF ConnInv
<1> QED
  BY <1>1, Invariance, PTL

-----------------------------------------------------------------------------
(***************************************************************************)
(* Fanout, for any number of subscribers and tables and any size of the    *)
(* buffers.  What happens to one subscriber's stream (received, then still *)
(* in the buffer) is the subject of the lemmas on Slot; the actions of     *)
(* Fanout are instances of them.                                           *)
(***************************************************************************)
Ordered(q)   == \A i, j \in DOMAIN q : i < j /\ q[j].kind # "fatal" => Precedes(q[i], q[j])
Before(r, b) == \A i \in DOMAIN r, j \in DOMAIN b :
                  b[j].kind # "fatal" => Precedes(r[i], b[j])
Past(q, n)   == \A i \in DOMAIN q : q[i].pos <= n

\* The events offered to a slot: received (r), in its buffer (b), or announced
\* as lost by a gap after them.
Accounted(r, b, o) ==
  \A p \in o : \/ Has(r, Data(p)) \/ Has(b, Data(p))
               \/ GapAfter(r, p) \/ GapAfter(b, p)

Slot(r, b, o, n) ==
  /\ Past(r, n) /\ Past(b, n) /\ \A p \in o : p <= n
  /\ Ordered(r) /\ Ordered(b) /\ Before(r, b)
  /\ Accounted(r, b, o)

Slots == \A s \in Subscribers : Slot(received[s], buffer[s], offered[s], published)

\* A loop under way over a slot that is not finished is still in the map.
Listening ==
  \A s \in Subscribers : consumer[s] \in {"reading", "waiting"} /\ ~done[s] => s \in registered

FanInv == FanoutTypeOK /\ NoSleepOverWork /\ Listening /\ Slots

-----------------------------------------------------------------------------
LEMMA ItemTypes ==
  ASSUME NEW p \in 0 .. MaxEvents
  PROVE  /\ Data(p) \in Items /\ Gap(p) \in Items /\ Fatal \in Items
         /\ Data(p).kind = "data" /\ Data(p).pos = p
         /\ Gap(p).kind = "gap" /\ Gap(p).pos = p
         /\ Fatal.kind = "fatal" /\ Fatal.pos = 0
BY SizesAssumption DEF Data, Gap, Fatal, Items

LEMMA ItemPosition ==
  ASSUME NEW x \in Items PROVE x.pos \in Nat /\ x.kind \in {"data", "gap", "fatal"}
BY DEF Items

LEMMA HeadAndTail ==
  ASSUME NEW S, NEW q \in Seq(S), q # <<>>
  PROVE  /\ Head(q) = q[1] /\ Head(q) \in S /\ Tail(q) \in Seq(S)
         /\ 1 \in DOMAIN q /\ Len(q) \in Nat /\ DOMAIN q = 1 .. Len(q)
         /\ DOMAIN Tail(q) = 1 .. Len(q) - 1
         /\ \A i \in 1 .. Len(q) - 1 : Tail(q)[i] = q[i + 1] /\ i + 1 \in DOMAIN q
         /\ \A i \in DOMAIN q : i = 1 \/ (i - 1 \in DOMAIN Tail(q) /\ Tail(q)[i - 1] = q[i])
OBVIOUS

LEMMA Appended ==
  ASSUME NEW S, NEW q \in Seq(S), NEW x \in S
  PROVE  /\ Append(q, x) \in Seq(S) /\ Len(q) \in Nat /\ DOMAIN q = 1 .. Len(q)
         /\ DOMAIN Append(q, x) = 1 .. Len(q) + 1
         /\ Append(q, x)[Len(q) + 1] = x
         /\ \A i \in 1 .. Len(q) : Append(q, x)[i] = q[i]
OBVIOUS

-----------------------------------------------------------------------------
\* An item x put at the end of a buffer whose items all come before it.
LEMMA SlotAppend ==
  ASSUME NEW r \in Seq(Items), NEW b \in Seq(Items), NEW o, NEW n \in Nat,
         NEW x \in Items, x.pos <= n, Slot(r, b, o, n),
         x.kind # "fatal" => /\ \A i \in DOMAIN r : Precedes(r[i], x)
                             /\ \A i \in DOMAIN b : Precedes(b[i], x)
  PROVE  Slot(r, Append(b, x), o, n)
<1> DEFINE c == Append(b, x)
<1>1. /\ DOMAIN b = 1 .. Len(b) /\ Len(b) \in Nat /\ DOMAIN c = 1 .. Len(b) + 1
      /\ c[Len(b) + 1] = x /\ \A i \in 1 .. Len(b) : c[i] = b[i]
  BY Appended
<1> HIDE DEF c
<1>2. Past(c, n)
  BY <1>1 DEF Past, Slot
<1>3. Ordered(c)
  BY <1>1 DEF Ordered, Slot
<1>4. Before(r, c)
  BY <1>1 DEF Before, Slot
<1>5. Accounted(r, c, o)
  BY <1>1 DEF Accounted, Slot, Has, GapAfter
<1> QED
  BY <1>2, <1>3, <1>4, <1>5 DEF Slot, c

\* The loop takes the oldest item.
LEMMA SlotDeliver ==
  ASSUME NEW r \in Seq(Items), NEW b \in Seq(Items), NEW o, NEW n \in Nat,
         b # <<>>, Slot(r, b, o, n)
  PROVE  Slot(Append(r, Head(b)), Tail(b), o, n)
<1> DEFINE c == Tail(b)
           x == Head(b)
           t == Append(r, x)
<1>1. /\ x = b[1] /\ x \in Items /\ 1 \in DOMAIN b /\ DOMAIN c = 1 .. Len(b) - 1
      /\ Len(b) \in Nat /\ DOMAIN b = 1 .. Len(b)
      /\ \A i \in DOMAIN c : c[i] = b[i + 1] /\ i + 1 \in DOMAIN b
      /\ \A i \in DOMAIN b : i = 1 \/ (i - 1 \in DOMAIN c /\ c[i - 1] = b[i])
  BY HeadAndTail
<1>2. /\ DOMAIN r = 1 .. Len(r) /\ Len(r) \in Nat /\ DOMAIN t = 1 .. Len(r) + 1
      /\ t[Len(r) + 1] = x /\ \A i \in 1 .. Len(r) : t[i] = r[i]
  BY <1>1, Appended
<1> HIDE DEF c, x, t
<1>3. Past(t, n) /\ Past(c, n)
  <2>1. Past(r, n) /\ Past(b, n)
    BY DEF Slot
  <2>2. x.pos =< n /\ \A i \in 1 .. Len(r) : r[i].pos =< n
    BY <1>1, <1>2, <2>1 DEF Past
  <2>3. Past(t, n)
    BY <1>2, <2>2 DEF Past
  <2> QED
    BY <1>1, <2>1, <2>3 DEF Past
<1>4. Ordered(t)
  BY <1>1, <1>2 DEF Ordered, Before, Slot
<1>5. Ordered(c)
  BY <1>1 DEF Ordered, Slot
<1>6. Before(t, c)
  BY <1>1, <1>2 DEF Ordered, Before, Slot
<1>7. Accounted(t, c, o)
  <2> SUFFICES ASSUME NEW p \in o
               PROVE  Has(t, Data(p)) \/ Has(c, Data(p)) \/ GapAfter(t, p) \/ GapAfter(c, p)
    BY DEF Accounted
  <2>1. Has(r, Data(p)) \/ Has(b, Data(p)) \/ GapAfter(r, p) \/ GapAfter(b, p)
    BY DEF Slot, Accounted
  <2>2. (Has(r, Data(p)) => Has(t, Data(p))) /\ (GapAfter(r, p) => GapAfter(t, p))
    BY <1>2 DEF Has, GapAfter
  <2>3. ASSUME NEW i \in DOMAIN b
        PROVE  \/ \E j \in DOMAIN t : t[j] = b[i]
               \/ \E j \in DOMAIN c : c[j] = b[i]
    <3>1. CASE i = 1
      BY <1>1, <1>2, <3>1
    <3>2. CASE i # 1
      BY <1>1, <3>2
    <3> QED
      BY <3>1, <3>2
  <2>4. Has(b, Data(p)) => Has(t, Data(p)) \/ Has(c, Data(p))
    BY <2>3 DEF Has
  <2>5. GapAfter(b, p) => GapAfter(t, p) \/ GapAfter(c, p)
    BY <2>3 DEF GapAfter
  <2> QED
    BY <2>1, <2>2, <2>4, <2>5
<1> QED
  BY <1>3, <1>4, <1>5, <1>6, <1>7 DEF Slot, c, x, t

\* The source publishes an event that is not for this slot.
LEMMA SlotLater ==
  ASSUME NEW r \in Seq(Items), NEW b \in Seq(Items), NEW o \in SUBSET Nat, NEW n \in Nat,
         Slot(r, b, o, n)
  PROVE  Slot(r, b, o, n + 1)
<1>1. /\ \A i \in DOMAIN r : r[i] \in Items /\ r[i].pos \in Nat
      /\ \A i \in DOMAIN b : b[i] \in Items /\ b[i].pos \in Nat
  BY ItemPosition
<1> QED
  BY <1>1 DEF Slot, Past

\* publish() into a slot: with a full buffer the oldest item goes, and whatever
\* it was, and whatever it announced, the new gap is after it.
LEMMA SlotEnqueue ==
  ASSUME NEW r \in Seq(Items), NEW b \in Seq(Items), NEW o \in SUBSET Nat, NEW n \in Nat,
         n + 1 \in 0 .. MaxEvents, Slot(r, b, o, n)
  PROVE  /\ Slot(r, Enqueue(b, n + 1), o \cup {n + 1}, n + 1)
         /\ Enqueue(b, n + 1) \in Seq(Items)
<1> DEFINE m == n + 1
           g == Gap(m)
           d == Data(m)
<1>1. /\ g \in Items /\ g.kind = "gap" /\ g.pos = m
      /\ d \in Items /\ d.kind = "data" /\ d.pos = m
  BY ItemTypes
<1>2. m \in Nat /\ m = n + 1
  OBVIOUS
<1>3. Slot(r, b, o, m)
  BY SlotLater
<1>4. /\ \A i \in DOMAIN r : r[i].pos \in Nat /\ r[i].pos < m
      /\ \A i \in DOMAIN b : b[i].pos \in Nat /\ b[i].pos < m
      /\ \A p \in o : p \in Nat /\ p < m
  BY ItemPosition DEF Slot, Past
<1> HIDE DEF m, g, d
<1>5. CASE Len(b) >= BufferSize
  <2> DEFINE c == Tail(b)
             e == Append(c, g)
             f == Append(e, d)
  <2>1. Len(b) # 0
    BY <1>5, SizesAssumption
  <2>2. b # <<>>
    BY <2>1
  <2>3. /\ c \in Seq(Items) /\ DOMAIN c = 1 .. Len(b) - 1 /\ Len(b) \in Nat
        /\ \A i \in DOMAIN c : c[i] = b[i + 1] /\ i + 1 \in DOMAIN b
    BY <2>2, HeadAndTail
  <2>4. Enqueue(b, m) = f
    BY <1>5, <2>3 DEF Enqueue, g, d
  <2> HIDE DEF c
  <2>5. /\ e \in Seq(Items) /\ Len(c) \in Nat /\ DOMAIN c = 1 .. Len(c)
        /\ DOMAIN e = 1 .. Len(c) + 1 /\ e[Len(c) + 1] = g
        /\ \A i \in 1 .. Len(c) : e[i] = c[i]
    BY <1>1, <2>3, Appended
  <2> HIDE DEF e
  <2>6. Past(c, m) /\ Ordered(c) /\ Before(r, c)
    BY <1>3, <2>3 DEF Slot, Past, Ordered, Before
  <2>7. Slot(r, c, {}, m)
    BY <1>3, <2>6 DEF Slot, Accounted
  <2>8. /\ \A i \in DOMAIN r : Precedes(r[i], g)
        /\ \A i \in DOMAIN c : Precedes(c[i], g)
    BY <1>1, <1>4, <2>3 DEF Precedes
  <2>9. Slot(r, e, {}, m)
    <3>1. g.pos <= m /\ g \in Items /\ c \in Seq(Items) /\ m \in Nat
      BY <1>1, <1>2, <2>3
    <3> QED
      BY <3>1, <2>7, <2>8, SlotAppend DEF e
  <2>11. Accounted(r, e, o)
    BY <1>1, <1>4, <2>5 DEF Accounted, GapAfter
  <2>12. Slot(r, e, o, m)
    BY <1>3, <2>9, <2>11 DEF Slot
  <2>13. /\ \A i \in DOMAIN r : Precedes(r[i], d)
         /\ \A i \in DOMAIN e : Precedes(e[i], d)
    <3>1. \A i \in DOMAIN r : Precedes(r[i], d)
      BY <1>1, <1>4 DEF Precedes
    <3>2. Precedes(g, d)
      BY <1>1 DEF Precedes
    <3>3. \A i \in DOMAIN c : Precedes(c[i], d)
      BY <1>1, <1>4, <2>3 DEF Precedes
    <3> QED
      BY <2>5, <3>1, <3>2, <3>3
  <2>14. Slot(r, f, o, m) /\ f \in Seq(Items) /\ Has(f, Data(m))
    <3>1. Slot(r, f, o, m)
      <4>1. d.pos <= m /\ d \in Items /\ e \in Seq(Items) /\ m \in Nat
        BY <1>1, <1>2, <2>5
      <4> QED
        BY <4>1, <2>12, <2>13, SlotAppend
    <3>2. f \in Seq(Items) /\ Len(e) + 1 \in DOMAIN f /\ f[Len(e) + 1] = d
      BY <1>1, <2>5, Appended
    <3> QED
      BY <3>1, <3>2 DEF Has, d
  <2> HIDE DEF f
  <2> QED
    BY <1>2, <2>4, <2>14 DEF Slot, Accounted, m
<1>6. CASE ~(Len(b) >= BufferSize)
  <2> DEFINE f == Append(b, d)
  <2>1. Enqueue(b, m) = f
    BY <1>6 DEF Enqueue, d
  <2>2. /\ \A i \in DOMAIN r : Precedes(r[i], d)
        /\ \A i \in DOMAIN b : Precedes(b[i], d)
    BY <1>1, <1>4 DEF Precedes
  <2>3. Slot(r, f, o, m) /\ f \in Seq(Items) /\ Has(f, Data(m))
    <3>1. Slot(r, f, o, m)
      BY <1>1, <1>2, <1>3, <2>2, SlotAppend
    <3>2. f \in Seq(Items) /\ Len(b) + 1 \in DOMAIN f /\ f[Len(b) + 1] = d
      BY <1>1, Appended
    <3> QED
      BY <3>1, <3>2 DEF Has, d
  <2> HIDE DEF f
  <2> QED
    BY <1>2, <2>1, <2>3 DEF Slot, Accounted, m
<1> QED
  BY <1>5, <1>6 DEF m

-----------------------------------------------------------------------------
LEMMA InitFanInv == FanoutInit => FanInv
<1> SUFFICES ASSUME FanoutInit PROVE FanInv
  OBVIOUS
<1>1. FanoutTypeOK
  <2>1. buffer \in [Subscribers -> Seq(Items)] /\ received \in [Subscribers -> Seq(Items)]
    BY DEF FanoutInit
  <2>2. closed \in BOOLEAN /\ done \in [Subscribers -> BOOLEAN]
    <3>1. FALSE \in BOOLEAN
      OBVIOUS
    <3> QED
      BY <3>1, Zenon DEF FanoutInit
  <2>3. /\ offered \in [Subscribers -> SUBSET (1 .. MaxEvents)]
        /\ published \in 0 .. MaxEvents /\ registered \subseteq Subscribers
    BY SizesAssumption DEF FanoutInit
  <2>4. consumer \in [Subscribers -> {"none", "reading", "waiting", "ended", "left"}]
    BY DEF FanoutInit
  <2> QED
    BY <2>1, <2>2, <2>3, <2>4 DEF FanoutTypeOK
<1>2. NoSleepOverWork /\ Listening
  BY DEF FanoutInit, NoSleepOverWork, Listening
<1>3. Slots
  BY DEF FanoutInit, Slots, Slot, Past, Ordered, Before, Accounted
<1> QED
  BY <1>1, <1>2, <1>3 DEF FanInv

\* What the invariant says of one subscriber.
LEMMA SlotTypes ==
  ASSUME FanInv, NEW s \in Subscribers
  PROVE  /\ received[s] \in Seq(Items) /\ buffer[s] \in Seq(Items)
         /\ offered[s] \in SUBSET Nat /\ published \in Nat
         /\ Slot(received[s], buffer[s], offered[s], published)
BY SizesAssumption DEF FanInv, FanoutTypeOK, Slots

LEMMA CreateFanInv ==
  ASSUME FanInv, NEW s \in Subscribers, createSubscription(s) PROVE FanInv'
<1>1. FanoutTypeOK'
  BY DEF createSubscription, FanInv, FanoutTypeOK
<1>2. NoSleepOverWork' /\ Listening'
  BY DEF createSubscription, FanInv, FanoutTypeOK, NoSleepOverWork, Listening
<1>3. Slots'
  BY DEF createSubscription, FanInv, Slots
<1> QED
  BY <1>1, <1>2, <1>3 DEF FanInv

LEMMA PublishFanInv ==
  ASSUME FanInv, NEW t \in Tables, publish(t) PROVE FanInv'
<1> DEFINE to == {s \in registered : ~done[s] /\ t \in Wants[s]}
<1>1. /\ published' = published + 1 /\ published + 1 \in 0 .. MaxEvents /\ published \in Nat
      /\ published + 1 \in 1 .. MaxEvents
      /\ UNCHANGED <<closed, registered, done, received>>
  BY SizesAssumption DEF publish, FanInv, FanoutTypeOK
<1>2. /\ buffer' = [s \in Subscribers |->
                     IF s \in to THEN Enqueue(buffer[s], published + 1) ELSE buffer[s]]
      /\ offered' = [s \in Subscribers |->
                      IF s \in to THEN offered[s] \cup {published + 1} ELSE offered[s]]
      /\ consumer' = Wake(to)
  BY <1>1 DEF publish
<1> HIDE DEF to
<1>3. ASSUME NEW s \in Subscribers
      PROVE  /\ buffer'[s] \in Seq(Items) /\ offered'[s] \in SUBSET (1 .. MaxEvents)
             /\ Slot(received'[s], buffer'[s], offered'[s], published')
  <2>1. /\ received[s] \in Seq(Items) /\ buffer[s] \in Seq(Items) /\ offered[s] \in SUBSET Nat
        /\ offered[s] \in SUBSET (1 .. MaxEvents)
        /\ Slot(received[s], buffer[s], offered[s], published)
    BY SlotTypes DEF FanInv, FanoutTypeOK
  <2>2. CASE s \in to
    BY <1>1, <1>2, <2>1, <2>2, SlotEnqueue
  <2>3. CASE s \notin to
    BY <1>1, <1>2, <2>1, <2>3, SlotLater
  <2> QED
    BY <2>2, <2>3
<1>4. FanoutTypeOK'
  <2>1. consumer' \in [Subscribers -> {"none", "reading", "waiting", "ended", "left"}]
    BY <1>2 DEF Wake, FanInv, FanoutTypeOK
  <2>2. buffer' \in [Subscribers -> Seq(Items)]
    BY <1>2, <1>3
  <2>3. offered' \in [Subscribers -> SUBSET (1 .. MaxEvents)]
    BY <1>2, <1>3
  <2> QED
    BY <1>1, <2>1, <2>2, <2>3 DEF FanInv, FanoutTypeOK
<1>5. NoSleepOverWork' /\ Listening'
  BY <1>1, <1>2 DEF Wake, FanInv, FanoutTypeOK, NoSleepOverWork, Listening
<1>6. Slots'
  BY <1>3 DEF Slots
<1> QED
  BY <1>4, <1>5, <1>6 DEF FanInv

LEMMA NextOfFanInv ==
  ASSUME FanInv, NEW s \in Subscribers, next(s) PROVE FanInv'
<1>1. UNCHANGED <<published, closed, done, offered>> /\ consumer[s] = "reading"
  BY DEF next
<1>2. received[s] \in Seq(Items) /\ buffer[s] \in Seq(Items) /\ published \in Nat
  BY SlotTypes
<1>3. CASE /\ buffer[s] # <<>>
           /\ received' = [received EXCEPT ![s] = Append(@, Head(buffer[s]))]
           /\ buffer' = [buffer EXCEPT ![s] = Tail(@)]
           /\ UNCHANGED <<registered, consumer>>
  <2>1. Head(buffer[s]) \in Items /\ Tail(buffer[s]) \in Seq(Items)
    BY <1>2, <1>3, HeadAndTail
  <2>2. Append(received[s], Head(buffer[s])) \in Seq(Items)
    BY <1>2, <2>1
  <2>3. FanoutTypeOK'
    BY <1>1, <1>3, <2>1, <2>2 DEF FanInv, FanoutTypeOK
  <2>4. NoSleepOverWork' /\ Listening'
    BY <1>1, <1>3 DEF FanInv, FanoutTypeOK, NoSleepOverWork, Listening
  <2>5. Slot(Append(received[s], Head(buffer[s])), Tail(buffer[s]), offered[s], published)
    BY <1>2, <1>3, SlotDeliver DEF FanInv, Slots
  <2>6. Slots'
    BY <1>1, <1>3, <2>5 DEF FanInv, FanoutTypeOK, Slots
  <2> QED
    BY <2>3, <2>4, <2>6 DEF FanInv
<1>4. CASE /\ buffer[s] = <<>>
           /\ \/ ~done[s] /\ consumer' = [consumer EXCEPT ![s] = "waiting"]
                 /\ UNCHANGED registered
              \/ consumer' = [consumer EXCEPT ![s] = "ended"] /\ registered' = registered \ {s}
           /\ UNCHANGED <<buffer, received>>
  <2>1. FanoutTypeOK'
    BY <1>1, <1>4 DEF FanInv, FanoutTypeOK
  <2>2. NoSleepOverWork' /\ Listening'
    BY <1>1, <1>4 DEF FanInv, FanoutTypeOK, NoSleepOverWork, Listening
  <2>3. Slots'
    BY <1>1, <1>4 DEF FanInv, Slots
  <2> QED
    BY <2>1, <2>2, <2>3 DEF FanInv
<1> QED
  BY <1>3, <1>4 DEF next

LEMMA ReturnFanInv ==
  ASSUME FanInv, NEW s \in Subscribers, return(s) PROVE FanInv'
<1>1. FanoutTypeOK'
  BY DEF return, FanInv, FanoutTypeOK
<1>2. NoSleepOverWork' /\ Listening'
  BY DEF return, FanInv, FanoutTypeOK, NoSleepOverWork, Listening
<1>3. Slots'
  BY DEF return, FanInv, Slots
<1> QED
  BY <1>1, <1>2, <1>3 DEF FanInv

LEMMA TerminateFanInv ==
  ASSUME FanInv, terminate PROVE FanInv'
<1>1. Fatal \in Items /\ Fatal.kind = "fatal" /\ Fatal.pos = 0
  BY SizesAssumption, ItemTypes
<1>2. ASSUME NEW s \in Subscribers
      PROVE  /\ Append(buffer[s], Fatal) \in Seq(Items)
             /\ Slot(received[s], Append(buffer[s], Fatal), offered[s], published)
  BY <1>1, SlotTypes, SlotAppend
<1>3. FanoutTypeOK'
  BY <1>2 DEF terminate, Wake, FanInv, FanoutTypeOK
<1>4. NoSleepOverWork' /\ Listening'
  BY DEF terminate, Wake, FanInv, FanoutTypeOK, NoSleepOverWork, Listening
<1>5. Slots'
  BY <1>2 DEF terminate, FanInv, Slots
<1> QED
  BY <1>3, <1>4, <1>5 DEF FanInv

LEMMA CloseFanInv ==
  ASSUME FanInv, close PROVE FanInv'
<1>1. FanoutTypeOK'
  BY DEF close, Wake, FanInv, FanoutTypeOK
<1>2. NoSleepOverWork' /\ Listening'
  BY DEF close, Wake, FanInv, FanoutTypeOK, NoSleepOverWork, Listening
<1>3. Slots'
  BY DEF close, FanInv, Slots
<1> QED
  BY <1>1, <1>2, <1>3 DEF FanInv

-----------------------------------------------------------------------------
LEMMA NextFanInv == FanInv /\ [FanoutNext]_fanoutVars => FanInv'
<1> SUFFICES ASSUME FanInv, [FanoutNext]_fanoutVars PROVE FanInv'
  OBVIOUS
<1>1. CASE UNCHANGED fanoutVars
  BY <1>1 DEF fanoutVars, FanInv, FanoutTypeOK, NoSleepOverWork, Listening, Slots
<1>2. CASE FanoutNext
  BY <1>2, CreateFanInv, PublishFanInv, NextOfFanInv, ReturnFanInv, TerminateFanInv, CloseFanInv DEF FanoutNext
<1> QED
  BY <1>1, <1>2

\* Every variable keeps its type.
THEOREM FanoutTyped == FanoutSpec => []FanoutTypeOK
<1>1. FanInv => FanoutTypeOK
  BY DEF FanInv
<1> QED
  BY InitFanInv, NextFanInv, <1>1, PTL DEF FanoutSpec

\* No wake-up of a sleeping subscriber is lost.
THEOREM NeverSleepsOverWork == FanoutSpec => []NoSleepOverWork
<1>1. FanInv => NoSleepOverWork
  BY DEF FanInv
<1> QED
  BY InitFanInv, NextFanInv, <1>1, PTL DEF FanoutSpec

\* Every event dropped from a full buffer is announced by a gap after it.
THEOREM LossAlwaysAnnounced == FanoutSpec => []LossAnnounced
<1>1. FanInv => LossAnnounced
  BY DEF FanInv, Slots, Slot, Accounted, LossAnnounced, Known, Announced
<1> QED
  BY InitFanInv, NextFanInv, <1>1, PTL DEF FanoutSpec

\* A subscriber receives positions that never go back, and no event twice.
THEOREM AlwaysInOrder == FanoutSpec => []InOrder
<1>1. FanInv => InOrder
  BY DEF FanInv, Slots, Slot, Ordered, InOrder
<1> QED
  BY InitFanInv, NextFanInv, <1>1, PTL DEF FanoutSpec

-----------------------------------------------------------------------------
(***************************************************************************)
(* SseMerge, for any number of streams that end in any order: the streams  *)
(* a splice has not moved are always in the first slots, each in its own,  *)
(* and no promise names a slot below the one it is in.                     *)
(***************************************************************************)
\* In each slot is a promise of its stream, for this slot or a later one.
InSlots ==
  /\ Len(ongoing) = Len(pending)
  /\ \A j \in DOMAIN pending : pending[j].iter = ongoing[j] /\ j <= pending[j].i

\* A stream that was not moved is in its own slot with its newest call, and all below it likewise.
Unmoved ==
  \A j \in DOMAIN ongoing : ongoing[j] \notin moved =>
    /\ ongoing[j] = j /\ pending[j] = Promise(j, calls[j], j)
    /\ \A k \in 1 .. j : ongoing[k] \notin moved

\* Only a stream that was moved, or has said "done", is out of the race.
StillIn ==
  \A iter \in Iters : iter \notin moved /\ doneAt[iter] = 0 =>
    iter \in DOMAIN ongoing /\ ongoing[iter] = iter

\* The promise that won is in its slot, and has its answer.
WinnerCurrent == winner # None =>
  /\ \E j \in DOMAIN pending : winner = pending[j]
  /\ winner.call <= settled[winner.iter]

\* A stream yields MaxAnswers events at most, and numbers of calls end there.
Answered == \A iter \in Iters :
  /\ calls[iter] \in 1 .. MaxAnswers + 1
  /\ settled[iter] <= MaxAnswers \/ doneAt[iter] # 0
  /\ doneAt[iter] <= MaxAnswers + 1

MergeInv ==
  MergeTypeOK /\ InSlots /\ Unmoved /\ StillIn /\ WinnerCurrent /\ Answered /\ OnceInOrder

LEMMA InitMergeInv == MergeInit => MergeInv
<1> SUFFICES ASSUME MergeInit PROVE MergeInv
  OBVIOUS
<1>0. Handles \in Nat \ {0} /\ MaxAnswers \in Nat /\ Iters = 1 .. Handles
  BY BoundsAssumption DEF Iters
<1>1. /\ ongoing = [i \in Iters |-> i] /\ pending = [i \in Iters |-> Promise(i, 1, i)]
      /\ calls = [i \in Iters |-> 1] /\ settled = [i \in Iters |-> 0]
      /\ doneAt = [i \in Iters |-> 0] /\ written = [i \in Iters |-> {}]
      /\ winner = None /\ again = {} /\ moved = {} /\ left = FALSE /\ loop = "racing"
  BY DEF MergeInit
<1>2. ongoing \in Seq(Iters) /\ Len(ongoing) = Handles /\ DOMAIN ongoing = Iters
  BY <1>0, <1>1
<1>3. \A i \in Iters : /\ Promise(i, 1, i) \in Promises /\ Promise(i, 1, i).iter = i
                       /\ Promise(i, 1, i).i = i
  BY DEF Promise, Promises
<1>4. pending \in Seq(Promises) /\ Len(pending) = Handles /\ DOMAIN pending = Iters
  BY <1>0, <1>1, <1>3
<1>5. MergeTypeOK
  <2>1. /\ calls \in [Iters -> Nat] /\ settled \in [Iters -> Nat] /\ doneAt \in [Iters -> Nat]
        /\ winner \in Promises \cup {None} /\ loop \in {"racing", "over"}
        /\ again \subseteq Iters /\ moved \subseteq Iters /\ written \in [Iters -> SUBSET Nat]
    BY <1>1
  <2>2. left \in BOOLEAN
    BY <1>1, Zenon
  <2> QED
    BY <1>2, <1>4, <2>1, <2>2 DEF MergeTypeOK
<1>6. InSlots
  BY <1>0, <1>1, <1>2, <1>3, <1>4 DEF InSlots
<1>7. Unmoved /\ StillIn
  BY <1>0, <1>1, <1>2 DEF Unmoved, StillIn
<1>8. WinnerCurrent /\ Answered
  BY <1>0, <1>1 DEF WinnerCurrent, Answered
<1>9. OnceInOrder
  BY <1>0, <1>1 DEF OnceInOrder
<1> QED
  BY <1>5, <1>6, <1>7, <1>8, <1>9 DEF MergeInv

\* A promise of the race, by slot.
LEMMA InSlot ==
  ASSUME MergeInv
  PROVE  /\ Iters = 1 .. Handles /\ Handles \in Nat /\ MaxAnswers \in Nat
         /\ Len(ongoing) \in Nat
         /\ DOMAIN pending = 1 .. Len(ongoing) /\ DOMAIN ongoing = 1 .. Len(ongoing)
         /\ \A j \in DOMAIN pending :
              /\ pending[j] \in Promises /\ ongoing[j] \in Iters
              /\ pending[j].iter = ongoing[j] /\ pending[j].i \in Iters
              /\ pending[j].call \in Nat /\ j <= pending[j].i
<1>1. Iters = 1 .. Handles /\ Handles \in Nat /\ MaxAnswers \in Nat
  BY BoundsAssumption DEF Iters
<1>2. /\ ongoing \in Seq(Iters) /\ pending \in Seq(Promises) /\ Len(pending) = Len(ongoing)
  BY DEF MergeInv, MergeTypeOK, InSlots
<1>3. /\ DOMAIN pending = 1 .. Len(ongoing) /\ DOMAIN ongoing = 1 .. Len(ongoing)
      /\ Len(ongoing) \in Nat
  BY <1>2
<1>4. ASSUME NEW j \in DOMAIN pending
      PROVE  /\ pending[j] \in Promises /\ ongoing[j] \in Iters
             /\ pending[j].iter = ongoing[j] /\ j <= pending[j].i
  BY <1>2, <1>3 DEF MergeInv, InSlots
<1>5. \A q \in Promises : q.i \in Iters /\ q.call \in Nat
  BY DEF Promises
<1> QED
  BY <1>1, <1>3, <1>4, <1>5

LEMMA SettleMergeInv ==
  ASSUME MergeInv, NEW iter \in Iters, Settle(iter) PROVE MergeInv'
<1>1. /\ settled' = [settled EXCEPT ![iter] = @ + 1]
      /\ UNCHANGED <<ongoing, pending, calls, written, again, moved, left, loop>>
  BY DEF Settle
<1>2. PICK d \in Answers(iter) : doneAt' = [doneAt EXCEPT ![iter] = d]
  BY DEF Settle
<1>3. /\ calls \in [Iters -> Nat] /\ settled \in [Iters -> Nat] /\ doneAt \in [Iters -> Nat]
      /\ MaxAnswers \in Nat /\ settled[iter] \in Nat /\ doneAt[iter] \in Nat
  BY InSlot DEF MergeInv, MergeTypeOK
<1>4. \/ winner' = winner
      \/ \E j \in DOMAIN pending : /\ winner' = pending[j] /\ pending[j].iter = iter
                                   /\ pending[j].call = settled'[iter]
  <2> DEFINE now == {j \in DOMAIN pending : /\ pending[j].iter = iter
                                            /\ pending[j].call = settled'[iter]}
  <2>1. winner' = IF winner = None /\ loop = "racing" /\ now # {}
                  THEN pending[CHOOSE j \in now : TRUE] ELSE winner
    BY DEF Settle
  <2>2. now # {} => (CHOOSE j \in now : TRUE) \in now
    OBVIOUS
  <2> QED
    BY <2>1, <2>2
<1>5. /\ d \in Nat /\ d <= MaxAnswers + 1
      /\ doneAt[iter] # 0 => d # 0
      /\ settled[iter] + 1 <= MaxAnswers \/ d # 0
  <2>0. /\ settled[iter] <= MaxAnswers \/ doneAt[iter] # 0
        /\ doneAt[iter] <= MaxAnswers + 1
    BY DEF MergeInv, Answered
  <2>1. CASE doneAt[iter] # 0
    BY <1>3, <2>0, <2>1 DEF Answers
  <2>2. CASE doneAt[iter] = 0
    <3>1. (d = 0 /\ settled[iter] < MaxAnswers) \/ d = settled[iter] + 1
      BY <2>2 DEF Answers
    <3> QED
      BY <1>3, <2>0, <2>2, <3>1
  <2> QED
    BY <2>1, <2>2
<1>6. MergeTypeOK'
  <2>1. doneAt' \in [Iters -> Nat] /\ settled' \in [Iters -> Nat]
    BY <1>1, <1>2, <1>3, <1>5
  <2>2. winner' \in Promises \cup {None}
    BY <1>4, InSlot DEF MergeInv, MergeTypeOK
  <2> QED
    BY <1>1, <2>1, <2>2 DEF MergeInv, MergeTypeOK
<1>7. InSlots' /\ Unmoved' /\ OnceInOrder'
  BY <1>1 DEF MergeInv, InSlots, Unmoved, OnceInOrder, Iters
<1>8. \A k \in Iters : /\ k # iter => doneAt'[k] = doneAt[k] /\ settled'[k] = settled[k]
                       /\ k = iter => doneAt'[k] = d /\ settled'[k] = settled[iter] + 1
  BY <1>1, <1>2, <1>3
<1>9. StillIn'
  BY <1>1, <1>5, <1>8 DEF MergeInv, StillIn
<1>10. WinnerCurrent'
  <2>1. CASE winner' = winner
    <3> SUFFICES ASSUME winner # None
                 PROVE  /\ \E j \in DOMAIN pending : winner = pending[j]
                        /\ winner.call <= settled'[winner.iter]
      BY <1>1, <2>1 DEF WinnerCurrent
    <3>1. PICK j \in DOMAIN pending : winner = pending[j] /\ winner.call <= settled[winner.iter]
      BY DEF MergeInv, WinnerCurrent
    <3>2. winner.iter \in Iters /\ winner.call \in Nat
      BY <3>1, InSlot
    <3>3. settled[winner.iter] \in Nat /\ settled[winner.iter] <= settled'[winner.iter]
      BY <1>3, <1>8, <3>2
    <3>4. settled'[winner.iter] \in Nat
      BY <1>3, <1>8, <3>2
    <3> QED
      BY <3>1, <3>2, <3>3, <3>4
  <2>2. CASE \E j \in DOMAIN pending : /\ winner' = pending[j] /\ pending[j].iter = iter
                                       /\ pending[j].call = settled'[iter]
    BY <1>1, <1>3, <2>2 DEF WinnerCurrent
  <2> QED
    BY <1>4, <2>1, <2>2
<1>11. Answered'
  BY <1>1, <1>3, <1>5, <1>8 DEF MergeInv, Answered
<1> QED
  BY <1>6, <1>7, <1>9, <1>10, <1>11 DEF MergeInv

\* A set of numbers has a least one.
LEMMA LeastOf ==
  ASSUME NEW T \in SUBSET Nat, T # {}
  PROVE  \E j \in T : \A k \in T : j <= k
<1> DEFINE R == OpToRel(<, Nat)
<1>1. IsWellFoundedOn(R, Nat)
  BY NatLessThanWellFounded
<1>2. \A i, j \in Nat : i < j => <<i, j>> \in R
  BY DEF OpToRel
<1> HIDE DEF R
<1>3. PICK j \in T : \A k \in T : ~ (<<k, j>> \in R)
  BY <1>1, WFMin
<1>4. \A k \in T : k \in Nat /\ j \in Nat /\ ~ (k < j)
  BY <1>2, <1>3
<1> QED
  BY <1>4

\* The next race is between the promises it is given, and its winner has its answer.
LEMMA RaceWinner ==
  ASSUME NEW p, NEW n \in Nat, DOMAIN p = 1 .. n, Race(p)
  PROVE  /\ winner' = None \/ \E j \in DOMAIN p : /\ winner' = p[j]
                                                   /\ p[j].call <= settled[p[j].iter]
         /\ loop' \in {"racing", "over"}
<1> DEFINE ready == {j \in DOMAIN p : p[j].call <= settled[p[j].iter]}
           first == CHOOSE j \in ready : \A k \in ready : j <= k
<1>1. winner' = (IF loop' = "racing" /\ ready # {} THEN p[first] ELSE None)
      /\ loop' = (IF p = <<>> \/ left THEN "over" ELSE "racing")
  BY DEF Race
<1>2. ready \subseteq Nat /\ ready \subseteq DOMAIN p
  OBVIOUS
<1>3. ready # {} => \E j \in ready : \A k \in ready : j <= k
  BY <1>2, LeastOf
<1>4. ready # {} => first \in ready
  BY <1>3
<1> QED
  BY <1>1, <1>2, <1>4

\* A splice takes one slot out and moves those above it down by one.
LEMMA SpliceAt ==
  ASSUME NEW S, NEW q \in Seq(S), NEW i \in DOMAIN q
  PROVE  /\ Splice(q, i) \in Seq(S) /\ Len(Splice(q, i)) = Len(q) - 1
         /\ \A j \in 1 .. Len(q) - 1 : Splice(q, i)[j] = IF j < i THEN q[j] ELSE q[j + 1]
<1> DEFINE a == SubSeq(q, 1, i - 1)
           b == SubSeq(q, i + 1, Len(q))
<1>0. i \in Nat /\ Len(q) \in Nat /\ 1 <= i /\ i <= Len(q)
  OBVIOUS
<1>1. a \in Seq(S) /\ Len(a) = i - 1 /\ \A j \in 1 .. i - 1 : a[j] = q[j]
  BY <1>0, SubSeqProperties
<1>2. b \in Seq(S) /\ Len(b) = Len(q) - i /\ \A j \in 1 .. Len(q) - i : b[j] = q[j + i]
  <2>1. \A j \in 1 .. Len(q) - i : (i + 1) + j - 1 = j + i
    BY <1>0
  <2> QED
    BY <1>0, <2>1, SubSeqProperties
<1> HIDE DEF a, b
<1>3. /\ a \o b \in Seq(S) /\ Len(a \o b) = Len(a) + Len(b)
      /\ \A j \in 1 .. Len(a) : (a \o b)[j] = a[j]
      /\ \A j \in Len(a) + 1 .. Len(a) + Len(b) : (a \o b)[j] = b[j - Len(a)]
  <2>1. /\ a \o b \in Seq(S) /\ Len(a \o b) = Len(a) + Len(b)
        /\ \A j \in 1 .. Len(a) + Len(b) : (a \o b)[j] = IF j <= Len(a) THEN a[j] ELSE b[j - Len(a)]
    BY <1>1, <1>2, ConcatProperties
  <2>2. Len(a) \in Nat /\ Len(b) \in Nat
    BY <1>1, <1>2
  <2> HIDE <1>1, <1>2
  <2> QED
    BY <2>1, <2>2
<1>4. Splice(q, i) = a \o b
  BY DEF Splice, a, b
<1>5. ASSUME NEW j \in 1 .. Len(q) - 1
      PROVE  (a \o b)[j] = IF j < i THEN q[j] ELSE q[j + 1]
  <2>1. CASE j < i
    BY <1>0, <1>1, <1>3, <2>1
  <2>2. CASE ~ (j < i)
    <3>1. /\ j \in Len(a) + 1 .. Len(a) + Len(b) /\ j - Len(a) \in 1 .. Len(q) - i
          /\ (j - Len(a)) + i = j + 1
      BY <1>0, <1>1, <1>2, <2>2
    <3>2. (a \o b)[j] = b[j - Len(a)]
      BY <1>3, <3>1
    <3>3. b[j - Len(a)] = q[(j - Len(a)) + i]
      BY <1>2, <3>1
    <3> QED
      BY <2>2, <3>1, <3>2, <3>3
  <2> QED
    BY <2>1, <2>2
<1>6. Len(a) + Len(b) = Len(q) - 1
  BY <1>0, <1>1, <1>2
<1> QED
  BY <1>3, <1>4, <1>5, <1>6

\* Where the winner is, which slot it names, and that both are moved or neither is.
LEMMA WinnerSlot ==
  ASSUME MergeInv, winner # None
  PROVE  \E j \in DOMAIN pending :
           /\ winner = pending[j] /\ winner.iter = ongoing[j] /\ winner.iter \in Iters
           /\ winner.i \in Iters /\ j <= winner.i /\ winner.call \in Nat
           /\ winner.iter \notin moved =>
                winner.i = j /\ winner.iter = j /\ winner.call = calls[winner.iter]
           /\ winner.iter \in moved =>
                \A k \in DOMAIN ongoing : k >= winner.i => ongoing[k] \in moved
           /\ \A k \in DOMAIN ongoing : k >= winner.i /\ ongoing[k] \notin moved =>
                winner.iter \notin moved
<1>1. PICK j \in DOMAIN pending : winner = pending[j]
  BY DEF MergeInv, WinnerCurrent
<1>2. /\ winner.iter = ongoing[j] /\ winner.iter \in Iters
      /\ winner.i \in Iters /\ j <= winner.i /\ winner.call \in Nat
      /\ DOMAIN pending = DOMAIN ongoing /\ DOMAIN ongoing \subseteq Nat /\ Iters \subseteq Nat
      /\ DOMAIN ongoing = 1 .. Len(ongoing)
  BY <1>1, InSlot
<1>3. winner.iter \notin moved =>
        winner.i = j /\ winner.iter = j /\ winner.call = calls[winner.iter]
  BY <1>1, <1>2 DEF MergeInv, Unmoved, Promise
<1>4. ASSUME winner.iter \in moved, NEW k \in DOMAIN ongoing, k >= winner.i
      PROVE  ongoing[k] \in moved
  <2>1. j \in 1 .. k
    <3>1. j \in 1 .. Len(ongoing) /\ Len(ongoing) \in Nat
      BY InSlot
    <3>2. k \in Nat /\ winner.i \in Nat /\ j <= winner.i
      BY <1>2
    <3> QED
      BY <1>4, <3>1, <3>2
  <2> QED
    BY <1>2, <1>4, <2>1 DEF MergeInv, Unmoved
<1> QED
  BY <1>1, <1>2, <1>3, <1>4

\* A stream has said "done" whose promise is done, and the slot it names is taken out.
LEMMA RemoveMergeInv ==
  ASSUME MergeInv, Deliver, Remove(winner), doneAt[winner.iter] # 0 PROVE MergeInv'
<1> DEFINE n == Len(ongoing)
           i == winner.i
<1>1. /\ Race(pending') /\ UNCHANGED <<settled, doneAt, left>> /\ winner # None
      /\ ongoing' = Splice(ongoing, i) /\ pending' = Splice(pending, i)
      /\ moved' = moved \cup {ongoing[j] : j \in {k \in DOMAIN ongoing : k > i}}
      /\ UNCHANGED <<calls, written, again>>
  BY DEF Deliver, Remove
<1>2. PICK w \in DOMAIN pending :
        /\ winner.iter = ongoing[w] /\ i \in Iters /\ w <= i
        /\ winner.iter \notin moved => i = w /\ winner.iter = w
        /\ winner.iter \in moved => \A k \in DOMAIN ongoing : k >= i => ongoing[k] \in moved
  BY <1>1, WinnerSlot
<1>3. /\ ongoing \in Seq(Iters) /\ pending \in Seq(Promises) /\ Len(pending) = n /\ n \in Nat
      /\ DOMAIN pending = 1 .. n /\ DOMAIN ongoing = 1 .. n /\ Iters \subseteq Nat
      /\ \A j \in 1 .. n : pending[j].iter = ongoing[j] /\ j <= pending[j].i /\ pending[j].i \in Nat
      /\ i \in Nat
  <2>1. ongoing \in Seq(Iters) /\ pending \in Seq(Promises) /\ Len(pending) = n
    BY DEF MergeInv, MergeTypeOK, InSlots
  <2>2. n \in Nat /\ DOMAIN pending = 1 .. n /\ DOMAIN ongoing = 1 .. n
    BY InSlot
  <2>3. Iters \subseteq Nat
    BY InSlot
  <2> HIDE DEF n
  <2>4. \A j \in 1 .. n : pending[j].iter = ongoing[j] /\ j <= pending[j].i /\ pending[j].i \in Iters
    BY <2>2, InSlot
  <2> QED
    BY <1>2, <2>1, <2>2, <2>3, <2>4
<1> HIDE DEF n, i
\* The two arrays after the splice, slot by slot.
<1> DEFINE m == Len(ongoing')
<1>4. PICK s \in [1 .. m -> 1 .. n] :
        /\ m \in Nat /\ ongoing' \in Seq(Iters) /\ pending' \in Seq(Promises)
        /\ DOMAIN ongoing' = 1 .. m /\ DOMAIN pending' = 1 .. m
        /\ Len(pending') = m
        /\ \A j \in 1 .. m : /\ ongoing'[j] = ongoing[s[j]] /\ pending'[j] = pending[s[j]]
                             /\ j <= s[j] /\ s[j] # i
                             /\ s[j] # j => s[j] > i /\ j >= i
                             /\ s[j] = j => j < i
        /\ m = n => i \notin 1 .. n
        /\ m # n => i \in 1 .. n /\ m = n - 1
  <2>1. CASE i \in 1 .. n
    <3> DEFINE s == [j \in 1 .. n - 1 |-> IF j < i THEN j ELSE j + 1]
    <3>1. /\ ongoing' \in Seq(Iters) /\ Len(ongoing') = n - 1
          /\ \A j \in 1 .. n - 1 : ongoing'[j] = IF j < i THEN ongoing[j] ELSE ongoing[j + 1]
      BY <1>1, <1>3, <2>1, SpliceAt DEF n
    <3>2. /\ pending' \in Seq(Promises) /\ Len(pending') = n - 1
          /\ \A j \in 1 .. n - 1 : pending'[j] = IF j < i THEN pending[j] ELSE pending[j + 1]
      <4>1. i \in DOMAIN pending /\ pending \in Seq(Promises)
        BY <1>3, <2>1
      <4>2. /\ Splice(pending, i) \in Seq(Promises) /\ Len(Splice(pending, i)) = Len(pending) - 1
            /\ \A j \in 1 .. Len(pending) - 1 :
                 Splice(pending, i)[j] = IF j < i THEN pending[j] ELSE pending[j + 1]
        BY <4>1, SpliceAt
      <4>3. pending' = Splice(pending, i) /\ Len(pending) = n
        BY <1>1, <1>3
      <4> QED
        BY <4>2, <4>3
    <3>3. n - 1 \in Nat /\ n - 1 # n
      BY <1>3, <2>1
    <3>4. DOMAIN ongoing' = 1 .. n - 1 /\ DOMAIN pending' = 1 .. n - 1
      BY <3>1, <3>2, <3>3
    <3>5. s \in [1 .. n - 1 -> 1 .. n]
      BY <1>3
    <3>6. \A j \in 1 .. n - 1 : /\ ongoing'[j] = ongoing[s[j]] /\ pending'[j] = pending[s[j]]
                                /\ j <= s[j] /\ s[j] # i
                                /\ s[j] # j => s[j] > i /\ j >= i
                                /\ s[j] = j => j < i
      BY <1>3, <3>1, <3>2
    <3> HIDE DEF s
    <3> QED
      BY <2>1, <3>1, <3>2, <3>3, <3>4, <3>5, <3>6
  <2>2. CASE i \notin 1 .. n
    <3> DEFINE s == [j \in 1 .. n |-> j]
    <3>1. ongoing' = ongoing /\ pending' = pending
      BY <1>1, <1>3, <2>2 DEF Splice
    <3>2. \A j \in 1 .. n : j < i
      BY <1>2, <1>3, <2>2
    <3>3. s \in [1 .. n -> 1 .. n] /\ \A j \in 1 .. n : s[j] = j
      OBVIOUS
    <3> HIDE DEF s
    <3>4. m = n
      BY <3>1 DEF n
    <3>5. \A j \in 1 .. n : /\ ongoing'[j] = ongoing[s[j]] /\ pending'[j] = pending[s[j]]
                            /\ j <= s[j] /\ s[j] # i
                            /\ s[j] # j => s[j] > i /\ j >= i
                            /\ s[j] = j => j < i
      <4> SUFFICES ASSUME NEW j \in 1 .. n PROVE s[j] = j /\ j < i /\ j # i /\ j <= j
        BY <3>1, <3>3
      <4>1. s[j] = j /\ j < i
        BY <3>2, <3>3
      <4>2. j \in Nat /\ i \in Nat
        BY <1>3
      <4> QED
        BY <4>1, <4>2
    <3> QED
      BY <1>3, <2>2, <3>1, <3>3, <3>4, <3>5
  <2> QED
    BY <2>1, <2>2
<1>4a. Len(ongoing') = m
  OBVIOUS
<1> HIDE DEF m
<1>5. \A k \in 1 .. n : k > i => ongoing[k] \in moved'
  BY <1>1, <1>3
<1>6. moved \subseteq moved' /\ moved' \subseteq Iters
  <2>1. \A k \in 1 .. n : ongoing[k] \in Iters
    BY <1>3
  <2> QED
    BY <1>1, <1>3, <2>1 DEF MergeInv, MergeTypeOK
<1>7. /\ winner' = None \/ \E j \in DOMAIN pending' : /\ winner' = pending'[j]
                                                       /\ pending'[j].call <= settled[pending'[j].iter]
      /\ loop' \in {"racing", "over"}
  BY <1>1, <1>4, RaceWinner
<1>8. MergeTypeOK'
  <2>1. winner' \in Promises \cup {None}
    BY <1>4, <1>7
  <2> QED
    BY <1>1, <1>4, <1>6, <1>7, <2>1 DEF MergeInv, MergeTypeOK
<1>9. InSlots'
  <2> SUFFICES ASSUME NEW j \in 1 .. m PROVE pending'[j].iter = ongoing'[j] /\ j <= pending'[j].i
    BY <1>4, <1>4a DEF InSlots
  <2>1. s[j] \in 1 .. n /\ j <= s[j] /\ j \in Nat /\ s[j] \in Nat
    BY <1>4
  <2>2. pending[s[j]].iter = ongoing[s[j]] /\ s[j] <= pending[s[j]].i /\ pending[s[j]].i \in Nat
    BY <1>3, <2>1
  <2> QED
    BY <1>4, <2>1, <2>2
<1>10. Unmoved'
  <2> SUFFICES ASSUME NEW j \in 1 .. m, ongoing'[j] \notin moved'
               PROVE  /\ ongoing'[j] = j /\ pending'[j] = Promise(j, calls[j], j)
                      /\ \A k \in 1 .. j : ongoing'[k] \notin moved'
    BY <1>1, <1>4 DEF Unmoved
  <2>1. s[j] = j /\ j < i /\ j \in 1 .. n
    BY <1>4, <1>5
  <2>2. ongoing[j] \notin moved
    BY <1>4, <1>6, <2>1
  <2>3. /\ ongoing[j] = j /\ pending[j] = Promise(j, calls[j], j)
        /\ \A k \in 1 .. j : ongoing[k] \notin moved
    BY <1>3, <2>1, <2>2 DEF MergeInv, Unmoved
  <2>4. ASSUME NEW k \in 1 .. j PROVE ongoing'[k] \notin moved'
    <3>1. k \in 1 .. m /\ k < i /\ k \in 1 .. n /\ k \in Nat
      <4>1. n \in Nat /\ m \in Nat /\ i \in Nat
        BY <1>3, <1>4
      <4>2. j \in 1 .. m /\ j \in 1 .. n /\ j < i
        BY <2>1
      <4> QED
        BY <4>1, <4>2
    <3>2. s[k] = k
      BY <1>3, <1>4, <3>1
    <3>3. ongoing'[k] = ongoing[k] /\ ongoing[k] \notin moved
      BY <1>4, <2>3, <3>1, <3>2
    <3>4. ongoing[k] = k
      BY <1>3, <3>1, <3>3 DEF MergeInv, Unmoved
    <3>5. ASSUME NEW h \in 1 .. n, h > i PROVE ongoing[h] # k
      <4>1. CASE ongoing[h] \in moved
        BY <3>3, <3>4, <4>1
      <4>2. CASE ongoing[h] \notin moved
        <5>1. ongoing[h] = h
          BY <1>3, <4>2 DEF MergeInv, Unmoved
        <5> QED
          BY <1>3, <3>1, <3>5, <5>1
      <4> QED
        BY <4>1, <4>2
    <3> QED
      BY <1>1, <1>3, <3>3, <3>4, <3>5
  <2> QED
    BY <1>4, <2>1, <2>3, <2>4
<1>11. StillIn'
  <2> SUFFICES ASSUME NEW iter \in Iters, iter \notin moved', doneAt[iter] = 0
               PROVE  iter \in 1 .. m /\ ongoing'[iter] = iter
    BY <1>1, <1>4 DEF StillIn, Iters
  <2>1. iter \notin moved /\ iter \in 1 .. n /\ ongoing[iter] = iter /\ iter \in Nat
    BY <1>3, <1>6 DEF MergeInv, StillIn
  <2>2. ~ (iter > i)
    BY <1>5, <2>1
  <2>3. iter # i
    <3> SUFFICES ASSUME iter = i PROVE FALSE
      OBVIOUS
    <3>1. winner.iter \notin moved
      BY <1>2, <1>3, <2>1
    <3>2. winner.iter = i
      BY <1>2, <3>1
    <3> QED
      BY <2>1, <3>2
  <2>4. iter < i
    BY <1>3, <2>1, <2>2, <2>3
  <2>5. iter \in 1 .. m
    BY <1>3, <1>4, <2>1, <2>4
  <2>6. s[iter] = iter
    BY <1>3, <1>4, <2>4, <2>5
  <2> QED
    BY <1>4, <2>1, <2>5, <2>6
<1>12. WinnerCurrent'
  BY <1>1, <1>7 DEF WinnerCurrent
<1>13. Answered'
  BY <1>1 DEF MergeInv, Answered
<1>14. OnceInOrder'
  BY <1>1, <1>6 DEF MergeInv, OnceInOrder
<1> QED
  BY <1>8, <1>9, <1>10, <1>11, <1>12, <1>13, <1>14 DEF MergeInv

\* An event is written, and the slot its promise names is filled again, if there is one.
LEMMA RefillMergeInv ==
  ASSUME MergeInv, Deliver, Refill(winner),
         ~ (doneAt[winner.iter] # 0 /\ winner.call >= doneAt[winner.iter])
  PROVE  MergeInv'
<1> DEFINE n == Len(ongoing)
           i == winner.i
           c == winner.iter
<1>1. /\ Race(pending') /\ UNCHANGED <<settled, doneAt, left>> /\ winner # None
      /\ written' = [written EXCEPT ![c] = @ \cup {winner.call}]
      /\ again' = (IF \E a \in written[c] : a >= winner.call THEN again \cup {c} ELSE again)
      /\ ongoing' = ongoing /\ moved' = moved
      /\ i \in DOMAIN ongoing => Ask(i, ongoing[i])
      /\ i \notin DOMAIN ongoing => UNCHANGED <<calls, pending>>
  BY DEF Deliver, Refill, Write
<1>2. PICK w \in DOMAIN pending :
        /\ winner = pending[w] /\ c = ongoing[w] /\ c \in Iters /\ i \in Iters /\ w <= i
        /\ winner.call \in Nat
        /\ c \notin moved => i = w /\ c = w /\ winner.call = calls[c]
        /\ \A k \in DOMAIN ongoing : k >= i /\ ongoing[k] \notin moved => c \notin moved
  BY <1>1, WinnerSlot
<1>3. /\ ongoing \in Seq(Iters) /\ pending \in Seq(Promises) /\ Len(pending) = n /\ n \in Nat
      /\ DOMAIN pending = 1 .. n /\ DOMAIN ongoing = 1 .. n /\ Iters \subseteq Nat
      /\ Iters = 1 .. Handles /\ Handles \in Nat /\ MaxAnswers \in Nat
      /\ \A j \in 1 .. n : /\ pending[j].iter = ongoing[j] /\ j <= pending[j].i
                           /\ ongoing[j] \in Iters
      /\ i \in Nat /\ Len(ongoing) = n
      /\ calls \in [Iters -> Nat] /\ settled \in [Iters -> Nat] /\ doneAt \in [Iters -> Nat]
      /\ written \in [Iters -> SUBSET Nat] /\ again \subseteq Iters /\ left \in BOOLEAN
      /\ moved \subseteq Iters
  <2>1. /\ ongoing \in Seq(Iters) /\ pending \in Seq(Promises) /\ Len(pending) = n
        /\ calls \in [Iters -> Nat] /\ settled \in [Iters -> Nat] /\ doneAt \in [Iters -> Nat]
        /\ written \in [Iters -> SUBSET Nat] /\ again \subseteq Iters /\ left \in BOOLEAN
        /\ moved \subseteq Iters
    BY DEF MergeInv, MergeTypeOK, InSlots
  <2>2. /\ n \in Nat /\ DOMAIN pending = 1 .. n /\ DOMAIN ongoing = 1 .. n /\ Len(ongoing) = n
        /\ Iters = 1 .. Handles /\ Handles \in Nat /\ MaxAnswers \in Nat
    BY InSlot
  <2> HIDE DEF n
  <2>3. \A j \in 1 .. n : /\ pending[j].iter = ongoing[j] /\ j <= pending[j].i
                          /\ ongoing[j] \in Iters
    BY <2>2, InSlot
  <2>4. Iters \subseteq Nat
    BY <2>2
  <2> QED
    BY <1>2, <2>1, <2>2, <2>3, <2>4
<1>30. MaxAnswers \in Nat /\ n \in Nat /\ i \in Nat
  BY <1>3
<1>31. \A a \in Iters : /\ calls[a] \in Nat /\ settled[a] \in Nat /\ doneAt[a] \in Nat
                        /\ a \in Nat /\ calls[a] >= 1 /\ calls[a] <= MaxAnswers + 1
  <2>1. \A a \in Iters : calls[a] \in Nat /\ settled[a] \in Nat /\ doneAt[a] \in Nat /\ a \in Nat
    BY <1>3
  <2>2. \A a \in Iters : calls[a] \in 1 .. MaxAnswers + 1
    BY DEF MergeInv, Answered
  <2> QED
    BY <1>30, <2>1, <2>2
<1> HIDE DEF n, i, c
\* An event is one of the first MaxAnswers answers.
<1>4. winner.call <= MaxAnswers
  <2>1. winner.call <= settled[c]
    BY <1>1 DEF MergeInv, WinnerCurrent, c
  <2>2. /\ settled[c] <= MaxAnswers \/ doneAt[c] # 0
        /\ doneAt[c] <= MaxAnswers + 1
    BY <1>2 DEF MergeInv, Answered
  <2>4. settled[c] \in Nat /\ doneAt[c] \in Nat /\ winner.call \in Nat
    BY <1>2, <1>31
  <2>3. doneAt[c] = 0 \/ winner.call < doneAt[c]
    BY <2>4 DEF c
  <2> QED
    BY <1>30, <2>1, <2>2, <2>3, <2>4
<1>5. ASSUME NEW a \in Iters
      PROVE  /\ NextCall(a) \in 1 .. MaxAnswers + 1
             /\ calls[a] <= MaxAnswers => NextCall(a) = calls[a] + 1
  <2> QED
    BY <1>30, <1>31 DEF NextCall
\* The slot that is filled again, if there is one.
<1>6. ASSUME i \in 1 .. n
      PROVE  /\ calls' = [calls EXCEPT ![ongoing[i]] = NextCall(ongoing[i])]
             /\ pending' = [pending EXCEPT ![i] = Promise(ongoing[i], NextCall(ongoing[i]), i)]
             /\ Promise(ongoing[i], NextCall(ongoing[i]), i) \in Promises
             /\ ongoing[i] \in Iters
  <2>1. ongoing[i] \in Iters /\ NextCall(ongoing[i]) \in Nat
    BY <1>3, <1>5, <1>6
  <2> QED
    BY <1>1, <1>2, <1>3, <1>6, <2>1 DEF Ask, Promise, Promises
<1>7. /\ calls' \in [Iters -> Nat] /\ pending' \in Seq(Promises)
      /\ Len(pending') = n /\ DOMAIN pending' = 1 .. n
      /\ \A a \in Iters : calls'[a] = IF i \in 1 .. n /\ a = ongoing[i] THEN NextCall(a) ELSE calls[a]
      /\ \A j \in 1 .. n : pending'[j] = IF j = i THEN Promise(ongoing[i], NextCall(ongoing[i]), i)
                                         ELSE pending[j]
  <2>1. CASE i \in 1 .. n
    <3>0. ongoing[i] \in Iters
      BY <1>6, <2>1
    <3>1. NextCall(ongoing[i]) \in Nat
      BY <1>5, <1>30, <3>0
    <3>2. /\ calls' \in [Iters -> Nat]
          /\ \A a \in Iters : calls'[a] = IF a = ongoing[i] THEN NextCall(a) ELSE calls[a]
      <4>1. calls \in [Iters -> Nat]
        BY <1>3
      <4>2. calls' = [calls EXCEPT ![ongoing[i]] = NextCall(ongoing[i])]
        BY <1>6, <2>1
      <4> QED
        BY <3>0, <3>1, <4>1, <4>2
    <3>3. /\ pending' \in Seq(Promises) /\ Len(pending') = n /\ DOMAIN pending' = 1 .. n
          /\ \A j \in 1 .. n : pending'[j] = IF j = i THEN Promise(ongoing[i], NextCall(ongoing[i]), i)
                                             ELSE pending[j]
      <4>1. pending \in Seq(Promises) /\ Len(pending) = n /\ DOMAIN pending = 1 .. n
        BY <1>3
      <4> DEFINE f == Promise(ongoing[i], NextCall(ongoing[i]), i)
      <4>2. pending' = [pending EXCEPT ![i] = f] /\ f \in Promises
        BY <1>6, <2>1
      <4> HIDE DEF f
      <4>3. pending' \in Seq(Promises) /\ Len(pending') = n /\ DOMAIN pending' = 1 .. n
        BY <2>1, <4>1, <4>2
      <4>4. \A j \in 1 .. n : pending'[j] = IF j = i THEN f ELSE pending[j]
        BY <2>1, <4>1, <4>2
      <4> QED
        BY <4>3, <4>4 DEF f
    <3> QED
      BY <2>1, <3>2, <3>3
  <2>2. CASE i \notin 1 .. n
    BY <1>1, <1>3, <2>2
  <2> QED
    BY <2>1, <2>2
<1>8. /\ winner' = None \/ \E j \in DOMAIN pending' : /\ winner' = pending'[j]
                                                       /\ pending'[j].call <= settled[pending'[j].iter]
      /\ loop' \in {"racing", "over"}
  BY <1>1, <1>3, <1>7, RaceWinner
<1>9. MergeTypeOK'
  <2>1. winner' \in Promises \cup {None}
    BY <1>7, <1>8
  <2>2. written' \in [Iters -> SUBSET Nat] /\ again' \subseteq Iters
    BY <1>1, <1>2, <1>3
  <2> QED
    BY <1>1, <1>3, <1>7, <1>8, <2>1, <2>2 DEF MergeTypeOK
<1>10. InSlots'
  <2> SUFFICES ASSUME NEW j \in 1 .. n PROVE pending'[j].iter = ongoing[j] /\ j <= pending'[j].i
    BY <1>1, <1>3, <1>7 DEF InSlots
  <2>1. CASE j = i
    <3>1. pending'[i] = Promise(ongoing[i], NextCall(ongoing[i]), i)
      BY <1>7, <2>1
    <3>2. pending'[i].iter = ongoing[i] /\ pending'[i].i = i
      BY <3>1 DEF Promise
    <3> QED
      BY <1>30, <2>1, <3>2
  <2>2. CASE j # i
    BY <1>3, <1>7, <2>2
  <2> QED
    BY <2>1, <2>2
\* A stream that was not moved is asked again only for its own event.
<1>11. ASSUME NEW a \in Iters, a \notin moved, i \in 1 .. n, a = ongoing[i]
       PROVE  c = a /\ i = a /\ winner.call = calls[a] /\ calls'[a] = calls[a] + 1
  <2>1. c \notin moved
    <3>1. i \in DOMAIN ongoing /\ i >= i /\ ongoing[i] \notin moved
      BY <1>3, <1>11
    <3> QED
      BY <1>2, <3>1
  <2>2. i = w /\ c = w /\ c = ongoing[w] /\ winner.call = calls[c]
    BY <1>2, <2>1
  <2> QED
    BY <1>4, <1>5, <1>7, <1>11, <2>2
<1>12. Unmoved'
  <2> SUFFICES ASSUME NEW j \in 1 .. n, ongoing[j] \notin moved
               PROVE  ongoing[j] = j /\ pending'[j] = Promise(j, calls'[j], j)
                      /\ \A k \in 1 .. j : ongoing[k] \notin moved
    BY <1>1, <1>3 DEF Unmoved
  <2>1. ongoing[j] = j /\ pending[j] = Promise(j, calls[j], j)
        /\ \A k \in 1 .. j : ongoing[k] \notin moved
    BY <1>3 DEF MergeInv, Unmoved
  <2>2. j \in Iters
    BY <1>3, <2>1
  <2>3. CASE j = i
    <3>1. pending'[j] = Promise(j, NextCall(j), j) /\ calls'[j] = NextCall(j)
      BY <1>7, <2>1, <2>2, <2>3
    <3> QED
      BY <2>1, <3>1
  <2>4. CASE j # i
    <3>1. i \in 1 .. n => ongoing[i] # j
      BY <1>11, <2>1, <2>2, <2>4
    <3> QED
      BY <1>7, <2>1, <2>2, <2>4, <3>1
  <2> QED
    BY <2>1, <2>3, <2>4
<1>13. StillIn'
  BY <1>1 DEF MergeInv, StillIn, Iters
<1>14. WinnerCurrent'
  BY <1>1, <1>8 DEF WinnerCurrent
<1>15. Answered'
  <2> SUFFICES ASSUME NEW a \in Iters PROVE calls'[a] \in 1 .. MaxAnswers + 1
    BY <1>1 DEF MergeInv, Answered
  <2> QED
    BY <1>5, <1>7 DEF MergeInv, Answered
<1>16. OnceInOrder'
  <2> SUFFICES ASSUME NEW a \in Iters, a \notin moved
               PROVE  a \notin again' /\ written'[a] = 1 .. calls'[a] - 1
    BY <1>1 DEF OnceInOrder, Iters
  <2>1. a \notin again /\ written[a] = 1 .. calls[a] - 1
    BY DEF MergeInv, OnceInOrder
  <2>2. CASE a = c
    <3>1. i = w /\ c = w /\ c = ongoing[w] /\ winner.call = calls[c]
      BY <1>2, <2>2
    <3>2. i \in 1 .. n /\ a = ongoing[i]
      BY <1>3, <2>2, <3>1
    <3>3. winner.call = calls[a] /\ calls'[a] = calls[a] + 1
      BY <1>11, <3>2
    <3>4. calls[a] \in Nat /\ calls[a] >= 1
      BY <1>31
    <3>5. a \notin again'
      <4>1. ~ (\E b \in written[c] : b >= winner.call)
        BY <1>3, <2>1, <2>2, <3>3, <3>4
      <4> QED
        BY <1>1, <2>1, <4>1
    <3>6. written'[a] = (1 .. calls[a] - 1) \cup {calls[a]}
      BY <1>1, <1>2, <1>3, <2>1, <2>2, <3>3
    <3>7. (1 .. calls[a] - 1) \cup {calls[a]} = 1 .. (calls[a] + 1) - 1
      BY <3>4
    <3> QED
      BY <3>3, <3>5, <3>6, <3>7
  <2>3. CASE a # c
    <3>1. ~ (i \in 1 .. n /\ a = ongoing[i])
      BY <1>11, <2>3
    <3>2. calls'[a] = calls[a] /\ written'[a] = written[a] /\ a \notin again'
      BY <1>1, <1>3, <1>7, <2>1, <2>3, <3>1
    <3> QED
      BY <2>1, <3>2
  <2> QED
    BY <2>2, <2>3
<1> QED
  BY <1>9, <1>10, <1>12, <1>13, <1>14, <1>15, <1>16 DEF MergeInv

LEMMA NextMergeInv == MergeInv /\ [MergeNext]_mergeVars => MergeInv'
<1> SUFFICES ASSUME MergeInv, [MergeNext]_mergeVars PROVE MergeInv'
  OBVIOUS
<1>1. CASE Deliver
  <2>1. \/ doneAt[winner.iter] # 0 /\ Remove(winner)
        \/ /\ ~ (doneAt[winner.iter] # 0 /\ winner.call >= doneAt[winner.iter])
           /\ Refill(winner)
    BY <1>1 DEF Deliver
  <2> QED
    BY <1>1, <2>1, RemoveMergeInv, RefillMergeInv
<1>2. CASE Disconnect
  <2>1. UNCHANGED <<ongoing, pending, calls, settled, doneAt, winner, written, again, moved, loop>>
    BY <1>2 DEF Disconnect
  <2>2. left' \in BOOLEAN
    BY <1>2, Zenon DEF Disconnect
  <2> QED
    BY <2>1, <2>2 DEF MergeInv, MergeTypeOK, InSlots, Unmoved, StillIn, WinnerCurrent, Answered, OnceInOrder
<1>3. ASSUME NEW iter \in Iters, Settle(iter) PROVE MergeInv'
  BY <1>3, SettleMergeInv
<1>4. CASE UNCHANGED mergeVars
  BY <1>4 DEF mergeVars, MergeInv, MergeTypeOK, InSlots, Unmoved, StillIn, WinnerCurrent, Answered, OnceInOrder
<1> QED
  BY <1>1, <1>2, <1>3, <1>4 DEF MergeNext

LEMMA MergeInvHolds == MergeInv => RaceWellFormed /\ OnceInOrder
<1> SUFFICES ASSUME MergeInv PROVE RaceWellFormed
  BY DEF MergeInv
<1>1. MergeTypeOK /\ SameSlots
  BY DEF MergeInv, InSlots, SameSlots
<1>2. ASSUME NEW iter \in Iters \ moved, doneAt[iter] = 0
      PROVE  \E j \in DOMAIN pending :
               ongoing[j] = iter /\ pending[j] = Promise(iter, calls[iter], j)
  <2>1. iter \in DOMAIN ongoing /\ ongoing[iter] = iter
    BY <1>2 DEF MergeInv, StillIn
  <2>2. pending[iter] = Promise(iter, calls[iter], iter)
    BY <2>1 DEF MergeInv, Unmoved
  <2>3. iter \in DOMAIN pending
    BY <2>1, InSlot
  <2> QED
    BY <2>1, <2>2, <2>3
<1> QED
  BY <1>1, <1>2 DEF RaceWellFormed, EveryStreamRaces

-----------------------------------------------------------------------------
\* Whoever ends, and in whatever order, the two arrays of the loop belong together slot
\* by slot, and a stream no splice has moved has its newest call in the race, in the
\* slot its answer refills, until it says "done".
THEOREM EveryStreamKeepsRacing == MergeSpec => []RaceWellFormed
  BY InitMergeInv, NextMergeInv, MergeInvHolds, PTL DEF MergeSpec

\* The events of a stream no splice has moved are written in its order, each once and
\* none left out, whatever happens to the streams above it.
THEOREM DeliveredOnceInOrder == MergeSpec => []OnceInOrder
  BY InitMergeInv, NextMergeInv, MergeInvHolds, PTL DEF MergeSpec
==============================================================================
