---------------------------- MODULE Connections ----------------------------
(***************************************************************************)
(* The registry of realtime connections (connection-manager.ts) with the   *)
(* SSE handler that opens them (sse-handler.ts, handle) and the map of     *)
(* subscriptions per connection (subscription-manager.ts).  A request      *)
(* registers its connection, awaits the audit write and the schema, then   *)
(* subscribes and streams; clients leave, sessions and memberships are     *)
(* revoked and timers fire in between.                                     *)
(*                                                                         *)
(* A connection is named after the request that opens it.  What a stream   *)
(* delivers is in ChangeFeed and SseMerge; here it runs until it ends.     *)
(***************************************************************************)
EXTENDS Naturals, FiniteSets

CONSTANTS
  Clients,        \* requests, one connection each
  Workspaces, Principals,
  Workspace,      \* the workspace of a request
  Principal,      \* the principal of a request
  Declared,       \* the subscriptions a request declares
  MAX_CONNECTIONS_PER_WORKSPACE,
  MAX_CONNECTIONS_PER_PRINCIPAL,
  MAX_SUBS_PER_CONNECTION,
  CloseSeen       \* the framework sees every client leave

ASSUME RequestsAssumption ==
  /\ Workspace \in [Clients -> Workspaces] /\ Principal \in [Clients -> Principals]
  /\ \A c \in Clients : IsFiniteSet(Declared[c])
ASSUME LimitsAssumption ==
  {MAX_CONNECTIONS_PER_WORKSPACE, MAX_CONNECTIONS_PER_PRINCIPAL,
   MAX_SUBS_PER_CONNECTION} \subseteq Nat
ASSUME EnvironmentAssumption == CloseSeen \in BOOLEAN

VARIABLES
  connections,    \* the ids registered
  byWorkspace, byPrincipal,
  stale,          \* registered, and no heartbeat for IDLE_TIMEOUT_MS
  subscriptions,  \* what the map holds for a connection
  resumeState,    \* <<connection, subscription>> kept for resume
  generators,     \* the streams of a connection that have not ended
  handler,        \* where handle() stands
  disconnected,   \* connState.disconnected
  gone,           \* the client has left
  forced          \* connections closed for another reason than the client

vars == <<connections, byWorkspace, byPrincipal, stale, subscriptions, resumeState,
          generators, handler, disconnected, gone, forced>>

Subs == UNION {Declared[c] : c \in Clients}

Init ==
  /\ connections = {} /\ stale = {} /\ resumeState = {}
  /\ byWorkspace = [w \in Workspaces |-> {}]
  /\ byPrincipal = [p \in Principals |-> {}]
  /\ subscriptions = [c \in Clients |-> {}]
  /\ generators = [c \in Clients |-> {}]
  /\ handler = [c \in Clients |-> "new"]
  /\ disconnected = {} /\ gone = {} /\ forced = {}

-----------------------------------------------------------------------------
\* Mutant: the limit of a principal lets one more in.
RoomForOneMore(c) ==
  /\ Cardinality(byWorkspace[Workspace[c]]) < MAX_CONNECTIONS_PER_WORKSPACE
  /\ Cardinality(byPrincipal[Principal[c]]) <= MAX_CONNECTIONS_PER_PRINCIPAL

Room(c) ==
  /\ Cardinality(byWorkspace[Workspace[c]]) < MAX_CONNECTIONS_PER_WORKSPACE
  /\ Cardinality(byPrincipal[Principal[c]]) < MAX_CONNECTIONS_PER_PRINCIPAL

\* The checks and the insertions, up to the await of the audit write.
register(c) ==
  /\ handler[c] = "new"
  /\ \/ /\ Room(c)
        /\ handler' = [handler EXCEPT ![c] = "opening"]
        /\ connections' = connections \cup {c}
        /\ byWorkspace' = [byWorkspace EXCEPT ![Workspace[c]] = @ \cup {c}]
        /\ byPrincipal' = [byPrincipal EXCEPT ![Principal[c]] = @ \cup {c}]
     \/ /\ ~Room(c)
        /\ handler' = [handler EXCEPT ![c] = "ended"]
        /\ UNCHANGED <<connections, byWorkspace, byPrincipal>>
  /\ UNCHANGED <<stale, subscriptions, resumeState, generators, disconnected,
                 gone, forced>>

\* Mutants: the indexes keep closed connections; an idle connection is kept for
\* resume like one its client left.
CloseKeepsIndexes(ids, force) ==
  LET open == ids \cap connections IN
  /\ connections' = connections \ open
  /\ stale' = stale \ open
  /\ subscriptions' = [c \in Clients |-> IF c \in open THEN {} ELSE subscriptions[c]]
  /\ resumeState' = IF force THEN resumeState
                    ELSE resumeState \cup UNION {{c} \X subscriptions[c] : c \in open}
  /\ forced' = IF force THEN forced \cup open ELSE forced
  /\ UNCHANGED <<byWorkspace, byPrincipal>>
CloseAlwaysDetaches(ids, force) ==
  LET open == ids \cap connections IN
  /\ connections' = connections \ open
  /\ stale' = stale \ open
  /\ byWorkspace' = [w \in Workspaces |-> byWorkspace[w] \ open]
  /\ byPrincipal' = [p \in Principals |-> byPrincipal[p] \ open]
  /\ subscriptions' = [c \in Clients |-> IF c \in open THEN {} ELSE subscriptions[c]]
  /\ resumeState' = resumeState \cup UNION {{c} \X subscriptions[c] : c \in open}
  /\ forced' = IF force THEN forced \cup open ELSE forced
\* Mutant: only one kind of close empties the subscriptions map.
CloseLeavesSubscriptions(ids, force) ==
  LET open == ids \cap connections IN
  /\ connections' = connections \ open
  /\ stale' = stale \ open
  /\ byWorkspace' = [w \in Workspaces |-> byWorkspace[w] \ open]
  /\ byPrincipal' = [p \in Principals |-> byPrincipal[p] \ open]
  /\ resumeState' = IF force THEN resumeState
                    ELSE resumeState \cup UNION {{c} \X subscriptions[c] : c \in open}
  /\ forced' = IF force THEN forced \cup open ELSE forced
  /\ UNCHANGED subscriptions

\* close() of every id still registered: cancelAllForConnection or, when the
\* client left, detachConnection; then the three maps.
Close(ids, force) ==
  LET open == ids \cap connections IN
  /\ connections' = connections \ open
  /\ stale' = stale \ open
  /\ byWorkspace' = [w \in Workspaces |-> byWorkspace[w] \ open]
  /\ byPrincipal' = [p \in Principals |-> byPrincipal[p] \ open]
  /\ subscriptions' = [c \in Clients |-> IF c \in open THEN {} ELSE subscriptions[c]]
  /\ resumeState' = IF force THEN resumeState
                    ELSE resumeState \cup UNION {{c} \X subscriptions[c] : c \in open}
  /\ forced' = IF force THEN forced \cup open ELSE forced

-----------------------------------------------------------------------------
\* The awaits are over: the close handler is registered, then every declaration
\* is subscribed as long as there is room.  subscribe() knows nothing of the
\* registry.
open(c) ==
  /\ handler[c] = "opening"
  /\ \E S \in SUBSET Declared[c] :
       /\ S # {}
       /\ Cardinality(S) = MAX_SUBS_PER_CONNECTION
            \/ (S = Declared[c] /\ Cardinality(S) < MAX_SUBS_PER_CONNECTION)
       /\ subscriptions' = [subscriptions EXCEPT ![c] = S]
       /\ generators' = [generators EXCEPT ![c] = S]
  /\ handler' = [handler EXCEPT ![c] = "streaming"]
  /\ UNCHANGED <<connections, byWorkspace, byPrincipal, stale, resumeState,
                 disconnected, gone, forced>>

\* No such schema or table, or nothing declared.
openFails(c) ==
  /\ handler[c] = "opening"
  /\ handler' = [handler EXCEPT ![c] = "ended"]
  /\ Close({c}, FALSE)
  /\ UNCHANGED <<generators, disconnected, gone>>

clientLeaves(c) ==
  /\ handler[c] # "new" /\ c \notin gone
  /\ gone' = gone \cup {c}
  /\ UNCHANGED <<connections, byWorkspace, byPrincipal, stale, subscriptions,
                 resumeState, generators, handler, disconnected, forced>>

\* The framework calls the handler that open() registered.
onClose(c) ==
  /\ CloseSeen
  /\ handler[c] = "streaming" /\ c \in gone /\ c \notin disconnected
  /\ disconnected' = disconnected \cup {c}
  /\ Close({c}, FALSE)
  /\ UNCHANGED <<generators, handler, gone>>

\* A generator returns: its change stream failed, or brought the event at which
\* it sees that it was aborted.  mergeAndDeliver returns with the last one, or
\* with the first after the client is known to have left.
streamEnds(c, k) ==
  /\ k \in generators[c]
  /\ generators' = [generators EXCEPT ![c] = @ \ {k}]
  /\ handler' = [handler EXCEPT ![c] =
                   IF generators'[c] = {} \/ c \in disconnected THEN "ended" ELSE @]
  /\ UNCHANGED <<connections, byWorkspace, byPrincipal, stale, subscriptions,
                 resumeState, disconnected, gone, forced>>

sessionRevoked(p) ==
  /\ byPrincipal[p] # {}
  /\ Close(byPrincipal[p], TRUE)
  /\ UNCHANGED <<generators, handler, disconnected, gone>>

memberRemoved(p, w) ==
  LET ids == {c \in byWorkspace[w] : Principal[c] = p} IN
  /\ ids # {}
  /\ Close(ids, TRUE)
  /\ UNCHANGED <<generators, handler, disconnected, gone>>

\* Mutant: the timer's list is not the registry.
goesStaleUnregistered(c) ==
  /\ c \notin stale /\ handler[c] = "ended"
  /\ stale' = stale \cup {c}
  /\ UNCHANGED <<connections, byWorkspace, byPrincipal, subscriptions, resumeState,
                 generators, handler, disconnected, gone, forced>>

\* IDLE_TIMEOUT_MS pass without a heartbeat.  While the handler streams, its
\* interval of SSE_HEARTBEAT_INTERVAL_MS beats for the client.
goesStale(c) ==
  /\ c \in connections /\ c \notin stale
  /\ handler[c] # "streaming"
  /\ stale' = stale \cup {c}
  /\ UNCHANGED <<connections, byWorkspace, byPrincipal, subscriptions, resumeState,
                 generators, handler, disconnected, gone, forced>>

\* Mutant: the timer finds no connection idle.
evictNone == FALSE /\ UNCHANGED vars
evictIdleConnections ==
  /\ stale # {}
  /\ Close(stale, TRUE)
  /\ UNCHANGED <<generators, handler, disconnected, gone>>

Next ==
  \/ \E c \in Clients : \/ register(c) \/ open(c) \/ openFails(c)
                        \/ clientLeaves(c) \/ onClose(c) \/ goesStale(c)
  \/ \E c \in Clients, k \in Subs : streamEnds(c, k)
  \/ \E p \in Principals : sessionRevoked(p)
  \/ \E p \in Principals, w \in Workspaces : memberRemoved(p, w)
  \/ evictIdleConnections

Spec == Init /\ [][Next]_vars

\* Awaits return, the timers run and the framework reports what it sees.
FairSpec ==
  /\ Spec
  /\ \A c \in Clients : /\ WF_vars(open(c) \/ openFails(c))
                        /\ WF_vars(onClose(c)) /\ WF_vars(goesStale(c))
  /\ WF_vars(evictIdleConnections)
-----------------------------------------------------------------------------
\* Every variable has its type.
TypeOK ==
  /\ connections \subseteq Clients /\ stale \subseteq connections
  /\ byWorkspace \in [Workspaces -> SUBSET Clients]
  /\ byPrincipal \in [Principals -> SUBSET Clients]
  /\ subscriptions \in [Clients -> SUBSET Subs]
  /\ resumeState \subseteq Clients \X Subs
  /\ generators \in [Clients -> SUBSET Subs]
  /\ handler \in [Clients -> {"new", "opening", "streaming", "ended"}]
  /\ disconnected \subseteq gone /\ gone \subseteq Clients /\ forced \subseteq Clients

\* The two indexes hold exactly the registered connections, so the limits that
\* are checked against them count what is there.
IndexesAgree ==
  /\ \A w \in Workspaces : byWorkspace[w] = {c \in connections : Workspace[c] = w}
  /\ \A p \in Principals : byPrincipal[p] = {c \in connections : Principal[c] = p}

\* No workspace and no principal has more connections than it may, however
\* registrations interleave with their audit writes.
LimitsHold ==
  /\ \A w \in Workspaces :
       Cardinality({c \in connections : Workspace[c] = w}) <= MAX_CONNECTIONS_PER_WORKSPACE
  /\ \A p \in Principals :
       Cardinality({c \in connections : Principal[c] = p}) <= MAX_CONNECTIONS_PER_PRINCIPAL

\* Subscriptions belong to a registered connection, so whoever closes it reaches
\* them; the one exception is a connection the server closed.
OrphansWereForced ==
  \A c \in Clients : subscriptions[c] # {} => c \in connections \cup forced

\* A connection the server closed leaves nothing to resume.
ForcedLeavesNothing == \A c \in forced, k \in Subs : <<c, k>> \notin resumeState

\* A client that has left, and a request that is over, give their connection
\* back, and with it the place under the limits.
PlacesComeBack ==
  \A c \in Clients : (c \in gone \/ handler[c] = "ended") ~> c \notin connections

\* What the limits are checked against is what there is.
PlacesCounted == TypeOK /\ IndexesAgree /\ LimitsHold

\* A close leaves nothing behind that nobody reaches.
ClosedForGood == OrphansWereForced /\ ForcedLeavesNothing
=============================================================================
