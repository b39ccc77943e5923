----------------------------- MODULE Tenancy_proofs -----------------------------
(***************************************************************************)
(* Proofs about Tenancy, for any number of requests, users, roles,         *)
(* workspaces and invitations.  The invariant says what a request knows at *)
(* its place (Stands), which holds until a write of another request makes  *)
(* it stale; whose roles are being changed, and how far (RolesOf); and who *)
(* joined by an invitation (JoinOf).  These are stated one request, one    *)
(* member and one invitation at a time, over the rows they look at.        *)
(***************************************************************************)
EXTENDS Tenancy, FiniteSetTheorems, TLAPS

-----------------------------------------------------------------------------
\* Where roles are being granted or taken, and whose.
Grants(r, p) == r.at \in {"grant", "revokeRole", "mark"} /\ <<r.w, r.user>> = p

\* The roles of a member while r changes them, when it was reported to have rep.
Due(r, rep) ==
  CASE r.at = "grant"      -> rep \cup (r.add \ r.left)
    [] r.at = "revokeRole" -> (rep \cup r.add) \ (r.remove \ r.left)
    [] OTHER               -> rep \cup r.add

Accepts(r, i) == r.op = "accept" /\ r.inv = i /\ r.at # "read"
Joins(r, i)   == Accepts(r, i) /\ r.at \in {"grant", "mark"}
Open(inv)     == inv.state = "live" /\ inv.acceptedBy = NoUser

\* What a request has been given, by its operation and its place.
Shape(r) ==
  /\ r.op = "none" <=> r.at = "idle"
  /\ r.at = "join" => r.op \in {"add", "accept"}
  /\ r.at = "grant" => r.op \in {"add", "change", "accept"}
  /\ r.at = "revokeRole" => r.op \in {"add", "change"}
  /\ r.at = "mark" => r.op = "accept"
  /\ r.op \in {"create", "transfer", "add", "change", "remove", "accept", "acceptInvitation"}
       => r.user \in Users
  /\ r.op = "create" => r.name \in Slugs
  /\ r.op = "invite" => r.name \in Emails
  /\ r.op \in {"accept", "acceptInvitation", "revoke"} <=> r.inv \in Invitations
  /\ r.op \in {"add", "accept", "acceptInvitation"} => r.remove = {}
  /\ r.at = "grant" => r.left \subseteq r.add
  /\ r.at = "revokeRole" => r.left \subseteq r.remove

\* What a request knows of its invitation, in the workspace of this row: unless
\* it has gone stale, the invitation is as it was when the request read it.
InvitationHeld(r, inv, row) ==
  /\ inv.state # "none" /\ inv.workspace = r.w
  /\ r.op = "accept" /\ r.at # "read" /\ ~r.stale => inv.acceptedBy = NoUser
  /\ r.at = "join" /\ ~r.stale =>
       (Open(inv) /\ ~inv.expired) \/ row.state = "deleted"
  /\ r.op = "acceptInvitation" /\ r.at = "write" =>
       /\ r.version <= inv.version
       /\ r.version = inv.version => inv.acceptedBy = NoUser

\* An invitation that is about to be inserted finds no open one for its address.
AddressFree(r, inv) ==
  r.op = "invite" /\ r.at = "insert" /\ ~r.stale /\ Open(inv)
    => ~ (inv.workspace = r.w /\ inv.email = r.name)

\* What a request that removes a member, or hands the workspace over, has seen.
OwnerHeld(r, row, active) ==
  /\ r.op = "transfer" \/ (r.op = "remove" /\ r.at \in {"count", "write"})
       => row.state # "none"
  /\ r.op = "remove" /\ r.at = "write" /\ ~r.stale /\ row.state = "live"
       /\ row.owner = r.user => \E v \in active : v # r.user
  /\ r.op = "transfer" /\ r.at = "write" /\ ~r.stale => r.user \in active

ActiveIn(M, w) == {u \in Users : M[<<w, u>>].status = "active"}

\* All of it, over the tables W, M and I.
Stands(r, W, M, I) ==
  /\ Shape(r)
  /\ r.inv \in Invitations => InvitationHeld(r, I[r.inv], W[r.w])
  /\ \A j \in Invitations : AddressFree(r, I[j])
  /\ OwnerHeld(r, W[r.w], ActiveIn(M, r.w))

Requests == \A c \in Callers : Stands(call[c], workspaces, members, invitations)

Unused == \A i \in Invitations : invitations[i].state = "none" => invitations[i].acceptedBy = NoUser

\* At most one request changes the roles of p, and they are what is due at its
\* place; when none does, they are those p was reported to have.
RolesOf(p) ==
  /\ \A c, d \in Callers : Grants(call[c], p) /\ Grants(call[d], p) => c = d
  /\ \A c \in Callers : Grants(call[c], p) =>
       members[p].status # "none" /\ LiveGrants(p) = Due(call[c], reported[p])
  /\ (\A c \in Callers : ~Grants(call[c], p)) => LiveGrants(p) = reported[p]

\* Who joined by i is the only one; either its request has not marked i yet, or i
\* is closed and every other request to accept it has gone stale.
JoinOf(i) == joined[i] # {} =>
  /\ \E u \in Users : joined[i] = {u}
  /\ invitations[i].state # "none"
  /\ \/ \E c \in Callers : Joins(call[c], i)
     \/ /\ ~Open(invitations[i])
        /\ \A c \in Callers : Accepts(call[c], i) => call[c].stale

IInv ==
  /\ TypeOK /\ Requests /\ Unused
  /\ \A p \in Memberships \ unsure : RolesOf(p)
  /\ \A i \in Invitations \ contested : JoinOf(i)

-----------------------------------------------------------------------------
\* Requests: their fields, and how a step changes them.
LEMMA Bounds ==
  /\ MaxWorkspaces \in Nat \ {0} /\ MaxInvitations \in Nat \ {0}
  /\ MaxCalls \in Nat /\ MaxFailures \in Nat
  /\ 1 \in Workspaces /\ 1 \in Invitations /\ None \notin Invitations
  /\ Workspaces \subseteq Nat /\ Invitations \subseteq Nat
BY BoundsAssumption DEF Workspaces, Invitations, None

LEMMA RowFields ==
  ASSUME NEW r \in CallRow
  PROVE  /\ r.w \in Workspaces /\ r.to \in Workspaces /\ r.user \in Users \cup {NoUser}
         /\ r.inv \in Invitations \cup {None}
         /\ r.name \in Slugs \cup Emails \cup {NoName} /\ r.add \in SUBSET Roles
         /\ r.remove \in SUBSET Roles /\ r.left \in SUBSET Roles
         /\ r.version \in Nat /\ r.stale \in BOOLEAN
BY DEF CallRow

Stale(r) == [r EXCEPT !.stale = TRUE]

LEMMA StaleRow ==
  ASSUME NEW r \in CallRow
  PROVE  /\ Stale(r) \in CallRow /\ Stale(r).stale
         /\ Stale(r).op = r.op /\ Stale(r).at = r.at /\ Stale(r).w = r.w
         /\ Stale(r).user = r.user /\ Stale(r).inv = r.inv /\ Stale(r).name = r.name
         /\ Stale(r).add = r.add /\ Stale(r).remove = r.remove /\ Stale(r).left = r.left
         /\ Stale(r).version = r.version
BY Zenon DEF CallRow, Stale

LEMMA IdleRow ==
  /\ Idle \in CallRow
  /\ Idle.op = "none" /\ Idle.at = "idle" /\ Idle.inv = None
<1>1. 1 \in Workspaces /\ None \in Invitations \cup {None} /\ NoUser \in Users \cup {NoUser}
      /\ NoName \in Slugs \cup Emails \cup {NoName} /\ {} \in SUBSET Roles /\ 1 \in Nat
  BY Bounds
<1>2. FALSE \in BOOLEAN
  OBVIOUS
<1>3. Idle \in CallRow
  BY <1>1, <1>2 DEF Idle, CallRow
<1> QED
  BY <1>3 DEF Idle

\* A request moves on without new data, except what it was given to grant.
LEMMA MovedRow ==
  ASSUME NEW r \in CallRow, NEW place,
         place \in {"idle", "read", "insert", "reason", "write", "join", "grant",
                    "revokeRole", "mark", "workspace", "count"}
  PROVE  LET q == [r EXCEPT !.at = place] IN
         /\ q \in CallRow /\ q.at = place
         /\ q.op = r.op /\ q.w = r.w /\ q.user = r.user /\ q.inv = r.inv
         /\ q.name = r.name /\ q.add = r.add /\ q.remove = r.remove /\ q.left = r.left
         /\ q.version = r.version /\ q.stale = r.stale
BY ZenonT(60) DEF CallRow

\* The other requests D go stale, and nothing else happens to other requests.
Rest(c, D) ==
  /\ call' \in [Callers -> CallRow]
  /\ \A d \in Callers : d # c => call'[d] = IF d \in D THEN Stale(call[d]) ELSE call[d]

LEMMA GotoRest ==
  ASSUME IInv, NEW c \in Callers, NEW r \in CallRow, call' = [call EXCEPT ![c] = r]
  PROVE  Rest(c, {}) /\ call'[c] = r
BY DEF IInv, TypeOK, Rest

LEMMA FinishRest ==
  ASSUME IInv, NEW c \in Callers, Finish(c)
  PROVE  Rest(c, {}) /\ call'[c] = Idle
BY IdleRow, GotoRest DEF Finish

LEMMA FinishUnderRest ==
  ASSUME IInv, NEW c \in Callers, NEW D, FinishUnder(c, D)
  PROVE  Rest(c, D) /\ call'[c] = Idle
<1>1. call \in [Callers -> CallRow]
  BY DEF IInv, TypeOK
<1>2. call' = [d \in Callers |-> CASE d = c -> Idle
                                   [] d # c /\ d \in D -> Stale(call[d])
                                   [] OTHER -> call[d]]
  BY DEF FinishUnder, Stale
<1>3. \A d \in Callers : call[d] \in CallRow /\ Stale(call[d]) \in CallRow
  BY <1>1, StaleRow
<1>4. \A d \in Callers : call'[d] = IF d = c THEN Idle ELSE IF d \in D THEN Stale(call[d]) ELSE call[d]
  BY <1>2
<1>5. call' \in [Callers -> CallRow]
  BY <1>2, <1>3, <1>4, IdleRow
<1> QED
  BY <1>4, <1>5 DEF Rest

\* What the others are granting and accepting does not change with staleness.
LEMMA RestFields ==
  ASSUME IInv, NEW c, NEW D, Rest(c, D), NEW d \in Callers, d # c
  PROVE  /\ call[d] \in CallRow /\ call'[d] \in CallRow
         /\ call'[d].op = call[d].op /\ call'[d].at = call[d].at /\ call'[d].w = call[d].w
         /\ call'[d].user = call[d].user /\ call'[d].inv = call[d].inv
         /\ call'[d].name = call[d].name /\ call'[d].add = call[d].add
         /\ call'[d].remove = call[d].remove /\ call'[d].left = call[d].left
         /\ call'[d].version = call[d].version
         /\ (call[d].stale => call'[d].stale) /\ (d \in D => call'[d].stale)
         /\ (d \notin D => call'[d] = call[d])
<1>1. call[d] \in CallRow /\ call'[d] \in CallRow
  BY DEF Rest, IInv, TypeOK
<1>2. CASE d \in D
  BY <1>1, <1>2, StaleRow DEF Rest
<1>3. CASE d \notin D
  BY <1>1, <1>3 DEF Rest
<1> QED
  BY <1>1, <1>2, <1>3
-----------------------------------------------------------------------------
\* What a request knows when the rows it looks at change.
LEMMA StandsStale ==
  ASSUME NEW r \in CallRow, NEW W, NEW M, NEW I, Stands(r, W, M, I)
  PROVE  Stands(Stale(r), W, M, I)
<1> DEFINE q == Stale(r)
<1>1. /\ q.stale
      /\ q.op = r.op /\ q.at = r.at /\ q.w = r.w /\ q.user = r.user /\ q.inv = r.inv
      /\ q.name = r.name /\ q.add = r.add /\ q.remove = r.remove /\ q.left = r.left
      /\ q.version = r.version
  BY StaleRow
<1> HIDE DEF q
<1>2. Shape(q)
  BY <1>1 DEF Stands, Shape
<1>3. q.inv \in Invitations => InvitationHeld(q, I[q.inv], W[q.w])
  BY <1>1 DEF Stands, InvitationHeld
<1>4. \A j \in Invitations : AddressFree(q, I[j])
  BY <1>1 DEF AddressFree
<1>5. OwnerHeld(q, W[q.w], ActiveIn(M, q.w))
  BY <1>1 DEF Stands, OwnerHeld
<1>6. Stands(q, W, M, I)
  BY <1>2, <1>3, <1>4, <1>5 DEF Stands
<1> QED
  BY <1>6 DEF q

\* A row of a workspace: used stays used, deleted stays deleted, closed stays closed.
Aged(x, y) ==
  /\ x.state # "none" => y.state # "none"
  /\ x.state = "deleted" => y.state = "deleted"
  /\ x.state # "none" /\ y.state = "live" => x.state = "live"

LEMMA OwnerHeldKept ==
  ASSUME NEW r, NEW x, NEW y, NEW A, NEW B, OwnerHeld(r, x, A), Aged(x, y),
         \/ /\ y.state = "live" /\ x.state # "none" => y.owner = x.owner
            /\ x.state # "none" => A \subseteq B
         \/ r.stale \/ r.op \notin {"remove", "transfer"} \/ r.at \notin {"count", "write"}
  PROVE  OwnerHeld(r, y, B)
BY DEF OwnerHeld, Aged

\* An invitation in use: its version tells whether who accepted it is the same.
InvAged(x, y) ==
  /\ y.state # "none" /\ y.workspace = x.workspace /\ y.version >= x.version
  /\ y.version = x.version => y.acceptedBy = x.acceptedBy

LEMMA InvitationHeldKept ==
  ASSUME NEW r \in CallRow, NEW x \in InvitationRow, NEW y \in InvitationRow, NEW row, NEW s,
         Shape(r), r.inv \in Invitations, InvitationHeld(r, x, row),
         row.state = "deleted" => s.state = "deleted", InvAged(x, y),
         \/ /\ y.acceptedBy = x.acceptedBy
            /\ Open(x) /\ ~x.expired => (Open(y) /\ ~y.expired) \/ s.state = "deleted"
         \/ r.stale \/ r.op # "accept" \/ r.at = "read"
  PROVE  InvitationHeld(r, y, s)
<1>1. r.version \in Nat /\ x.version \in Nat /\ y.version \in Nat
  BY DEF CallRow, InvitationRow
<1>2. y.state # "none" /\ y.workspace = r.w
  BY DEF InvitationHeld, InvAged
<1>3. r.op = "accept" /\ r.at # "read" /\ ~r.stale => y.acceptedBy = NoUser
  BY DEF InvitationHeld
<1>4. ASSUME r.at = "join", ~r.stale, r.op = "accept"
      PROVE  (Open(y) /\ ~y.expired) \/ s.state = "deleted"
  BY <1>4 DEF InvitationHeld
<1>5. ASSUME r.op = "acceptInvitation", r.at = "write"
      PROVE  r.version <= y.version /\ (r.version = y.version => y.acceptedBy = NoUser)
  <2>1. r.version <= x.version /\ (r.version = x.version => x.acceptedBy = NoUser)
    BY <1>5 DEF InvitationHeld
  <2> QED
    BY <1>1, <2>1 DEF InvAged
<1>6. r.at = "join" => r.op = "accept"
  BY DEF Shape
<1> QED
  BY <1>2, <1>3, <1>4, <1>5, <1>6 DEF InvitationHeld

\* The tables change so that every request but c knows what it knew: those in D
\* go stale, and what the others know is still so.
OthersKnow(c, D) ==
  /\ \A w \in Workspaces :
       /\ Aged(workspaces[w], workspaces'[w])
       /\ \/ /\ workspaces'[w].state = "live" /\ workspaces[w].state # "none" =>
                  workspaces'[w].owner = workspaces[w].owner
             /\ workspaces[w].state # "none" =>
                  ActiveIn(members, w) \subseteq ActiveIn(members', w)
          \/ Checking(w) \subseteq D \cup {c}
  /\ \A i \in Invitations :
       /\ invitations[i].state # "none" =>
            /\ InvAged(invitations[i], invitations'[i])
            /\ \/ /\ invitations'[i].acceptedBy = invitations[i].acceptedBy
                  /\ Open(invitations[i]) /\ ~invitations[i].expired =>
                       \/ Open(invitations'[i]) /\ ~invitations'[i].expired
                       \/ workspaces'[invitations[i].workspace].state = "deleted"
               \/ Accepting(i) \subseteq D \cup {c}
       /\ Open(invitations'[i]) =>
            \/ Open(invitations[i]) /\ SameAddress(invitations[i], invitations'[i])
            \/ \A d \in Callers \ {c} :
                 At(d, "invite", "insert") /\ call[d].w = invitations'[i].workspace
                   /\ call[d].name = invitations'[i].email => d \in D

LEMMA OthersStand ==
  ASSUME IInv, NEW c, NEW D, Rest(c, D), OthersKnow(c, D),
         invitations' \in [Invitations -> InvitationRow],
         NEW d \in Callers, d # c
  PROVE  Stands(call'[d], workspaces', members', invitations')
<1> DEFINE r == call[d]
           q == call'[d]
<1>1. /\ r \in CallRow /\ q \in CallRow
      /\ q.op = r.op /\ q.at = r.at /\ q.w = r.w /\ q.inv = r.inv /\ q.name = r.name
      /\ d \in D => q.stale
      /\ q.stale \/ q = r
  BY RestFields
<1>2. q = r \/ q = Stale(r)
  BY DEF Rest
<1>3. Stands(r, workspaces, members, invitations)
  BY DEF IInv, Requests
<1>4. Stands(q, workspaces, members, invitations)
  BY <1>1, <1>2, <1>3, StandsStale
<1>5. q.w \in Workspaces /\ invitations \in [Invitations -> InvitationRow]
  BY <1>1, RowFields DEF IInv, TypeOK
<1>6. Shape(q)
  BY <1>4 DEF Stands
<1>7. ASSUME q.inv \in Invitations
      PROVE  InvitationHeld(q, invitations'[q.inv], workspaces'[q.w])
  <2> DEFINE i == q.inv
             x == invitations[i]
             y == invitations'[i]
  <2>1. x \in InvitationRow /\ y \in InvitationRow
    BY <1>5, <1>7
  <2>2. InvitationHeld(q, x, workspaces[q.w])
    BY <1>4, <1>7 DEF Stands
  <2>3. x.state # "none" /\ x.workspace = q.w
    BY <2>2 DEF InvitationHeld
  <2>4. workspaces[q.w].state = "deleted" => workspaces'[q.w].state = "deleted"
    BY <1>5 DEF OthersKnow, Aged
  <2>5. /\ InvAged(x, y)
        /\ \/ /\ y.acceptedBy = x.acceptedBy
              /\ Open(x) /\ ~x.expired =>
                   (Open(y) /\ ~y.expired) \/ workspaces'[q.w].state = "deleted"
           \/ Accepting(i) \subseteq D \cup {c}
    BY <1>7, <2>3 DEF OthersKnow
  <2>6. Accepting(i) \subseteq D \cup {c} => q.stale \/ q.op # "accept" \/ q.at = "read"
    BY <1>1 DEF Accepting
  <2> HIDE DEF i, x, y, q
  <2>7. \/ /\ y.acceptedBy = x.acceptedBy
           /\ Open(x) /\ ~x.expired =>
                (Open(y) /\ ~y.expired) \/ workspaces'[q.w].state = "deleted"
        \/ q.stale \/ q.op # "accept" \/ q.at = "read"
    BY <2>5, <2>6
  <2>8. q \in CallRow /\ q.inv \in Invitations
    BY <1>1, <1>7 DEF q
  <2>9. InvitationHeld(q, y, workspaces'[q.w])
    BY <1>6, <2>1, <2>2, <2>4, <2>5, <2>7, <2>8, InvitationHeldKept
  <2> QED
    BY <2>9 DEF i, y
<1>8. ASSUME NEW j \in Invitations
      PROVE  AddressFree(q, invitations'[j])
  <2>1. AddressFree(q, invitations[j])
    BY <1>4 DEF Stands
  <2>2. CASE Open(invitations[j]) /\ SameAddress(invitations[j], invitations'[j])
    BY <2>1, <2>2 DEF AddressFree, SameAddress
  <2>3. CASE ~Open(invitations'[j])
    BY <2>3 DEF AddressFree
  <2>4. CASE \A e \in Callers \ {c} :
               At(e, "invite", "insert") /\ call[e].w = invitations'[j].workspace
                 /\ call[e].name = invitations'[j].email => e \in D
    BY <1>1, <2>4 DEF AddressFree, At
  <2> QED
    BY <2>2, <2>3, <2>4 DEF OthersKnow
<1>9. OwnerHeld(q, workspaces'[q.w], ActiveIn(members', q.w))
  <2> DEFINE x == workspaces[q.w]
             y == workspaces'[q.w]
             A == ActiveIn(members, q.w)
             B == ActiveIn(members', q.w)
  <2>1. OwnerHeld(q, x, A)
    BY <1>4 DEF Stands
  <2>2. /\ Aged(x, y)
        /\ \/ /\ y.state = "live" /\ x.state # "none" => y.owner = x.owner
              /\ x.state # "none" => A \subseteq B
           \/ Checking(q.w) \subseteq D \cup {c}
    BY <1>5 DEF OthersKnow
  <2>3. Checking(q.w) \subseteq D \cup {c} =>
          q.stale \/ q.op \notin {"remove", "transfer"} \/ q.at \notin {"count", "write"}
    BY <1>1 DEF Checking
  <2> HIDE DEF x, y, A, B, q
  <2>4. OwnerHeld(q, y, B)
    BY <2>1, <2>2, <2>3, OwnerHeldKept
  <2> QED
    BY <2>4 DEF y, B
<1> HIDE DEF q
<1>10. Stands(q, workspaces', members', invitations')
  BY <1>6, <1>7, <1>8, <1>9 DEF Stands
<1> QED
  BY <1>10 DEF q

LEMMA RequestsKept ==
  ASSUME IInv, NEW c \in Callers, NEW D, Rest(c, D), OthersKnow(c, D),
         invitations' \in [Invitations -> InvitationRow],
         Stands(call'[c], workspaces', members', invitations')
  PROVE  Requests'
BY OthersStand DEF Requests

LEMMA IdleStands ==
  ASSUME NEW W, NEW M, NEW I
  PROVE  Stands(Idle, W, M, I)
<1>1. Shape(Idle)
  BY IdleRow, Bounds DEF Shape
<1>2. Idle.inv \notin Invitations
  BY IdleRow, Bounds
<1>3. \A j \in Invitations : AddressFree(Idle, I[j])
  BY IdleRow DEF AddressFree
<1>4. OwnerHeld(Idle, W[Idle.w], ActiveIn(M, Idle.w))
  BY IdleRow DEF OwnerHeld
<1> QED
  BY <1>1, <1>2, <1>3, <1>4 DEF Stands

\* What the others know while the tables stay as they are.
LEMMA OthersUndisturbed ==
  ASSUME IInv, NEW c, NEW D, UNCHANGED <<workspaces, members, invitations>>
  PROVE  OthersKnow(c, D) /\ invitations' \in [Invitations -> InvitationRow]
<1>1. \A w \in Workspaces : Aged(workspaces[w], workspaces'[w])
  BY DEF Aged
<1>2. invitations \in [Invitations -> InvitationRow]
  BY DEF IInv, TypeOK
<1>3. \A i \in Invitations : invitations[i].version \in Nat
  BY <1>2 DEF InvitationRow
<1>4. \A i \in Invitations : invitations[i].state # "none" =>
        InvAged(invitations[i], invitations'[i])
  BY <1>3 DEF InvAged
<1> QED
  BY <1>1, <1>2, <1>4 DEF OthersKnow, SameAddress

-----------------------------------------------------------------------------
\* The roles of a member, and who joined by an invitation, as requests go on.
LEMMA OthersGoOn ==
  ASSUME IInv, NEW c, NEW D, Rest(c, D), NEW d \in Callers, d # c
  PROVE  /\ \A p : Grants(call'[d], p) <=> Grants(call[d], p)
         /\ \A rep : Due(call'[d], rep) = Due(call[d], rep)
         /\ \A i : Accepts(call'[d], i) <=> Accepts(call[d], i)
         /\ \A i : Joins(call'[d], i) <=> Joins(call[d], i)
         /\ call[d].stale => call'[d].stale
         /\ d \in D => call'[d].stale
<1> DEFINE r == call[d]
           q == call'[d]
<1>1. /\ q.op = r.op /\ q.at = r.at /\ q.w = r.w /\ q.user = r.user /\ q.inv = r.inv
      /\ q.add = r.add /\ q.remove = r.remove /\ q.left = r.left
      /\ (r.stale => q.stale) /\ (d \in D => q.stale)
  BY RestFields
<1> HIDE DEF q, r
<1>2. \A p : Grants(q, p) <=> Grants(r, p)
  BY <1>1 DEF Grants
<1>3. \A rep : Due(q, rep) = Due(r, rep)
  BY <1>1 DEF Due
<1>4. \A i : Accepts(q, i) <=> Accepts(r, i)
  BY <1>1 DEF Accepts
<1>5. \A i : Joins(q, i) <=> Joins(r, i)
  BY <1>1, <1>4 DEF Joins
<1> QED
  BY <1>1, <1>2, <1>3, <1>4, <1>5 DEF q, r

LEMMA RolesElsewhere ==
  ASSUME IInv, NEW c \in Callers, NEW D, Rest(c, D), NEW p \in Memberships, RolesOf(p),
         ~Grants(call[c], p), ~Grants(call'[c], p),
         members[p].status # "none" => members'[p].status # "none",
         grants'[p] = grants[p], reported'[p] = reported[p]
  PROVE  RolesOf(p)'
<1>1. LiveGrants(p)' = LiveGrants(p)
  BY DEF LiveGrants
<1>2. \A d \in Callers : Grants(call'[d], p) =>
        d # c /\ Grants(call[d], p) /\ \A rep : Due(call'[d], rep) = Due(call[d], rep)
  BY OthersGoOn
<1>3. \A d \in Callers : Grants(call[d], p) => d # c /\ Grants(call'[d], p)
  BY OthersGoOn
<1> QED
  BY <1>1, <1>2, <1>3 DEF RolesOf

\* No other request changes the roles of p, and c does from now on or still does.
LEMMA RolesHere ==
  ASSUME IInv, NEW c \in Callers, NEW D, Rest(c, D), NEW p \in Memberships,
         \A d \in Callers : d # c => ~Grants(call[d], p),
         members'[p].status # "none", LiveGrants(p)' = Due(call'[c], reported'[p]),
         Grants(call'[c], p)
  PROVE  RolesOf(p)'
<1>1. \A d \in Callers : d # c => ~Grants(call'[d], p)
  BY OthersGoOn
<1> QED
  BY <1>1 DEF RolesOf

LEMMA RolesEnd ==
  ASSUME IInv, NEW c \in Callers, NEW D, Rest(c, D), NEW p \in Memberships,
         \A d \in Callers : d # c => ~Grants(call[d], p),
         ~Grants(call'[c], p), LiveGrants(p)' = reported'[p]
  PROVE  RolesOf(p)'
<1>1. \A d \in Callers : ~Grants(call'[d], p)
  BY OthersGoOn
<1> QED
  BY <1>1 DEF RolesOf

LEMMA JoinElsewhere ==
  ASSUME IInv, NEW c \in Callers, NEW D, Rest(c, D), NEW i \in Invitations, JoinOf(i),
         joined'[i] = joined[i],
         invitations[i].state # "none" => invitations'[i].state # "none",
         invitations[i].state # "none" /\ Open(invitations'[i]) => Open(invitations[i]),
         Joins(call[c], i) => Joins(call'[c], i),
         Accepts(call'[c], i) =>
           (Accepts(call[c], i) /\ (call[c].stale => call'[c].stale)) \/ Open(invitations[i])
  PROVE  JoinOf(i)'
<1> SUFFICES ASSUME joined[i] # {}
             PROVE  /\ \E u \in Users : joined[i] = {u}
                    /\ invitations'[i].state # "none"
                    /\ \/ \E d \in Callers : Joins(call'[d], i)
                       \/ /\ ~Open(invitations'[i])
                          /\ \A d \in Callers : Accepts(call'[d], i) => call'[d].stale
  BY DEF JoinOf
<1>1. (\E u \in Users : joined[i] = {u}) /\ invitations[i].state # "none"
  BY DEF JoinOf
<1>2. CASE \E d \in Callers : Joins(call[d], i)
  BY <1>1, <1>2, OthersGoOn
<1>3. CASE /\ ~Open(invitations[i])
           /\ \A d \in Callers : Accepts(call[d], i) => call[d].stale
  <2>1. \A d \in Callers : Accepts(call'[d], i) => call'[d].stale
    BY <1>3, OthersGoOn
  <2> QED
    BY <1>1, <1>3, <2>1
<1> QED
  BY <1>2, <1>3 DEF JoinOf

\* A step that reads, or ends without a write.
LEMMA Quiet ==
  ASSUME IInv, NEW c \in Callers, NEW r \in CallRow, call' = [call EXCEPT ![c] = r],
         UNCHANGED <<data, ghosts>>, begun' \in 0..MaxCalls, failures' \in 0..MaxFailures,
         Stands(r, workspaces, members, invitations),
         call[c].at \notin {"grant", "revokeRole", "mark"},
         r.at \notin {"grant", "revokeRole", "mark"},
         r.op = "accept" /\ r.at # "read" => r.inv \in Invitations /\ Open(invitations[r.inv])
  PROVE  IInv'
<1>1. Rest(c, {}) /\ call'[c] = r
  BY GotoRest
<1>2. UNCHANGED <<workspaces, members, grants, invitations, reported, unsure, joined, contested>>
  BY DEF data, ghosts
<1>3. TypeOK'
  BY <1>1, <1>2 DEF IInv, TypeOK, Rest
<1>4. Requests'
  <2>1. OthersKnow(c, {}) /\ invitations' \in [Invitations -> InvitationRow]
    BY <1>2, OthersUndisturbed
  <2>2. Stands(call'[c], workspaces', members', invitations')
    BY <1>1, <1>2
  <2> QED
    BY <1>1, <2>1, <2>2, RequestsKept
<1>5. Unused'
  BY <1>2 DEF IInv, Unused
<1>6. ASSUME NEW p \in Memberships \ unsure'
      PROVE  RolesOf(p)'
  <2>1. RolesOf(p)
    BY <1>2 DEF IInv
  <2>2. ~Grants(call[c], p) /\ ~Grants(call'[c], p)
    BY <1>1 DEF Grants
  <2> QED
    BY <1>1, <1>2, <2>1, <2>2, RolesElsewhere
<1>7. ASSUME NEW i \in Invitations \ contested'
      PROVE  JoinOf(i)'
  <2>1. JoinOf(i)
    BY <1>2 DEF IInv
  <2>2. ~Joins(call[c], i)
    BY DEF Joins
  <2>3. Accepts(call'[c], i) => Open(invitations[i])
    BY <1>1 DEF Accepts
  <2> QED
    BY <1>1, <1>2, <2>1, <2>2, <2>3, JoinElsewhere
<1> QED
  BY <1>3, <1>4, <1>5, <1>6, <1>7 DEF IInv

-----------------------------------------------------------------------------
\* Requests begin.
Asked(r, op, w, u, n, i, A, R, v) ==
  /\ r \in CallRow
  /\ r.op = op /\ r.at = "read" /\ r.w = w /\ r.user = u /\ r.name = n /\ r.inv = i
  /\ r.add = A /\ r.remove = R /\ r.left = {} /\ r.version = v /\ r.stale = FALSE

WithName(q, n)     == [q EXCEPT !.name = n]
WithRolesName(q, A, n) == [q EXCEPT !.add = A, !.name = n]
WithVersion(q, v)  == [q EXCEPT !.version = v]
WithRoles(q, A)    == [q EXCEPT !.add = A]
WithChange(q, A, R) == [q EXCEPT !.add = A, !.remove = R]
WithInvitation(q, i) == [q EXCEPT !.inv = i]
HandsOver(q, w, v) == [q EXCEPT !.to = w, !.version = v]

LEMMA Asking ==
  ASSUME NEW op \in {"create", "update", "archive", "restore", "transfer", "delete", "add",
                     "change", "remove", "invite", "accept", "acceptInvitation", "revoke"},
         NEW w \in Workspaces, NEW u \in Users \cup {NoUser}, NEW n \in Slugs \cup Emails \cup {NoName},
         NEW i \in Invitations \cup {None}, NEW A \in SUBSET Roles, NEW R \in SUBSET Roles,
         NEW v \in Nat
  PROVE  /\ Asked(WithName(Request(op, w, u), n), op, w, u, n, None, {}, {}, 1)
         /\ Asked(WithRolesName(Request(op, w, u), A, n), op, w, u, n, None, A, {}, 1)
         /\ Asked(WithVersion(Request(op, w, u), v), op, w, u, NoName, None, {}, {}, v)
         /\ \A z \in Workspaces :
              Asked(HandsOver(Request(op, w, u), z, v), op, w, u, NoName, None, {}, {}, v)
         /\ Asked(WithRoles(Request(op, w, u), A), op, w, u, NoName, None, A, {}, 1)
         /\ Asked(WithChange(Request(op, w, u), A, R), op, w, u, NoName, None, A, R, 1)
         /\ Asked(WithInvitation(Request(op, w, u), i), op, w, u, NoName, i, {}, {}, 1)
<1> DEFINE q == Request(op, w, u)
<1>1. /\ Idle.w = 1 /\ Idle.name = NoName /\ Idle.add = {} /\ Idle.remove = {} /\ Idle.left = {}
      /\ Idle.version = 1 /\ Idle.stale = FALSE
  BY DEF Idle
<1>2. q = [Idle EXCEPT !.op = op, !.at = "read", !.w = w, !.user = u]
  BY DEF Request
<1>3. Asked(q, op, w, u, NoName, None, {}, {}, 1)
  <2>1. q \in CallRow
    <3>1. [Idle EXCEPT !.op = op] \in CallRow
      BY IdleRow DEF CallRow
    <3>2. [[Idle EXCEPT !.op = op] EXCEPT !.at = "read"] \in CallRow
      BY <3>1, Zenon DEF CallRow
    <3>3. [[[Idle EXCEPT !.op = op] EXCEPT !.at = "read"] EXCEPT !.w = w] \in CallRow
      BY <3>2, Zenon DEF CallRow
    <3>4. [[[[Idle EXCEPT !.op = op] EXCEPT !.at = "read"] EXCEPT !.w = w] EXCEPT !.user = u] \in CallRow
      BY <3>3, Zenon DEF CallRow
    <3> QED
      BY <3>4, <1>2, IdleRow, Zenon DEF CallRow
  <2>2. q.op = op /\ q.at = "read" /\ q.w = w /\ q.user = u
    BY <1>2, IdleRow DEF CallRow
  <2>3. /\ q.name = Idle.name /\ q.inv = Idle.inv /\ q.add = Idle.add /\ q.remove = Idle.remove
        /\ q.left = Idle.left /\ q.version = Idle.version /\ q.stale = Idle.stale
    BY <1>2, IdleRow DEF CallRow
  <2> HIDE DEF q
  <2> QED
    BY <2>1, <2>2, <2>3, <1>1, IdleRow DEF Asked
<1> HIDE DEF q
<1>4. Asked(WithName(q, n), op, w, u, n, None, {}, {}, 1)
  BY <1>3, Zenon DEF CallRow, Asked, WithName
<1>5. Asked(WithRolesName(q, A, n), op, w, u, n, None, A, {}, 1)
  BY <1>3, Zenon DEF CallRow, Asked, WithRolesName
<1>6. Asked(WithVersion(q, v), op, w, u, NoName, None, {}, {}, v)
  BY <1>3, Zenon DEF CallRow, Asked, WithVersion
<1>10. ASSUME NEW z \in Workspaces PROVE Asked(HandsOver(q, z, v), op, w, u, NoName, None, {}, {}, v)
  BY <1>3, Zenon DEF CallRow, Asked, HandsOver
<1>7. Asked(WithRoles(q, A), op, w, u, NoName, None, A, {}, 1)
  BY <1>3, Zenon DEF CallRow, Asked, WithRoles
<1>8. Asked(WithChange(q, A, R), op, w, u, NoName, None, A, R, 1)
  BY <1>3, Zenon DEF CallRow, Asked, WithChange
<1>9. Asked(WithInvitation(q, i), op, w, u, NoName, i, {}, {}, 1)
  BY <1>3, Zenon DEF CallRow, Asked, WithInvitation
<1> QED
  BY <1>4, <1>5, <1>6, <1>7, <1>8, <1>9, <1>10, Zenon DEF q

LEMMA Begun ==
  ASSUME IInv, NEW c \in Callers, NEW r \in CallRow, Begin(c, r), r.at = "read", Shape(r),
         call[c].at = "idle", begun < MaxCalls,
         r.inv \in Invitations =>
           invitations[r.inv].state # "none" /\ invitations[r.inv].workspace = r.w,
         r.op = "transfer" => workspaces[r.w].state # "none"
  PROVE  IInv'
<1>1. Stands(r, workspaces, members, invitations)
  <2>1. r.inv \in Invitations => InvitationHeld(r, invitations[r.inv], workspaces[r.w])
    BY DEF InvitationHeld
  <2>2. \A j \in Invitations : AddressFree(r, invitations[j])
    BY DEF AddressFree
  <2>3. OwnerHeld(r, workspaces[r.w], ActiveIn(members, r.w))
    BY DEF OwnerHeld
  <2> QED
    BY <2>1, <2>2, <2>3 DEF Stands
<1>2. begun' \in 0..MaxCalls /\ failures' \in 0..MaxFailures
  BY Bounds DEF Begin, IInv, TypeOK
<1> QED
  BY <1>1, <1>2, Quiet DEF Begin

\* The invitation, and what it is for, of a request that is about to begin.
LEMMA Begins ==
  ASSUME IInv, NEW c \in Callers,
         NEW op \in {"create", "update", "archive", "restore", "transfer", "delete", "add",
                     "change", "remove", "invite", "accept", "acceptInvitation", "revoke"},
         NEW w \in Workspaces, NEW u \in Users \cup {NoUser}, NEW n \in Slugs \cup Emails \cup {NoName},
         NEW i \in Invitations \cup {None}, NEW A \in SUBSET Roles, NEW R \in SUBSET Roles,
         NEW v \in Nat,
         NEW r, Asked(r, op, w, u, n, i, A, R, v), Begin(c, r), call[c].at = "idle",
         begun < MaxCalls,
         op \in {"create", "transfer", "add", "change", "remove", "accept", "acceptInvitation"}
           => u \in Users,
         op = "create" => n \in Slugs, op = "invite" => n \in Emails,
         op \in {"accept", "acceptInvitation", "revoke"} <=> i \in Invitations,
         op \in {"add", "accept", "acceptInvitation"} => R = {},
         i \in Invitations => invitations[i].state # "none" /\ invitations[i].workspace = w,
         op = "transfer" => workspaces[w].state # "none"
  PROVE  IInv'
<1>1. r \in CallRow /\ r.at = "read" /\ r.w = w /\ r.inv = i /\ r.op = op
  BY DEF Asked
<1>2. Shape(r)
  BY DEF Shape, Asked
<1> QED
  BY <1>1, <1>2, Begun

LEMMA StartInv ==
  ASSUME IInv, NEW c \in Callers, Start(c)
  PROVE  IInv'
<1>0. call[c].at = "idle" /\ begun < MaxCalls
  BY DEF Start
<1>1. /\ {} \in SUBSET Roles /\ 1 \in Nat /\ NoUser \in Users \cup {NoUser} /\ 1 \in Workspaces
      /\ NoName \in Slugs \cup Emails \cup {NoName} /\ None \in Invitations \cup {None}
      /\ None \notin Invitations
  BY Bounds
<1> DEFINE Ops == {"create", "update", "archive", "restore", "transfer", "delete", "add",
                  "change", "remove", "invite", "accept", "acceptInvitation", "revoke"}
<1>2. ASSUME NEW u \in Users, NEW s \in Slugs, createWorkspace(c, u, s)
      PROVE  IInv'
  <2> DEFINE r == WithName(Request("create", 1, u), s)
  <2>1. u \in Users \cup {NoUser} /\ s \in Slugs \cup Emails \cup {NoName} /\ "create" \in Ops
    OBVIOUS
  <2>2. Asked(r, "create", 1, u, s, None, {}, {}, 1)
    BY <1>1, <2>1, Asking
  <2>3. Begin(c, r)
    BY <1>2 DEF createWorkspace, WithName
  <2> HIDE DEF r
  <2> QED
    BY <1>0, <1>1, <2>1, <2>2, <2>3, Begins
<1>3. ASSUME NEW w \in Workspaces, NEW v \in Nat, NEW u \in Users \cup {NoUser},
             NEW op \in {"update", "archive", "restore", "delete"}, onWorkspace(c, op, w, u, v)
      PROVE  IInv'
  <2> DEFINE r == WithVersion(Request(op, w, u), v)
  <2>1. op \in Ops
    OBVIOUS
  <2>2. Asked(r, op, w, u, NoName, None, {}, {}, v)
    BY <1>1, <2>1, Asking
  <2>3. Begin(c, r) /\ workspaces[w].state # "none"
    BY <1>3 DEF onWorkspace, WithVersion
  <2>4. /\ op \in {"create", "transfer", "add", "change", "remove", "accept", "acceptInvitation"}
             => u \in Users
        /\ op # "create" /\ op # "invite" /\ op # "transfer"
        /\ op \notin {"accept", "acceptInvitation", "revoke"}
        /\ op \notin {"add", "accept", "acceptInvitation"}
    BY <1>3
  <2> HIDE DEF r
  <2> QED
    BY <1>0, <1>1, <2>1, <2>2, <2>3, <2>4, Begins
<1>14. ASSUME NEW h \in Workspaces, NEW w \in Workspaces, NEW u \in Users, NEW v \in Nat,
              transferOwnership(c, h, w, u, v)
       PROVE  IInv'
  <2> DEFINE r == HandsOver(Request("transfer", h, u), w, v)
  <2>1. u \in Users \cup {NoUser} /\ "transfer" \in Ops
    OBVIOUS
  <2>2. Asked(r, "transfer", h, u, NoName, None, {}, {}, v)
    BY <1>1, <2>1, Asking
  <2>3. Begin(c, r) /\ workspaces[h].state # "none"
    BY <1>14 DEF transferOwnership, HandsOver
  <2> HIDE DEF r
  <2> QED
    BY <1>0, <1>1, <2>1, <2>2, <2>3, Begins
<1>4. ASSUME NEW w \in Workspaces, NEW u \in Users, NEW v \in Nat, remove(c, w, u, v)
      PROVE  IInv'
  <2> DEFINE r == WithVersion(Request("remove", w, u), v)
  <2>1. u \in Users \cup {NoUser} /\ "remove" \in Ops
    OBVIOUS
  <2>2. Asked(r, "remove", w, u, NoName, None, {}, {}, v)
    BY <1>1, <2>1, Asking
  <2>3. Begin(c, r)
    BY <1>4 DEF remove, WithVersion
  <2> HIDE DEF r
  <2> QED
    BY <1>0, <1>1, <2>1, <2>2, <2>3, Begins
<1>5. ASSUME NEW w \in Workspaces, NEW u \in Users, NEW R \in SUBSET Roles, NEW D \in SUBSET Roles,
             changeRole(c, w, u, R, D)
      PROVE  IInv'
  <2> DEFINE r == WithChange(Request("change", w, u), R, D)
  <2>1. u \in Users \cup {NoUser} /\ "change" \in Ops
    OBVIOUS
  <2>2. Asked(r, "change", w, u, NoName, None, R, D, 1)
    BY <1>1, <2>1, Asking
  <2>3. Begin(c, r)
    BY <1>5 DEF changeRole, WithChange
  <2> HIDE DEF r
  <2> QED
    BY <1>0, <1>1, <2>1, <2>2, <2>3, Begins
<1>6. ASSUME NEW w \in Workspaces, NEW u \in Users, NEW R \in SUBSET Roles, addMember(c, w, u, R)
       PROVE  IInv'
  <2> DEFINE r == WithRoles(Request("add", w, u), R)
  <2>1. u \in Users \cup {NoUser} /\ "add" \in Ops
    OBVIOUS
  <2>2. Asked(r, "add", w, u, NoName, None, R, {}, 1)
    BY <1>1, <2>1, Asking
  <2>3. Begin(c, r)
    BY <1>6 DEF addMember, WithRoles
  <2> HIDE DEF r
  <2> QED
    BY <1>0, <1>1, <2>1, <2>2, <2>3, Begins
<1>7. ASSUME NEW w \in Workspaces, NEW e \in Emails, NEW R \in SUBSET Roles,
             createInvitation(c, w, e, R)
      PROVE  IInv'
  <2> DEFINE r == WithRolesName(Request("invite", w, NoUser), R, e)
  <2>1. e \in Slugs \cup Emails \cup {NoName} /\ "invite" \in Ops
    OBVIOUS
  <2>2. Asked(r, "invite", w, NoUser, e, None, R, {}, 1)
    BY <1>1, <2>1, Asking
  <2>3. Begin(c, r)
    BY <1>7 DEF createInvitation, WithRolesName
  <2> HIDE DEF r
  <2> QED
    BY <1>0, <1>1, <2>1, <2>2, <2>3, Begins
<1>8. ASSUME NEW i \in Invitations, NEW u \in Users \cup {NoUser},
             NEW op \in {"accept", "acceptInvitation", "revoke"},
             op # "revoke" => u \in Users, onInvitation(c, op, i, u)
      PROVE  IInv'
  <2> DEFINE w == invitations[i].workspace
             r == WithInvitation(Request(op, w, u), i)
  <2>1. op \in Ops /\ i \in Invitations \cup {None}
    OBVIOUS
  <2>2. w \in Workspaces
    BY DEF IInv, TypeOK, InvitationRow
  <2>3. Asked(r, op, w, u, NoName, i, {}, {}, 1)
    BY <1>1, <2>1, <2>2, Asking
  <2>4. Begin(c, r) /\ invitations[i].state # "none" /\ invitations[i].workspace = w
    BY <1>8 DEF onInvitation, WithInvitation
  <2>5. /\ op \in {"create", "transfer", "add", "change", "remove", "accept", "acceptInvitation"}
             => u \in Users
        /\ op # "create" /\ op # "invite" /\ op # "transfer"
        /\ op \in {"accept", "acceptInvitation", "revoke"} <=> i \in Invitations
    BY <1>8
  <2> HIDE DEF r, w
  <2> QED
    BY <1>0, <1>1, <2>1, <2>2, <2>3, <2>4, <2>5, Begins
<1>9. 1..(MaxCalls + 1) \subseteq Nat
  BY Bounds
<1>10. CASE \E u \in Users, s \in Slugs : createWorkspace(c, u, s)
  BY <1>2, <1>10
<1>11. ASSUME NEW w \in Workspaces, restore(c, w) \/ delete(c, w)
       PROVE  IInv'
  BY <1>1, <1>3, <1>11 DEF restore, delete
<1>12. ASSUME NEW w \in Workspaces, NEW v \in 1..(MaxCalls + 1),
              \/ updateWorkspace(c, w, v) \/ archiveWorkspace(c, w, v)
              \/ \E u \in Users : \/ remove(c, w, u, v)
                                 \/ \E h \in Workspaces : transferOwnership(c, h, w, u, v)
       PROVE  IInv'
  BY <1>1, <1>3, <1>4, <1>9, <1>12, <1>14 DEF updateWorkspace, archiveWorkspace
<1>13. ASSUME NEW i \in Invitations,
              revoke(c, i) \/ \E u \in Users : accept(c, i, u) \/ acceptInvitation(c, i, u)
       PROVE  IInv'
  BY <1>1, <1>8, <1>13 DEF revoke, accept, acceptInvitation
<1> QED
  BY <1>5, <1>7, <1>10, <1>11, <1>12, <1>13, <1>6 DEF Start

-----------------------------------------------------------------------------
\* Requests read.
LEMMA Known ==
  ASSUME IInv, NEW c \in Callers
  PROVE  /\ call[c] \in CallRow /\ Shape(call[c])
         /\ Stands(call[c], workspaces, members, invitations)
         /\ call[c].w \in Workspaces
         /\ begun \in 0..MaxCalls /\ failures \in 0..MaxFailures
BY RowFields DEF IInv, TypeOK, Requests, Stands

LEMMA Ends ==
  ASSUME IInv, NEW c \in Callers, Finish(c), UNCHANGED <<data, begun, failures, ghosts>>,
         call[c].at \notin {"grant", "revokeRole", "mark"}
  PROVE  IInv'
<1>1. begun' \in 0..MaxCalls /\ failures' \in 0..MaxFailures
  BY Known
<1> QED
  BY <1>1, IdleRow, IdleStands, Quiet DEF Finish

LEMMA Goes ==
  ASSUME IInv, NEW c \in Callers,
         NEW place \in {"insert", "reason", "write", "join", "workspace", "count"},
         Goto(c, place), UNCHANGED <<data, begun, failures, ghosts>>,
         call[c].at \notin {"idle", "grant", "revokeRole", "mark"},
         call[c].op \notin {"accept", "acceptInvitation"},
         place = "join" => call[c].op = "add",
         call[c].op = "invite" => place # "insert" \/
           \A j \in Invitations :
             ~ (/\ Open(invitations[j]) /\ invitations[j].workspace = call[c].w
                /\ invitations[j].email = call[c].name),
         call[c].op = "remove" /\ place \in {"count", "write"} =>
           workspaces[call[c].w].state # "none",
         call[c].op = "remove" /\ place = "write" => workspaces[call[c].w].owner # call[c].user
           \/ \E v \in Active(call[c].w) : v # call[c].user,
         call[c].op = "transfer" /\ place = "write" => call[c].user \in Active(call[c].w)
  PROVE  IInv'
<1> DEFINE r == call[c]
           q == [call[c] EXCEPT !.at = place]
<1>1. r \in CallRow /\ Shape(r) /\ Stands(r, workspaces, members, invitations)
  BY Known
<1>2. /\ q \in CallRow /\ q.at = place
      /\ q.op = r.op /\ q.w = r.w /\ q.user = r.user /\ q.inv = r.inv
      /\ q.name = r.name /\ q.add = r.add /\ q.remove = r.remove /\ q.left = r.left
      /\ q.version = r.version /\ q.stale = r.stale
  BY <1>1, MovedRow
<1>3. call' = [call EXCEPT ![c] = q]
  BY DEF Goto
<1>4. Active(r.w) = ActiveIn(members, r.w)
  BY DEF Active, ActiveIn
<1>5. r.op # "none"
  BY <1>1 DEF Shape
<1> HIDE DEF q
<1>6. Shape(q)
  BY <1>1, <1>2, <1>5 DEF Shape
<1>7. q.inv \in Invitations => InvitationHeld(q, invitations[q.inv], workspaces[q.w])
  <2> SUFFICES ASSUME q.inv \in Invitations
               PROVE  InvitationHeld(q, invitations[q.inv], workspaces[q.w])
    OBVIOUS
  <2>1. InvitationHeld(r, invitations[r.inv], workspaces[r.w])
    BY <1>1, <1>2 DEF Stands
  <2>2. r.op = "revoke" /\ place # "join"
    BY <1>1, <1>2 DEF Shape
  <2> QED
    BY <1>2, <2>1, <2>2 DEF InvitationHeld
<1>8. \A j \in Invitations : AddressFree(q, invitations[j])
  BY <1>2 DEF AddressFree
<1>9. r.op = "transfer" => workspaces[r.w].state # "none"
  BY <1>1 DEF Stands, OwnerHeld
<1>10. OwnerHeld(q, workspaces[q.w], ActiveIn(members, q.w))
  BY <1>2, <1>4, <1>9 DEF OwnerHeld
<1>11. Stands(q, workspaces, members, invitations)
  BY <1>6, <1>7, <1>8, <1>10 DEF Stands
<1>12. begun' \in 0..MaxCalls /\ failures' \in 0..MaxFailures
  BY Known
<1> QED
  BY <1>2, <1>3, <1>11, <1>12, Quiet

LEMMA checkSlugInv ==
  ASSUME IInv, NEW c \in Callers, checkSlug(c)
  PROVE  IInv'
<1>1. UNCHANGED <<data, begun, failures, ghosts>> /\ call[c].at = "read" /\ call[c].op = "create"
  BY DEF checkSlug, At
<1>2. CASE Finish(c)
  BY <1>1, <1>2, Ends
<1>3. CASE Goto(c, "insert")
  BY <1>1, <1>3, Goes
<1> QED
  BY <1>2, <1>3 DEF checkSlug

LEMMA readWorkspaceInv ==
  ASSUME IInv, NEW c \in Callers, readWorkspace(c)
  PROVE  IInv'
<1>1. /\ UNCHANGED <<data, begun, failures, ghosts>> /\ call[c].at = "read"
      /\ call[c].op \in {"update", "archive", "restore"}
  BY DEF readWorkspace
<1>2. CASE Finish(c)
  BY <1>1, <1>2, Ends
<1>3. ASSUME NEW place \in {"write", "reason"}, Goto(c, place)
      PROVE  IInv'
  BY <1>1, <1>3, Goes
<1> QED
  BY <1>2, <1>3 DEF readWorkspace

LEMMA checkNewOwnerInv ==
  ASSUME IInv, NEW c \in Callers, checkNewOwner(c)
  PROVE  IInv'
<1>1. UNCHANGED <<data, begun, failures, ghosts>> /\ call[c].at = "read" /\ call[c].op = "transfer"
  BY DEF checkNewOwner, At
<1>2. CASE Finish(c)
  BY <1>1, <1>2, Ends
<1>3. CASE call[c].user \in Active(call[c].w) /\ Goto(c, "write")
  BY <1>1, <1>3, Goes
<1> QED
  BY <1>2, <1>3 DEF checkNewOwner

LEMMA checkNotMemberInv ==
  ASSUME IInv, NEW c \in Callers, checkNotMember(c)
  PROVE  IInv'
<1>1. UNCHANGED <<data, begun, failures, ghosts>> /\ call[c].at = "read" /\ call[c].op = "add"
  BY DEF checkNotMember, At
<1>2. CASE Finish(c)
  BY <1>1, <1>2, Ends
<1>3. CASE Goto(c, "join")
  BY <1>1, <1>3, Goes
<1> QED
  BY <1>2, <1>3 DEF checkNotMember

LEMMA readMemberInv ==
  ASSUME IInv, NEW c \in Callers, readMember(c)
  PROVE  IInv'
<1>1. UNCHANGED <<data, begun, failures, ghosts>> /\ call[c].at = "read" /\ call[c].op = "remove"
  BY DEF readMember, At
<1>2. CASE Finish(c)
  BY <1>1, <1>2, Ends
<1>3. CASE Goto(c, "workspace")
  BY <1>1, <1>3, Goes
<1> QED
  BY <1>2, <1>3 DEF readMember

LEMMA readOwnerInv ==
  ASSUME IInv, NEW c \in Callers, readOwner(c)
  PROVE  IInv'
<1>1. /\ UNCHANGED <<data, begun, failures, ghosts>> /\ call[c].at = "workspace"
      /\ call[c].op = "remove"
  BY DEF readOwner, At
<1>2. CASE ~Live(call[c].w)
  BY <1>1, <1>2, Ends DEF readOwner
<1>3. CASE Live(call[c].w) /\ workspaces[call[c].w].owner = call[c].user
  <2>1. Goto(c, "count") /\ workspaces[call[c].w].state # "none"
    BY <1>3 DEF readOwner, Live
  <2> QED
    BY <1>1, <2>1, Goes
<1>4. CASE Live(call[c].w) /\ workspaces[call[c].w].owner # call[c].user
  <2>1. Goto(c, "write") /\ workspaces[call[c].w].state # "none"
    BY <1>4 DEF readOwner, Live
  <2> QED
    BY <1>1, <1>4, <2>1, Goes
<1> QED
  BY <1>2, <1>3, <1>4

\* Two members: one of them is not the one to be removed.
LEMMA Another ==
  ASSUME NEW w, NEW u, ~ (Cardinality(Active(w)) <= 1)
  PROVE  \E v \in Active(w) : v # u
<1>1. SUFFICES ASSUME Active(w) \subseteq {u} PROVE FALSE
  OBVIOUS
<1>2. Active(w) = {} \/ Active(w) = {u}
  BY <1>1
<1> QED
  <2>1. CASE Active(w) = {}
    <3>1. Cardinality({}) = 0
      BY FS_EmptySet
    <3> QED
      BY <2>1, <3>1
  <2>2. CASE Active(w) = {u}
    <3>1. Cardinality({u}) = 1
      BY FS_Singleton
    <3> QED
      BY <2>2, <3>1
  <2> QED
    BY <1>2, <2>1, <2>2

LEMMA countActiveOwnersInv ==
  ASSUME IInv, NEW c \in Callers, countActiveOwners(c)
  PROVE  IInv'
<1>1. /\ UNCHANGED <<data, begun, failures, ghosts>> /\ call[c].at = "count"
      /\ call[c].op = "remove"
  BY DEF countActiveOwners, At
<1>2. CASE Finish(c)
  BY <1>1, <1>2, Ends
<1>3. CASE ~ (Cardinality(Active(call[c].w)) <= 1) /\ Goto(c, "write")
  <2> DEFINE w == call[c].w
             u == call[c].user
  <2>1. \E v \in Active(w) : v # u
    <3>1. ~ (Cardinality(Active(w)) <= 1)
      BY <1>3
    <3> HIDE DEF w, u
    <3> QED
      BY <3>1, Another
  <2>2. workspaces[call[c].w].state # "none"
    BY <1>1, Known DEF Stands, OwnerHeld
  <2> QED
    BY <1>1, <1>3, <2>1, <2>2, Goes
<1> QED
  BY <1>2, <1>3 DEF countActiveOwners

LEMMA readRevokedInv ==
  ASSUME IInv, NEW c \in Callers, readRevoked(c)
  PROVE  IInv'
<1>1. UNCHANGED <<data, begun, failures, ghosts>> /\ call[c].at = "read" /\ call[c].op = "revoke"
  BY DEF readRevoked, At
<1>2. CASE Finish(c)
  BY <1>1, <1>2, Ends
<1>3. CASE Goto(c, "write")
  BY <1>1, <1>3, Goes
<1> QED
  BY <1>2, <1>3 DEF readRevoked

LEMMA checkNotInvitedInv ==
  ASSUME IInv, NEW c \in Callers, checkNotInvited(c)
  PROVE  IInv'
<1>1. UNCHANGED <<data, begun, failures, ghosts>> /\ call[c].at = "read" /\ call[c].op = "invite"
  BY DEF checkNotInvited, At
<1>2. CASE Finish(c)
  BY <1>1, <1>2, Ends
<1>3. \A j \in Invitations :
        Open(invitations[j]) /\ invitations[j].workspace = call[c].w
          /\ invitations[j].email = call[c].name => j \in Matching(c) /\ Pending(j)
  BY DEF Matching, Pending, Open
<1>4. CASE Matching(c) = {} /\ Goto(c, "insert")
  BY <1>1, <1>3, <1>4, Goes
<1>5. CASE call' = [call EXCEPT ![c].at = "insert",
                          ![c].stale = \E j \in Matching(c) : Pending(j)]
  <2> DEFINE b == \E j \in Matching(c) : Pending(j)
             r == call[c]
             q == [r EXCEPT !.at = "insert", !.stale = b]
  <2>1. r \in CallRow /\ Shape(r)
    BY Known
  <2>2. b \in BOOLEAN
    OBVIOUS
  <2>3. b => \E j \in Matching(c) : Pending(j)
    OBVIOUS
  <2>4. (\E j \in Matching(c) : Pending(j)) => b
    OBVIOUS
  <2>5. call' = [call EXCEPT ![c] = q]
    BY <1>5
  <2> HIDE DEF b
  <2>6. /\ q \in CallRow /\ q.at = "insert" /\ q.stale = b
        /\ q.op = r.op /\ q.w = r.w /\ q.inv = r.inv /\ q.name = r.name
    BY <2>1, <2>2, Zenon DEF CallRow
  <2> HIDE DEF q
  <2>7. Shape(q)
    BY <1>1, <2>1, <2>6 DEF Shape
  <2>8. q.inv \notin Invitations
    BY <1>1, <2>6, <2>7 DEF Shape
  <2>9. \A j \in Invitations : AddressFree(q, invitations[j])
    BY <1>3, <2>4, <2>6 DEF AddressFree
  <2>10. OwnerHeld(q, workspaces[q.w], ActiveIn(members, q.w))
    BY <1>1, <2>6 DEF OwnerHeld
  <2>11. Stands(q, workspaces, members, invitations)
    BY <2>7, <2>8, <2>9, <2>10 DEF Stands
  <2>12. begun' \in 0..MaxCalls /\ failures' \in 0..MaxFailures
    BY <1>1, Known
  <2> QED
    BY <1>1, <2>5, <2>6, <2>11, <2>12, Quiet
<1> QED
  BY <1>2, <1>4, <1>5 DEF checkNotInvited

LEMMA readInvitationInv ==
  ASSUME IInv, NEW c \in Callers, readInvitation(c)
  PROVE  IInv'
<1> DEFINE r == call[c]
           inv == invitations[r.inv]
           place == IF r.op = "accept" THEN "join" ELSE "write"
           q == [r EXCEPT !.at = place, !.add = inv.roles, !.version = inv.version]
<1>1. /\ UNCHANGED <<data, begun, failures, ghosts>> /\ r.at = "read"
      /\ r.op \in {"accept", "acceptInvitation"}
  BY DEF readInvitation
<1>2. CASE Finish(c)
  BY <1>1, <1>2, Ends
<1>3. CASE /\ Pending(r.inv) /\ ~inv.expired
           /\ call' = [call EXCEPT
                ![c].at = IF call[c].op = "accept" THEN "join" ELSE "write",
                ![c].add = inv.roles, ![c].version = inv.version]
  <2>1. r \in CallRow /\ Shape(r) /\ Stands(r, workspaces, members, invitations)
    BY Known
  <2>2. r.inv \in Invitations
    BY <1>1, <2>1 DEF Shape
  <2>3. inv \in InvitationRow
    BY <2>2 DEF IInv, TypeOK
  <2>4. inv.roles \in SUBSET Roles /\ inv.version \in Nat
    BY <2>3 DEF InvitationRow
  <2>5. call' = [call EXCEPT ![c] = q]
    BY <1>3
  <2>6. InvitationHeld(r, inv, workspaces[r.w])
    BY <2>1, <2>2 DEF Stands
  <2>7. Open(inv) /\ ~inv.expired
    BY <1>3 DEF Open, Pending
  <2>8. place \in {"join", "write"} /\ (place = "join" <=> r.op = "accept")
    OBVIOUS
  <2> HIDE DEF place, inv
  <2>9. place \in {"idle", "read", "insert", "reason", "write", "join", "grant",
        "revokeRole", "mark", "workspace", "count"}
    BY <2>8
  <2>10. /\ q \in CallRow /\ q.at = place /\ q.add = inv.roles /\ q.version = inv.version
        /\ q.op = r.op /\ q.w = r.w /\ q.inv = r.inv /\ q.user = r.user /\ q.remove = r.remove
    BY <2>1, <2>4, <2>9, ZenonT(60) DEF CallRow
  <2> HIDE DEF q
  <2>11. Shape(q)
    BY <1>1, <2>1, <2>10, <2>8 DEF Shape
  <2>12. InvitationHeld(q, inv, workspaces[q.w])
    BY <1>1, <2>4, <2>6, <2>7, <2>10 DEF InvitationHeld, Open
  <2>13. Stands(q, workspaces, members, invitations)
    <3>1. \A j \in Invitations : AddressFree(q, invitations[j])
      BY <1>1, <2>10 DEF AddressFree
    <3>2. OwnerHeld(q, workspaces[q.w], ActiveIn(members, q.w))
      BY <1>1, <2>10 DEF OwnerHeld
    <3> QED
      BY <2>10, <2>11, <2>12, <3>1, <3>2 DEF Stands, inv
  <2>14. begun' \in 0..MaxCalls /\ failures' \in 0..MaxFailures
    BY <1>1, Known
  <2>15. q.at \notin {"grant", "revokeRole", "mark"} /\ Open(invitations[q.inv])
    BY <2>7, <2>10, <2>8 DEF inv
  <2> QED
    BY <1>1, <2>2, <2>5, <2>10, <2>13, <2>14, <2>15, Quiet
<1> QED
  BY <1>2, <1>3 DEF readInvitation

-----------------------------------------------------------------------------
\* Requests write the row of a workspace.
LEMMA WorkspaceWrite ==
  ASSUME IInv, NEW c \in Callers, NEW D, Rest(c, D),
         workspaces' \in [Workspaces -> WorkspaceRow],
         \A w \in Workspaces :
           /\ Aged(workspaces[w], workspaces'[w])
           /\ \/ workspaces'[w].state = "live" /\ workspaces[w].state # "none" =>
                   workspaces'[w].owner = workspaces[w].owner
              \/ Checking(w) \subseteq D \cup {c},
         UNCHANGED <<members, grants, invitations, ghosts>>,
         begun' \in 0..MaxCalls, failures' \in 0..MaxFailures,
         Stands(call'[c], workspaces', members', invitations'),
         call[c].at \notin {"grant", "revokeRole", "mark"},
         call'[c].at \notin {"grant", "revokeRole", "mark"}, call'[c].op # "accept"
  PROVE  IInv'
<1>1. UNCHANGED <<reported, unsure, joined, contested>>
  BY DEF ghosts
<1>2. TypeOK'
  BY <1>1 DEF IInv, TypeOK, Rest
<1>3. invitations' \in [Invitations -> InvitationRow]
  BY DEF IInv, TypeOK
<1>4. OthersKnow(c, D)
  <2>1. \A i \in Invitations : invitations[i].version \in Nat
    BY <1>3 DEF InvitationRow
  <2>2. \A i \in Invitations : invitations[i].state # "none" =>
          InvAged(invitations[i], invitations'[i])
    BY <2>1 DEF InvAged
  <2>3. \A w : ActiveIn(members, w) \subseteq ActiveIn(members', w)
    OBVIOUS
  <2> QED
    BY <2>2, <2>3 DEF OthersKnow, SameAddress
<1>5. Requests'
  BY <1>3, <1>4, RequestsKept
<1>6. Unused'
  BY DEF IInv, Unused
<1>7. ASSUME NEW p \in Memberships \ unsure'
      PROVE  RolesOf(p)'
  <2>1. RolesOf(p)
    BY <1>1 DEF IInv
  <2>2. ~Grants(call[c], p) /\ ~Grants(call'[c], p)
    BY DEF Grants
  <2> QED
    BY <1>1, <2>1, <2>2, RolesElsewhere
<1>8. ASSUME NEW i \in Invitations \ contested'
      PROVE  JoinOf(i)'
  <2>1. JoinOf(i)
    BY <1>1 DEF IInv
  <2>2. ~Joins(call[c], i)
    BY DEF Joins
  <2>3. ~Accepts(call'[c], i)
    BY DEF Accepts
  <2> QED
    BY <1>1, <2>1, <2>2, <2>3, JoinElsewhere
<1> QED
  BY <1>2, <1>5, <1>6, <1>7, <1>8 DEF IInv

LEMMA insertWorkspaceInv ==
  ASSUME IInv, NEW c \in Callers, insertWorkspace(c)
  PROVE  IInv'
<1> DEFINE r == call[c]
<1>1. /\ r.at = "insert" /\ r.op = "create" /\ Finish(c)
      /\ UNCHANGED <<members, grants, invitations, begun, failures, ghosts>>
  BY DEF insertWorkspace, At
<1>2. CASE UNCHANGED workspaces
  BY <1>1, <1>2, Ends DEF data
<1>3. CASE \E w \in Workspaces :
            /\ workspaces[w].state = "none"
            /\ workspaces' = [workspaces EXCEPT ![w] =
                 [state |-> "live", slug |-> r.name, owner |-> r.user, version |-> 1]]
  <2>1. PICK w \in Workspaces :
            /\ workspaces[w].state = "none"
            /\ workspaces' = [workspaces EXCEPT ![w] =
                 [state |-> "live", slug |-> r.name, owner |-> r.user, version |-> 1]]
    BY <1>3
  <2> DEFINE row == [state |-> "live", slug |-> r.name, owner |-> r.user, version |-> 1]
  <2>2. r.name \in Slugs /\ r.user \in Users
    BY <1>1, Known DEF Shape
  <2>3. row \in WorkspaceRow
    BY <2>2 DEF WorkspaceRow
  <2>4. workspaces \in [Workspaces -> WorkspaceRow]
    BY DEF IInv, TypeOK
  <2> HIDE DEF row
  <2>5. workspaces' \in [Workspaces -> WorkspaceRow]
    BY <2>1, <2>3, <2>4 DEF row
  <2>6. \A x \in Workspaces : x # w => workspaces'[x] = workspaces[x]
    BY <2>1, <2>4
  <2>7. \A x \in Workspaces :
           /\ Aged(workspaces[x], workspaces'[x])
           /\ workspaces'[x].state = "live" /\ workspaces[x].state # "none" =>
                   workspaces'[x].owner = workspaces[x].owner
    BY <2>1, <2>6 DEF Aged
  <2>8. Rest(c, {}) /\ call'[c] = Idle
    BY <1>1, FinishRest
  <2>9. begun' \in 0..MaxCalls /\ failures' \in 0..MaxFailures
    BY <1>1, Known
  <2> QED
    BY <1>1, <2>5, <2>7, <2>8, <2>9, IdleRow, IdleStands, WorkspaceWrite
<1> QED
  BY <1>2, <1>3 DEF insertWorkspace

\* An update of a row leaves its state and its owner.
LEMMA WrittenRow ==
  ASSUME IInv, NEW w \in Workspaces, NEW fresh \in BOOLEAN
  PROVE  /\ Written(w, fresh) \in WorkspaceRow
         /\ Written(w, fresh).state = workspaces[w].state
         /\ Written(w, fresh).owner = workspaces[w].owner
<1> DEFINE x == workspaces[w]
           y == [x EXCEPT !.version = @ + 1]
<1>1. x \in WorkspaceRow
  BY DEF IInv, TypeOK
<1>2. x.version + 1 \in Nat
  BY <1>1 DEF WorkspaceRow
<1>3. y \in WorkspaceRow /\ y.state = x.state /\ y.owner = x.owner
  BY <1>1, <1>2, Zenon DEF WorkspaceRow
<1>4. Written(w, fresh) = x \/ Written(w, fresh) = y
  BY DEF Written
<1> HIDE DEF y
<1> QED
  BY <1>1, <1>3, <1>4

\* One row is written, and keeps its owner; it may be closed.
LEMMA RowWritten ==
  ASSUME IInv, NEW w \in Workspaces, NEW row \in WorkspaceRow,
         workspaces' = [workspaces EXCEPT ![w] = row],
         Aged(workspaces[w], row)
  PROVE  /\ workspaces' \in [Workspaces -> WorkspaceRow]
         /\ \A x \in Workspaces : Aged(workspaces[x], workspaces'[x])
         /\ workspaces'[w] = row
         /\ \A x \in Workspaces : x # w => workspaces'[x] = workspaces[x]
<1>1. workspaces \in [Workspaces -> WorkspaceRow]
  BY DEF IInv, TypeOK
<1>2. workspaces' \in [Workspaces -> WorkspaceRow]
  BY <1>1
<1>3. workspaces'[w] = row /\ \A x \in Workspaces : x # w => workspaces'[x] = workspaces[x]
  BY <1>1
<1>4. \A x \in Workspaces : Aged(workspaces[x], workspaces'[x])
  BY <1>3 DEF Aged
<1> QED
  BY <1>2, <1>3, <1>4

LEMMA writeReasonInv ==
  ASSUME IInv, NEW c \in Callers, writeReason(c)
  PROVE  IInv'
<1> DEFINE r == call[c]
           q == [r EXCEPT !.at = "write"]
           w == r.w
<1>1. /\ r.at = "reason" /\ r.op = "archive" /\ Goto(c, "write")
      /\ UNCHANGED <<members, grants, invitations, begun, ghosts>>
  BY DEF writeReason, At
<1>2. r \in CallRow /\ Shape(r) /\ Stands(r, workspaces, members, invitations) /\ w \in Workspaces
  BY Known
<1>3. \E fresh \in BOOLEAN : workspaces' = [workspaces EXCEPT ![w] = Written(w, fresh)]
                               \/ UNCHANGED workspaces
  BY DEF writeReason
<1>4. PICK fresh \in BOOLEAN : workspaces' = [workspaces EXCEPT ![w] = Written(w, fresh)]
                               \/ UNCHANGED workspaces
  BY <1>3
<1>5. /\ Written(w, fresh) \in WorkspaceRow
      /\ Written(w, fresh).state = workspaces[w].state
      /\ Written(w, fresh).owner = workspaces[w].owner
  BY <1>2, WrittenRow
<1>6. Aged(workspaces[w], Written(w, fresh))
  BY <1>5 DEF Aged
<1>7. /\ workspaces' \in [Workspaces -> WorkspaceRow]
      /\ \A x \in Workspaces : /\ Aged(workspaces[x], workspaces'[x])
                               /\ workspaces'[x].owner = workspaces[x].owner
  <2>1. CASE UNCHANGED workspaces
    BY <2>1 DEF Aged, IInv, TypeOK
  <2>2. CASE workspaces' = [workspaces EXCEPT ![w] = Written(w, fresh)]
    <3> DEFINE row == Written(w, fresh)
    <3>1. /\ row \in WorkspaceRow /\ row.owner = workspaces[w].owner
          /\ workspaces' = [workspaces EXCEPT ![w] = row] /\ Aged(workspaces[w], row)
      BY <1>5, <1>6, <2>2
    <3> HIDE DEF row, w
    <3>2. /\ workspaces' \in [Workspaces -> WorkspaceRow]
          /\ \A x \in Workspaces : Aged(workspaces[x], workspaces'[x])
          /\ workspaces'[w] = row
          /\ \A x \in Workspaces : x # w => workspaces'[x] = workspaces[x]
      BY <1>2, <3>1, RowWritten
    <3> QED
      BY <3>1, <3>2
  <2> QED
    BY <1>4, <2>1, <2>2
<1>8. /\ q \in CallRow /\ q.at = "write"
      /\ q.op = r.op /\ q.w = r.w /\ q.user = r.user /\ q.inv = r.inv
      /\ q.name = r.name /\ q.add = r.add /\ q.remove = r.remove /\ q.left = r.left
  BY <1>2, MovedRow
<1>9. Rest(c, {}) /\ call'[c] = q
  BY <1>1, <1>8, GotoRest DEF Goto
<1> HIDE DEF q
<1>10. Stands(q, workspaces', members', invitations')
  <2>1. Shape(q)
    BY <1>1, <1>2, <1>8 DEF Shape
  <2>2. q.inv \notin Invitations
    BY <1>1, <1>8, <2>1 DEF Shape
  <2>3. \A j \in Invitations : AddressFree(q, invitations'[j])
    BY <1>1, <1>8 DEF AddressFree
  <2>4. OwnerHeld(q, workspaces'[q.w], ActiveIn(members', q.w))
    BY <1>1, <1>8 DEF OwnerHeld
  <2> QED
    BY <2>1, <2>2, <2>3, <2>4 DEF Stands
<1>11. begun' \in 0..MaxCalls /\ failures' \in 0..MaxFailures
  BY <1>1, Known, Bounds DEF writeReason, Fails
<1>12. q.op # "accept"
  BY <1>1, <1>8
<1> QED
  BY <1>1, <1>7, <1>8, <1>9, <1>10, <1>11, <1>12, WorkspaceWrite

LEMMA writeWorkspaceInv ==
  ASSUME IInv, NEW c \in Callers, writeWorkspace(c)
  PROVE  IInv'
<1> DEFINE r == call[c]
           w == r.w
           x == workspaces[w]
           fresh == r.version = x.version
           closed == [x EXCEPT !.state = "archived"]
           row == CASE r.op = "update"  -> Written(w, fresh)
                    [] r.op = "restore" -> Written(w, TRUE)
                    [] r.op = "archive" -> IF Live(w) THEN closed ELSE x
<1>1. /\ r.at = "write" /\ r.op \in {"update", "restore", "archive"} /\ Finish(c)
      /\ UNCHANGED <<members, grants, invitations, begun, failures, ghosts>>
  BY DEF writeWorkspace
<1>2. w \in Workspaces /\ workspaces \in [Workspaces -> WorkspaceRow] /\ x \in WorkspaceRow
  BY Known DEF IInv, TypeOK
<1>3. workspaces' = [workspaces EXCEPT ![w] = row]
  BY DEF writeWorkspace
<1>4. closed \in WorkspaceRow /\ closed.owner = x.owner /\ closed.state = "archived"
  BY <1>2, Zenon DEF WorkspaceRow
<1> HIDE DEF closed
<1>5. /\ row \in WorkspaceRow /\ row.owner = x.owner
      /\ row.state = x.state \/ (x.state = "live" /\ row.state = "archived")
  <2>1. fresh \in BOOLEAN /\ TRUE \in BOOLEAN
    OBVIOUS
  <2>2. /\ Written(w, fresh) \in WorkspaceRow
        /\ Written(w, fresh).state = x.state /\ Written(w, fresh).owner = x.owner
    BY <1>2, <2>1, WrittenRow
  <2>3. /\ Written(w, TRUE) \in WorkspaceRow
        /\ Written(w, TRUE).state = x.state /\ Written(w, TRUE).owner = x.owner
    BY <1>2, <2>1, WrittenRow
  <2>4. CASE r.op = "update"
    BY <2>2, <2>4
  <2>5. CASE r.op = "restore"
    BY <2>3, <2>5
  <2>6. CASE r.op = "archive"
    <3>1. CASE Live(w)
      BY <1>4, <2>6, <3>1 DEF Live
    <3>2. CASE ~Live(w)
      BY <1>2, <2>6, <3>2
    <3> QED
      BY <3>1, <3>2
  <2> QED
    BY <1>1, <2>4, <2>5, <2>6
<1> HIDE DEF row
<1>6. Aged(x, row)
  BY <1>5 DEF Aged
<1>7. /\ workspaces' \in [Workspaces -> WorkspaceRow]
      /\ \A y \in Workspaces : Aged(workspaces[y], workspaces'[y])
      /\ workspaces'[w] = row
      /\ \A y \in Workspaces : y # w => workspaces'[y] = workspaces[y]
  <2> HIDE DEF w
  <2> QED
    BY <1>2, <1>3, <1>5, <1>6, RowWritten
<1>8. \A y \in Workspaces : workspaces'[y].owner = workspaces[y].owner
  BY <1>5, <1>7
<1>9. Rest(c, {}) /\ call'[c] = Idle
  BY <1>1, FinishRest
<1>10. begun' \in 0..MaxCalls /\ failures' \in 0..MaxFailures
  BY <1>1, Known
<1> QED
  BY <1>1, <1>7, <1>8, <1>9, <1>10, IdleRow, IdleStands, WorkspaceWrite

LEMMA setOwnerInv ==
  ASSUME IInv, NEW c \in Callers, setOwner(c)
  PROVE  IInv'
<1> DEFINE r == call[c]
           w == r.to
           x == workspaces[w]
           y == Written(w, TRUE)
           row == [y EXCEPT !.owner = r.user]
<1>1. /\ r.at = "write" /\ r.op = "transfer"
      /\ UNCHANGED <<members, grants, invitations, begun, failures, ghosts>>
  BY DEF setOwner, At
<1>2. CASE Finish(c) /\ UNCHANGED workspaces
  BY <1>1, <1>2, Ends DEF data
<1>3. CASE workspaces' = [workspaces EXCEPT ![w] = row] /\ FinishUnder(c, Checking(w))
  <2>1. w \in Workspaces /\ workspaces \in [Workspaces -> WorkspaceRow] /\ r.user \in Users
    BY <1>1, Known, RowFields DEF IInv, TypeOK, Shape
  <2>2. y \in WorkspaceRow /\ y.state = x.state
    BY <2>1, WrittenRow
  <2> HIDE DEF y
  <2>3. row \in WorkspaceRow /\ row.state = x.state
    BY <2>1, <2>2, Zenon DEF WorkspaceRow
  <2> HIDE DEF row
  <2>4. Aged(x, row)
    BY <2>3 DEF Aged
  <2>5. /\ workspaces' \in [Workspaces -> WorkspaceRow]
        /\ \A z \in Workspaces : Aged(workspaces[z], workspaces'[z])
        /\ \A z \in Workspaces : z # w => workspaces'[z] = workspaces[z]
    <3> HIDE DEF w
    <3> QED
      BY <1>3, <2>1, <2>3, <2>4, RowWritten
  <2>6. Rest(c, Checking(w)) /\ call'[c] = Idle
    BY <1>3, FinishUnderRest
  <2>7. begun' \in 0..MaxCalls /\ failures' \in 0..MaxFailures
    BY <1>1, Known
  <2>8. \A z \in Workspaces :
           \/ workspaces'[z].owner = workspaces[z].owner
           \/ Checking(z) \subseteq Checking(w) \cup {c}
    BY <2>5
  <2> QED
    BY <1>1, <2>5, <2>6, <2>7, <2>8, IdleRow, IdleStands, WorkspaceWrite
<1> QED
  BY <1>2, <1>3 DEF setOwner

-----------------------------------------------------------------------------
\* Requests write invitations.
LEMMA InvitationWrite ==
  ASSUME IInv, NEW c \in Callers, NEW D, Rest(c, D),
         invitations' \in [Invitations -> InvitationRow], OthersKnow(c, D),
         UNCHANGED <<workspaces, members, grants, unsure, joined>>,
         reported' \in [Memberships -> SUBSET Roles],
         contested \subseteq contested', contested' \subseteq Invitations,
         begun' \in 0..MaxCalls, failures' \in 0..MaxFailures,
         Stands(call'[c], workspaces', members', invitations'),
         Unused',
         \A p \in Memberships \ unsure :
           \/ ~Grants(call[c], p) /\ ~Grants(call'[c], p) /\ reported'[p] = reported[p]
           \/ RolesOf(p)',
         \A i \in Invitations \ contested' :
           /\ invitations[i].state # "none" /\ Open(invitations'[i]) => Open(invitations[i])
           /\ Joins(call[c], i) =>
                /\ ~Open(invitations'[i])
                /\ \A d \in Callers : d # c /\ Accepts(call[d], i) => d \in D
           /\ ~Accepts(call'[c], i)
  PROVE  IInv'
<1>1. TypeOK'
  BY DEF IInv, TypeOK, Rest
<1>2. Requests'
  BY RequestsKept
<1>3. ASSUME NEW p \in Memberships \ unsure'
      PROVE  RolesOf(p)'
  <2>1. RolesOf(p)
    BY DEF IInv
  <2>2. CASE ~Grants(call[c], p) /\ ~Grants(call'[c], p) /\ reported'[p] = reported[p]
    BY <2>1, <2>2, RolesElsewhere
  <2> QED
    BY <2>2
<1>4. ASSUME NEW i \in Invitations \ contested'
      PROVE  JoinOf(i)'
  <2>1. JoinOf(i)
    BY DEF IInv
  <2>2. CASE ~Joins(call[c], i)
    <3>1. invitations[i].state # "none" => invitations'[i].state # "none"
      BY DEF OthersKnow, InvAged
    <3> QED
      BY <2>1, <2>2, <3>1, JoinElsewhere
  <2>3. CASE Joins(call[c], i)
    <3>1. \A d \in Callers : Accepts(call'[d], i) => d # c /\ Accepts(call[d], i)
      BY OthersGoOn
    <3>2. \A d \in Callers : Accepts(call'[d], i) => call'[d].stale
      BY <2>3, <3>1, OthersGoOn
    <3>3. invitations[i].state # "none" => invitations'[i].state # "none"
      BY DEF OthersKnow, InvAged
    <3> QED
      BY <2>1, <2>3, <3>2, <3>3 DEF JoinOf
  <2> QED
    BY <2>2, <2>3
<1> QED
  BY <1>1, <1>2, <1>3, <1>4 DEF IInv

LEMMA InvitationRowWritten ==
  ASSUME IInv, NEW c, NEW D, NEW i \in Invitations, NEW y \in InvitationRow,
         invitations' = [invitations EXCEPT ![i] = y], UNCHANGED <<workspaces, members>>,
         invitations[i].state # "none", InvAged(invitations[i], y),
         \/ /\ y.acceptedBy = invitations[i].acceptedBy
            /\ Open(invitations[i]) /\ ~invitations[i].expired => Open(y) /\ ~y.expired
         \/ Accepting(i) \subseteq D \cup {c},
         Open(y) => Open(invitations[i]) /\ SameAddress(invitations[i], y)
  PROVE  /\ invitations' \in [Invitations -> InvitationRow] /\ OthersKnow(c, D) /\ Unused'
         /\ invitations'[i] = y
         /\ \A j \in Invitations : j # i => invitations'[j] = invitations[j]
<1>1. invitations \in [Invitations -> InvitationRow]
  BY DEF IInv, TypeOK
<1>2. /\ invitations' \in [Invitations -> InvitationRow] /\ invitations'[i] = y
      /\ \A j \in Invitations : j # i => invitations'[j] = invitations[j]
  BY <1>1
<1>3. \A j \in Invitations : invitations[j].version \in Nat
  BY <1>1 DEF InvitationRow
<1>4. \A w \in Workspaces : Aged(workspaces[w], workspaces'[w])
  BY DEF Aged
<1>5. \A j \in Invitations : invitations[j].state # "none" =>
        InvAged(invitations[j], invitations'[j])
  BY <1>2, <1>3 DEF InvAged
<1>6. \A j \in Invitations :
        \/ /\ invitations'[j].acceptedBy = invitations[j].acceptedBy
           /\ Open(invitations[j]) /\ ~invitations[j].expired =>
                Open(invitations'[j]) /\ ~invitations'[j].expired
        \/ Accepting(j) \subseteq D \cup {c}
  BY <1>2
<1>7. \A j \in Invitations : Open(invitations'[j]) =>
        Open(invitations[j]) /\ SameAddress(invitations[j], invitations'[j])
  BY <1>2 DEF SameAddress
<1>8. OthersKnow(c, D)
  BY <1>4, <1>5, <1>6, <1>7 DEF OthersKnow
<1>9. Unused'
  BY <1>2 DEF IInv, Unused, InvAged
<1> QED
  BY <1>2, <1>8, <1>9

LEMMA AcceptedRow ==
  ASSUME IInv, NEW i \in Invitations, NEW u \in Users, invitations[i].state = "live"
  PROVE  /\ AcceptedBy(i, u) \in InvitationRow /\ ~Open(AcceptedBy(i, u))
         /\ InvAged(invitations[i], AcceptedBy(i, u))
         /\ AcceptedBy(i, u).acceptedBy = u
<1> DEFINE x == invitations[i]
           y == [x EXCEPT !.acceptedBy = u, !.version = @ + 1]
<1>1. x \in InvitationRow
  BY DEF IInv, TypeOK
<1>2. x.version \in Nat /\ x.version + 1 \in Nat /\ u \in Users \cup {NoUser}
  BY <1>1 DEF InvitationRow
<1>3. /\ y \in InvitationRow /\ y.acceptedBy = u /\ y.version = x.version + 1
      /\ y.state = x.state /\ y.workspace = x.workspace
  BY <1>1, <1>2, Zenon DEF InvitationRow
<1>4. y = AcceptedBy(i, u)
  BY DEF AcceptedBy
<1> HIDE DEF y
<1>5. ~Open(y)
  BY <1>3, NamesAssumption DEF Open
<1>6. InvAged(x, y)
  BY <1>2, <1>3 DEF InvAged
<1> QED
  BY <1>3, <1>4, <1>5, <1>6

LEMMA flowAcceptInv ==
  ASSUME IInv, NEW c \in Callers, flowAccept(c)
  PROVE  IInv'
<1> DEFINE r == call[c]
           i == r.inv
           y == AcceptedBy(i, r.user)
<1>1. /\ r.at = "write" /\ r.op = "acceptInvitation"
      /\ UNCHANGED <<workspaces, members, grants, begun, failures, ghosts>>
  BY DEF flowAccept, At
<1>2. CASE Finish(c) /\ UNCHANGED invitations
  BY <1>1, <1>2, Ends DEF data
<1>3. CASE /\ invitations[i].state = "live" /\ invitations' = [invitations EXCEPT ![i] = y]
           /\ FinishUnder(c, Accepting(i))
  <2>1. i \in Invitations /\ r.user \in Users
    BY <1>1, Known DEF Shape
  <2>2. /\ y \in InvitationRow /\ ~Open(y) /\ InvAged(invitations[i], y)
    BY <1>3, <2>1, AcceptedRow
  <2> DEFINE D == Accepting(i)
  <2>3. Rest(c, D) /\ call'[c] = Idle
    BY <1>3, FinishUnderRest
  <2> HIDE DEF y
  <2>4. /\ invitations' \in [Invitations -> InvitationRow] /\ OthersKnow(c, D) /\ Unused'
        /\ invitations'[i] = y
        /\ \A j \in Invitations : j # i => invitations'[j] = invitations[j]
    <3> HIDE DEF i
    <3>1. D \subseteq D \cup {c} /\ workspaces' = workspaces /\ members' = members
          /\ invitations[i].state # "none"
      BY <1>1, <1>3
    <3> HIDE DEF D
    <3> QED
      BY <1>3, <2>1, <2>2, <3>1, InvitationRowWritten DEF D
  <2>5. \A p : ~Grants(call[c], p) /\ ~Grants(call'[c], p)
    BY <1>1, <2>3, IdleRow DEF Grants
  <2>6. \A j : ~Joins(call[c], j) /\ ~Accepts(call'[c], j)
    BY <1>1, <2>3, IdleRow DEF Joins, Accepts
  <2>7. \A j \in Invitations : Open(invitations'[j]) => Open(invitations[j])
    BY <2>2, <2>4
  <2>8. Stands(call'[c], workspaces', members', invitations')
    BY <2>3, IdleStands
  <2>9. /\ UNCHANGED <<reported, unsure, joined, contested>>
        /\ reported' \in [Memberships -> SUBSET Roles] /\ contested' \subseteq Invitations
    BY <1>1 DEF ghosts, IInv, TypeOK
  <2>10. begun' \in 0..MaxCalls /\ failures' \in 0..MaxFailures
    BY <1>1, Known
  <2> HIDE DEF D
  <2> QED
    BY <1>1, <2>3, <2>4, <2>5, <2>6, <2>7, <2>8, <2>9, <2>10, InvitationWrite
<1> QED
  BY <1>2, <1>3 DEF flowAccept

LEMMA archiveInvitationInv ==
  ASSUME IInv, NEW c \in Callers, archiveInvitation(c)
  PROVE  IInv'
<1> DEFINE r == call[c]
           i == r.inv
           x == invitations[i]
           closed == [x EXCEPT !.state = IF @ = "live" THEN "archived" ELSE @]
           D == Accepting(i)
<1>1. /\ r.at = "write" /\ r.op = "revoke" /\ FinishUnder(c, D)
      /\ UNCHANGED <<workspaces, members, grants, begun, failures, ghosts>>
  BY DEF archiveInvitation, At
<1>2. i \in Invitations /\ Stands(r, workspaces, members, invitations)
  BY <1>1, Known DEF Shape
<1>3. x \in InvitationRow /\ x.state # "none"
  BY <1>2 DEF IInv, TypeOK, Stands, InvitationHeld
<1>4. x.version \in Nat
  BY <1>3 DEF InvitationRow
<1>5. invitations' = [invitations EXCEPT ![i] = closed]
  BY DEF archiveInvitation
<1> DEFINE st == IF x.state = "live" THEN "archived" ELSE x.state
<1>6. st \in {"archived", "deleted"} /\ closed = [x EXCEPT !.state = st]
  BY <1>3 DEF InvitationRow
<1> HIDE DEF st
<1>7. st \in {"none", "live", "archived", "deleted"} /\ st # "none" /\ st # "live"
  BY <1>6
<1>8. /\ closed \in InvitationRow /\ closed.state = st
      /\ closed.acceptedBy = x.acceptedBy /\ closed.version = x.version
      /\ closed.workspace = x.workspace
  BY <1>3, <1>6, <1>7, Zenon DEF InvitationRow
<1>9. Rest(c, D) /\ call'[c] = Idle
  BY <1>1, FinishUnderRest
<1> HIDE DEF closed
<1>10. ~Open(closed) /\ InvAged(x, closed)
  BY <1>4, <1>8, <1>7 DEF Open, InvAged
<1>11. /\ invitations' \in [Invitations -> InvitationRow] /\ OthersKnow(c, D) /\ Unused'
      /\ invitations'[i] = closed
      /\ \A j \in Invitations : j # i => invitations'[j] = invitations[j]
  <2> HIDE DEF i
  <2>1. D \subseteq D \cup {c} /\ workspaces' = workspaces /\ members' = members
    BY <1>1
  <2> HIDE DEF D
  <2> QED
    BY <1>2, <1>3, <1>5, <1>8, <1>10, <2>1, InvitationRowWritten DEF D
<1>12. \A p : ~Grants(call[c], p) /\ ~Grants(call'[c], p)
  BY <1>1, <1>9, IdleRow DEF Grants
<1>13. \A j : ~Joins(call[c], j) /\ ~Accepts(call'[c], j)
  BY <1>1, <1>9, IdleRow DEF Joins, Accepts
<1>14. \A j \in Invitations : Open(invitations'[j]) => Open(invitations[j])
  BY <1>10, <1>11
<1>15. Stands(call'[c], workspaces', members', invitations')
  BY <1>9, IdleStands
<1>16. /\ UNCHANGED <<reported, unsure, joined, contested>>
       /\ reported' \in [Memberships -> SUBSET Roles] /\ contested' \subseteq Invitations
  BY <1>1 DEF ghosts, IInv, TypeOK
<1>17. begun' \in 0..MaxCalls /\ failures' \in 0..MaxFailures
  BY <1>1, Known
<1> HIDE DEF D
<1> QED
  BY <1>1, <1>9, <1>11, <1>12, <1>13, <1>14, <1>15, <1>16, <1>17, InvitationWrite

\* The member a request is about, when it grants or takes roles.
LEMMA Granter ==
  ASSUME IInv, NEW c \in Callers, call[c].at \in {"join", "grant", "revokeRole", "mark"}
  PROVE  /\ Self(c) \in Memberships /\ call[c].user \in Users
         /\ \A p : Grants(call[c], p) <=> p = Self(c) /\ call[c].at # "join"
<1>1. call[c].user \in Users /\ call[c].w \in Workspaces
  BY Known DEF Shape
<1> QED
  BY <1>1 DEF Self, Memberships, Grants

\* A request that ends has made the roles of its member what is reported.
LEMMA Reported ==
  ASSUME IInv, NEW c \in Callers, NEW D, Rest(c, D), call'[c] = Idle,
         call[c].at \in {"revokeRole", "mark"}, call[c].left = {} \/ call[c].at = "mark",
         NEW p \in Memberships \ unsure,
         UNCHANGED <<members, grants>>,
         reported' = [reported EXCEPT ![Self(c)] = (@ \cup call[c].add) \ call[c].remove]
  PROVE  \/ ~Grants(call[c], p) /\ ~Grants(call'[c], p) /\ reported'[p] = reported[p]
         \/ RolesOf(p)'
<1> DEFINE r == call[c]
<1>1. RolesOf(p)
  BY DEF IInv
<1>2. reported \in [Memberships -> SUBSET Roles]
  BY DEF IInv, TypeOK
<1>3. ~Grants(call'[c], p)
  BY IdleRow DEF Grants
<1>4. CASE p # Self(c)
  BY <1>2, <1>3, <1>4, Granter
<1>5. CASE p = Self(c)
  <2>1. Grants(r, p)
    BY <1>5, Granter
  <2>2. \A d \in Callers : d # c => ~Grants(call[d], p)
    BY <1>1, <2>1 DEF RolesOf
  <2>3. LiveGrants(p) = Due(r, reported[p])
    BY <1>1, <2>1 DEF RolesOf
  <2>4. r.at = "mark" => r.remove = {}
    BY Known DEF Shape
  <2>5. Due(r, reported[p]) = (reported[p] \cup r.add) \ r.remove
    <3>1. CASE r.at = "mark"
      BY <2>4, <3>1 DEF Due
    <3>2. CASE r.at = "revokeRole" /\ r.left = {}
      BY <3>2 DEF Due
    <3> QED
      BY <3>1, <3>2
  <2>6. reported'[p] = (reported[p] \cup r.add) \ r.remove
    BY <1>2, <1>5
  <2>7. LiveGrants(p)' = LiveGrants(p)
    BY DEF LiveGrants
  <2> QED
    BY <1>3, <2>2, <2>3, <2>5, <2>6, <2>7, RolesEnd
<1> QED
  BY <1>4, <1>5

LEMMA markAcceptedInv ==
  ASSUME IInv, NEW c \in Callers, markAccepted(c)
  PROVE  IInv'
<1> DEFINE r == call[c]
           i == r.inv
           x == invitations[i]
           D == Accepting(i)
           y == IF x.state = "live" THEN AcceptedBy(i, r.user) ELSE x
<1>1. /\ r.at = "mark" /\ r.op = "accept" /\ FinishUnder(c, D)
      /\ UNCHANGED <<workspaces, members, grants, begun, unsure, joined>>
      /\ reported' = [reported EXCEPT ![Self(c)] = @ \cup r.add]
  BY DEF markAccepted, At
<1>2. /\ i \in Invitations /\ Stands(r, workspaces, members, invitations) /\ Self(c) \in Memberships
      /\ r.user \in Users /\ r.remove = {} /\ r.add \in SUBSET Roles
  BY <1>1, Known, Granter, RowFields DEF Shape
<1>3. x \in InvitationRow /\ x.state # "none"
  BY <1>2 DEF IInv, TypeOK, Stands, InvitationHeld
<1>4. Rest(c, D) /\ call'[c] = Idle
  BY <1>1, FinishUnderRest
<1>5. /\ y \in InvitationRow /\ ~Open(y) /\ InvAged(x, y)
  <2>1. CASE x.state = "live"
    BY <1>2, <2>1, AcceptedRow
  <2>2. CASE x.state # "live"
    BY <1>3, <2>2 DEF Open, InvAged, InvitationRow
  <2> QED
    BY <2>1, <2>2
<1>6. reported' = [reported EXCEPT ![Self(c)] = (@ \cup r.add) \ r.remove]
  BY <1>1, <1>2
<1>7. reported' \in [Memberships -> SUBSET Roles]
  BY <1>1, <1>2 DEF IInv, TypeOK
<1>8. \A p \in Memberships \ unsure :
        \/ ~Grants(call[c], p) /\ ~Grants(call'[c], p) /\ reported'[p] = reported[p]
        \/ RolesOf(p)'
  BY <1>1, <1>4, <1>6, Reported
<1>9. Stands(call'[c], workspaces', members', invitations')
  BY <1>4, IdleStands
<1>10. \A j : ~Accepts(call'[c], j) /\ (Joins(call[c], j) => j = i)
  BY <1>1, <1>4, IdleRow DEF Joins, Accepts
<1>11. \A d \in Callers : Accepts(call[d], i) => d \in D
  BY DEF Accepts, Accepting
<1>12. begun' \in 0..MaxCalls
  BY <1>1, Known
<1>13. CASE /\ invitations' = [invitations EXCEPT ![i] =
               IF @.state = "live" THEN AcceptedBy(i, r.user) ELSE @]
            /\ UNCHANGED <<failures, contested>>
  <2>1. invitations' = [invitations EXCEPT ![i] = y]
    BY <1>13
  <2>2. D \subseteq D \cup {c} /\ workspaces' = workspaces /\ members' = members
    BY <1>1
  <2>3. failures' \in 0..MaxFailures /\ contested \subseteq contested' /\ contested' \subseteq Invitations
    BY <1>13, Known DEF IInv, TypeOK
  <2> HIDE DEF y
  <2>4. /\ invitations' \in [Invitations -> InvitationRow] /\ OthersKnow(c, D) /\ Unused'
        /\ invitations'[i] = y
        /\ \A j \in Invitations : j # i => invitations'[j] = invitations[j]
    <3> HIDE DEF i, D
    <3> QED
      BY <1>2, <1>3, <1>5, <2>1, <2>2, InvitationRowWritten DEF D
  <2>5. \A j \in Invitations \ contested' :
           /\ invitations[j].state # "none" /\ Open(invitations'[j]) => Open(invitations[j])
           /\ Joins(call[c], j) =>
                /\ ~Open(invitations'[j])
                /\ \A d \in Callers : d # c /\ Accepts(call[d], j) => d \in D
           /\ ~Accepts(call'[c], j)
    BY <1>5, <1>10, <1>11, <2>4
  <2> HIDE DEF D
  <2> QED
    BY <1>1, <1>4, <1>7, <1>8, <1>9, <1>12, <2>3, <2>4, <2>5, InvitationWrite
<1>14. CASE Fails /\ contested' = contested \cup {i} /\ UNCHANGED invitations
  <2>1. OthersKnow(c, D) /\ invitations' \in [Invitations -> InvitationRow]
    BY <1>1, <1>14, OthersUndisturbed
  <2>2. Unused'
    BY <1>14 DEF IInv, Unused
  <2>3. failures' \in 0..MaxFailures /\ contested \subseteq contested' /\ contested' \subseteq Invitations
    <3>1. contested \subseteq Invitations /\ failures \in 0..MaxFailures
      BY DEF IInv, TypeOK
    <3>2. failures' \in 0..MaxFailures
      BY <1>14, <3>1, Bounds DEF Fails
    <3> HIDE DEF i
    <3> QED
      BY <1>2, <1>14, <3>1, <3>2
  <2>4. \A j \in Invitations \ contested' :
           /\ invitations[j].state # "none" /\ Open(invitations'[j]) => Open(invitations[j])
           /\ Joins(call[c], j) =>
                /\ ~Open(invitations'[j])
                /\ \A d \in Callers : d # c /\ Accepts(call[d], j) => d \in D
           /\ ~Accepts(call'[c], j)
    BY <1>10, <1>14
  <2> HIDE DEF D
  <2> QED
    BY <1>1, <1>4, <1>7, <1>8, <1>9, <1>12, <2>1, <2>2, <2>3, <2>4, InvitationWrite
<1> QED
  BY <1>13, <1>14 DEF markAccepted

LEMMA insertInvitationInv ==
  ASSUME IInv, NEW c \in Callers, insertInvitation(c)
  PROVE  IInv'
<1> DEFINE r == call[c]
           y == [state |-> "live", workspace |-> r.w, email |-> r.name, roles |-> r.add,
                 expired |-> FALSE, acceptedBy |-> NoUser, version |-> 1]
           D == {d \in Callers : /\ At(d, "invite", "insert") /\ call[d].w = r.w
                                 /\ call[d].name = r.name}
<1>1. /\ r.at = "insert" /\ r.op = "invite" /\ FinishUnder(c, D)
      /\ UNCHANGED <<workspaces, members, grants, begun, failures, ghosts>>
  BY DEF insertInvitation, At
<1>2. /\ UNCHANGED <<reported, unsure, joined, contested>>
      /\ reported' \in [Memberships -> SUBSET Roles]
      /\ contested \subseteq contested' /\ contested' \subseteq Invitations
  BY <1>1 DEF ghosts, IInv, TypeOK
<1>3. r.name \in Emails /\ r.w \in Workspaces /\ r.add \in SUBSET Roles
  BY <1>1, Known, RowFields DEF Shape
<1>4. Rest(c, D) /\ call'[c] = Idle
  BY <1>1, FinishUnderRest
<1>5. \A p : ~Grants(call[c], p) /\ ~Grants(call'[c], p)
  BY <1>1, <1>4, IdleRow DEF Grants
<1>6. \A j : ~Joins(call[c], j) /\ ~Accepts(call'[c], j)
  BY <1>1, <1>4, IdleRow DEF Joins, Accepts
<1>7. Stands(call'[c], workspaces', members', invitations')
  BY <1>4, IdleStands
<1>8. begun' \in 0..MaxCalls /\ failures' \in 0..MaxFailures
  BY <1>1, Known
<1>9. CASE UNCHANGED invitations
  <2>1. OthersKnow(c, D) /\ invitations' \in [Invitations -> InvitationRow]
    BY <1>1, <1>9, OthersUndisturbed
  <2>2. Unused'
    BY <1>9 DEF IInv, Unused
  <2> HIDE DEF D
  <2> QED
    BY <1>1, <1>2, <1>4, <1>5, <1>6, <1>7, <1>8, <1>9, <2>1, <2>2, InvitationWrite
<1>10. ASSUME NEW i \in Invitations, invitations[i].state = "none",
              invitations' = [invitations EXCEPT ![i] = y]
       PROVE  IInv'
  <2>1. y \in InvitationRow
    BY <1>3 DEF InvitationRow
  <2>2. y.state = "live" /\ y.workspace = r.w /\ y.email = r.name
    OBVIOUS
  <2> HIDE DEF y
  <2>3. invitations \in [Invitations -> InvitationRow]
    BY DEF IInv, TypeOK
  <2>4. /\ invitations' \in [Invitations -> InvitationRow] /\ invitations'[i] = y
        /\ \A j \in Invitations : j # i => invitations'[j] = invitations[j]
    BY <1>10, <2>1, <2>3
  <2>5. \A w \in Workspaces : Aged(workspaces[w], workspaces'[w])
                              /\ workspaces'[w].owner = workspaces[w].owner
                              /\ ActiveIn(members, w) \subseteq ActiveIn(members', w)
    BY <1>1 DEF Aged
  <2>6. \A j \in Invitations : invitations[j].version \in Nat
    BY <2>3 DEF InvitationRow
  <2>7. \A j \in Invitations : invitations[j].state # "none" =>
            j # i /\ InvAged(invitations[j], invitations'[j])
    BY <1>10, <2>4, <2>6 DEF InvAged
  <2>8. \A d \in Callers \ {c} :
           At(d, "invite", "insert") /\ call[d].w = y.workspace /\ call[d].name = y.email
             => d \in D
    BY <2>2
  <2> HIDE DEF D
  <2>9. OthersKnow(c, D)
    BY <2>4, <2>5, <2>7, <2>8 DEF OthersKnow, SameAddress
  <2>10. Unused'
    BY <2>2, <2>4 DEF IInv, Unused
  <2>11. \A j \in Invitations : invitations[j].state # "none" => invitations'[j] = invitations[j]
    BY <2>4, <2>7
  <2> QED
    BY <1>1, <1>2, <1>4, <1>5, <1>6, <1>7, <1>8, <2>4, <2>9, <2>10, <2>11, InvitationWrite
<1> QED
  BY <1>9, <1>10 DEF insertInvitation

LEMMA expireInv ==
  ASSUME IInv, NEW i \in Invitations, expire(i)
  PROVE  IInv'
<1> DEFINE x == invitations[i]
           y == [x EXCEPT !.expired = TRUE]
           D == Accepting(i)
<1>1. /\ Pending(i) /\ invitations' = [invitations EXCEPT ![i] = y]
      /\ UNCHANGED <<workspaces, members, grants, begun, failures, ghosts>>
  BY DEF expire
<1>2. x \in InvitationRow /\ TRUE \in BOOLEAN
  BY DEF IInv, TypeOK
<1>3. /\ y \in InvitationRow /\ y.state = x.state /\ y.acceptedBy = x.acceptedBy
      /\ y.version = x.version /\ y.workspace = x.workspace /\ y.email = x.email
  BY <1>2, Zenon DEF InvitationRow
<1>4. x.version \in Nat
  BY <1>2 DEF InvitationRow
<1> HIDE DEF y
<1>5. InvAged(x, y) /\ SameAddress(x, y) /\ (Open(y) => Open(x)) /\ x.state # "none" /\ Open(x)
  BY <1>1, <1>3, <1>4 DEF InvAged, SameAddress, Open, Pending
<1>6. PICK c : c \notin Callers
  BY NoSetContainsEverything
<1>7. Rest(c, D)
  <2>1. call \in [Callers -> CallRow]
    BY DEF IInv, TypeOK
  <2>2. call' = [d \in Callers |-> IF d \in D THEN Stale(call[d]) ELSE call[d]]
    BY DEF expire, Stale
  <2> HIDE DEF D
  <2>3. \A d \in Callers : call'[d] = IF d \in D THEN Stale(call[d]) ELSE call[d]
    BY <2>2
  <2>4. call' \in [Callers -> CallRow]
    BY <2>1, <2>2, <2>3, StaleRow
  <2> QED
    BY <2>3, <2>4 DEF Rest
<1>8. /\ invitations' \in [Invitations -> InvitationRow] /\ OthersKnow(c, D) /\ Unused'
      /\ invitations'[i] = y
      /\ \A j \in Invitations : j # i => invitations'[j] = invitations[j]
  <2>1. D \subseteq D \cup {c} /\ workspaces' = workspaces /\ members' = members
    BY <1>1
  <2> QED
    BY <1>1, <1>3, <1>5, <2>1, InvitationRowWritten
<1> HIDE DEF D
<1>9. UNCHANGED <<reported, unsure, joined, contested>>
  BY <1>1 DEF ghosts
<1>10. TypeOK'
  BY <1>1, <1>7, <1>8, <1>9 DEF IInv, TypeOK, Rest
<1>11. Requests'
  BY <1>6, <1>7, <1>8, OthersStand DEF Requests
<1>12. \A d \in Callers : /\ \A p : Grants(call'[d], p) <=> Grants(call[d], p)
                          /\ \A rep : Due(call'[d], rep) = Due(call[d], rep)
                          /\ \A j : Accepts(call'[d], j) <=> Accepts(call[d], j)
                          /\ \A j : Joins(call'[d], j) <=> Joins(call[d], j)
                          /\ call[d].stale => call'[d].stale
  BY <1>6, <1>7, OthersGoOn
<1>13. ASSUME NEW p \in Memberships \ unsure'
       PROVE  RolesOf(p)'
  <2>1. LiveGrants(p)' = LiveGrants(p) /\ RolesOf(p)
    BY <1>1, <1>9 DEF LiveGrants, IInv
  <2> QED
    BY <1>1, <1>9, <1>12, <2>1 DEF RolesOf
<1>14. ASSUME NEW j \in Invitations \ contested'
       PROVE  JoinOf(j)'
  <2>1. JoinOf(j)
    BY <1>9 DEF IInv
  <2>2. Open(invitations'[j]) => Open(invitations[j])
    BY <1>5, <1>8
  <2>3. invitations[j].state # "none" => invitations'[j].state # "none"
    BY <1>3, <1>8
  <2> QED
    BY <1>9, <1>12, <2>1, <2>2, <2>3 DEF JoinOf
<1> QED
  BY <1>8, <1>10, <1>11, <1>13, <1>14 DEF IInv

-----------------------------------------------------------------------------
\* Requests write members and their roles.
LEMMA MembersWrite ==
  ASSUME IInv, NEW c \in Callers, NEW D, Rest(c, D), UNCHANGED <<workspaces, invitations>>,
         members' \in [Memberships -> MemberRow],
         grants' \in [Memberships -> [Roles -> {"none", "live", "archived"}]],
         reported' \in [Memberships -> SUBSET Roles], unsure' \subseteq Memberships,
         joined' \in [Invitations -> SUBSET Users], contested' \subseteq Invitations,
         begun' \in 0..MaxCalls, failures' \in 0..MaxFailures,
         \A w \in Workspaces : ActiveIn(members, w) \subseteq ActiveIn(members', w)
                               \/ Checking(w) \subseteq D \cup {c},
         Stands(call'[c], workspaces', members', invitations'),
         \A p \in Memberships \ unsure' : RolesOf(p)',
         \A i \in Invitations \ contested' : JoinOf(i)'
  PROVE  IInv'
<1>1. TypeOK'
  BY DEF IInv, TypeOK, Rest
<1>2. invitations' \in [Invitations -> InvitationRow]
  BY DEF IInv, TypeOK
<1>3. \A i \in Invitations : invitations[i].version \in Nat
  BY <1>2 DEF InvitationRow
<1>4. \A i \in Invitations : invitations[i].state # "none" =>
        InvAged(invitations[i], invitations'[i])
  BY <1>3 DEF InvAged
<1>5. \A w \in Workspaces : Aged(workspaces[w], workspaces'[w])
  BY DEF Aged
<1>6. OthersKnow(c, D)
  BY <1>4, <1>5 DEF OthersKnow, SameAddress
<1>7. Requests'
  BY <1>2, <1>6, RequestsKept
<1>8. Unused'
  BY DEF IInv, Unused
<1> QED
  BY <1>1, <1>7, <1>8 DEF IInv

\* A request that changes roles knows of its invitation what it knew.
LEMMA StandsOn ==
  ASSUME IInv, NEW c \in Callers, NEW q \in CallRow,
         UNCHANGED <<workspaces, invitations>>,
         q.at \in {"grant", "revokeRole", "mark"}, Shape(q),
         q.op = call[c].op, q.w = call[c].w, q.inv = call[c].inv, q.stale = call[c].stale,
         call[c].op = "accept" => call[c].at # "read"
  PROVE  Stands(q, workspaces', members', invitations')
<1> DEFINE r == call[c]
<1>1. Stands(r, workspaces, members, invitations)
  BY Known
<1>2. q.op \in {"add", "change", "accept"}
  BY DEF Shape
<1>3. q.inv \in Invitations => InvitationHeld(q, invitations[q.inv], workspaces[q.w])
  BY <1>1, <1>2 DEF Stands, InvitationHeld
<1>4. \A j \in Invitations : AddressFree(q, invitations[j])
  BY DEF AddressFree
<1>5. OwnerHeld(q, workspaces[q.w], ActiveIn(members', q.w))
  BY <1>2 DEF OwnerHeld
<1> QED
  BY <1>3, <1>4, <1>5 DEF Stands

LEMMA failRequestInv ==
  ASSUME IInv, NEW c \in Callers, failRequest(c)
  PROVE  IInv'
<1> DEFINE r == call[c]
<1>1. Fails /\ Finish(c) /\ UNCHANGED <<data, begun, reported, joined>>
  BY DEF failRequest
<1>2. UNCHANGED <<workspaces, members, grants, invitations>>
  BY <1>1 DEF data
<1>3. Rest(c, {}) /\ call'[c] = Idle
  BY <1>1, FinishRest
<1>4. ASSUME NEW p \in Memberships \ unsure'
      PROVE  RolesOf(p)'
  <2>1. RolesOf(p) /\ ~Grants(call[c], p)
    BY <1>1 DEF failRequest, IInv, Grants, Self
  <2>2. ~Grants(call'[c], p)
    BY <1>3, IdleRow DEF Grants
  <2> QED
    BY <1>1, <1>2, <1>3, <2>1, <2>2, RolesElsewhere
<1>5. ASSUME NEW i \in Invitations \ contested'
      PROVE  JoinOf(i)'
  <2>1. JoinOf(i) /\ ~Accepts(call[c], i)
    BY <1>1 DEF failRequest, IInv, Accepts
  <2>2. ~Accepts(call'[c], i)
    BY <1>3, IdleRow DEF Accepts
  <2>3. ~Joins(call[c], i)
    BY <2>1 DEF Joins
  <2> QED
    BY <1>1, <1>2, <1>3, <2>1, <2>2, <2>3, JoinElsewhere
<1>6. Stands(call'[c], workspaces', members', invitations')
  BY <1>3, IdleStands
<1>7. failures' \in 0..MaxFailures /\ begun' \in 0..MaxCalls
  BY <1>1, Known, Bounds DEF Fails
<1>8. unsure' \subseteq Memberships
  <2>1. CASE r.at \in {"grant", "revokeRole", "mark"}
    BY <2>1, Granter DEF failRequest, IInv, TypeOK
  <2>2. CASE r.at \notin {"grant", "revokeRole", "mark"}
    BY <2>2 DEF failRequest, IInv, TypeOK
  <2> QED
    BY <2>1, <2>2
<1>9. contested' \subseteq Invitations
  <2>1. r.op = "accept" => r.inv \in Invitations
    BY Known DEF Shape
  <2> QED
    BY <2>1 DEF failRequest, IInv, TypeOK
<1>10. /\ members' \in [Memberships -> MemberRow]
       /\ grants' \in [Memberships -> [Roles -> {"none", "live", "archived"}]]
       /\ reported' \in [Memberships -> SUBSET Roles]
       /\ joined' \in [Invitations -> SUBSET Users]
  BY <1>1, <1>2 DEF IInv, TypeOK
<1> QED
  BY <1>2, <1>3, <1>4, <1>5, <1>6, <1>7, <1>8, <1>9, <1>10, MembersWrite

LEMMA checkMemberInv ==
  ASSUME IInv, NEW c \in Callers, checkMember(c)
  PROVE  IInv'
<1> DEFINE r == call[c]
           q == [r EXCEPT !.at = "grant", !.left = r.add]
<1>1. /\ r.op = "change" /\ r.at = "read"
      /\ UNCHANGED <<data, begun, failures, reported, joined, contested>>
      /\ UNCHANGED <<workspaces, members, grants, invitations>>
  BY DEF checkMember, At, data
<1>2. CASE Finish(c) /\ UNCHANGED unsure
  BY <1>1, <1>2, Ends DEF ghosts
<1>3. CASE /\ members[Self(c)].status # "none"
           /\ call' = [call EXCEPT ![c].at = "grant", ![c].left = call[c].add]
           /\ unsure' = unsure \cup (IF Granting(Self(c), c) THEN {Self(c)} ELSE {})
  <2>1. r \in CallRow /\ Shape(r) /\ r.user \in Users /\ r.w \in Workspaces /\ r.add \in SUBSET Roles
    BY <1>1, Known, RowFields DEF Shape
  <2>2. call' = [call EXCEPT ![c] = q]
    BY <1>3
  <2>3. /\ q \in CallRow /\ q.at = "grant" /\ q.left = r.add
        /\ q.op = r.op /\ q.w = r.w /\ q.user = r.user /\ q.inv = r.inv
        /\ q.name = r.name /\ q.add = r.add /\ q.remove = r.remove
        /\ q.stale = r.stale
    BY <2>1, Zenon DEF CallRow
  <2> HIDE DEF q
  <2>4. Rest(c, {}) /\ call'[c] = q
    BY <2>2, <2>3, GotoRest
  <2>5. Self(c) \in Memberships
    BY <2>1 DEF Self, Memberships
  <2>6. Shape(q)
    BY <1>1, <2>1, <2>3 DEF Shape
  <2>7. Stands(q, workspaces', members', invitations')
    BY <1>1, <2>3, <2>6, StandsOn
  <2>8. ASSUME NEW p \in Memberships \ unsure'
        PROVE  RolesOf(p)'
    <3>1. RolesOf(p) /\ ~Grants(r, p)
      BY <1>1, <1>3 DEF IInv, Grants
    <3>2. CASE p # Self(c)
      <4>1. ~Grants(q, p)
        BY <2>3, <3>2 DEF Grants, Self
      <4> QED
        BY <1>1, <2>4, <3>1, <4>1, RolesElsewhere
    <3>3. CASE p = Self(c)
      <4>1. \A d \in Callers : d # c => ~Grants(call[d], p)
        BY <1>3, <3>3 DEF Granting, Grants, Self
      <4>2. LiveGrants(p) = reported[p]
        BY <3>1, <4>1 DEF RolesOf
      <4>3. Grants(q, p)
        BY <2>3, <3>3 DEF Grants, Self
      <4>4. Due(q, reported[p]) = reported[p]
        BY <2>3 DEF Due
      <4>5. LiveGrants(p)' = Due(call'[c], reported'[p])
        BY <1>1, <2>4, <4>2, <4>4 DEF LiveGrants
      <4> QED
        BY <1>1, <1>3, <2>4, <3>3, <4>1, <4>3, <4>5, RolesHere
    <3> QED
      BY <3>2, <3>3
  <2>9. ASSUME NEW i \in Invitations \ contested'
        PROVE  JoinOf(i)'
    <3>1. JoinOf(i)
      BY <1>1 DEF IInv
    <3>2. ~Accepts(call'[c], i) /\ ~Joins(call[c], i)
      BY <1>1, <2>3, <2>4 DEF Accepts, Joins
    <3> QED
      BY <1>1, <2>4, <3>1, <3>2, JoinElsewhere
  <2>10. unsure' \subseteq Memberships
    BY <1>3, <2>5 DEF IInv, TypeOK
  <2>11. /\ members' \in [Memberships -> MemberRow]
         /\ grants' \in [Memberships -> [Roles -> {"none", "live", "archived"}]]
         /\ reported' \in [Memberships -> SUBSET Roles]
         /\ joined' \in [Invitations -> SUBSET Users] /\ contested' \subseteq Invitations
         /\ failures' \in 0..MaxFailures /\ begun' \in 0..MaxCalls
    BY <1>1 DEF IInv, TypeOK
  <2> QED
    BY <1>1, <2>4, <2>7, <2>8, <2>9, <2>10, <2>11, MembersWrite
<1> QED
  BY <1>2, <1>3 DEF checkMember

\* The roles G of a member become H as r becomes q: they stay what is due.
LiveIn(G) == {x \in Roles : G[x] = "live"}
InStep(G, H, r, q, rep) == LiveIn(G) = Due(r, rep) => LiveIn(H) = Due(q, rep)
SameRequest(q, r) == q.op = r.op /\ q.w = r.w /\ q.user = r.user /\ q.inv = r.inv /\ q.stale = r.stale

\* A request that changes the roles of a member goes on changing them.
LEMMA StillGranting ==
  ASSUME IInv, NEW c \in Callers, call[c].at \in {"grant", "revokeRole"},
         NEW s \in Memberships, s = Self(c), NEW q \in CallRow, call' = [call EXCEPT ![c] = q],
         q.at \in {"grant", "revokeRole", "mark"}, Shape(q),
         SameRequest(q, call[c]),
         UNCHANGED <<workspaces, members, invitations, begun, reported, joined, contested>>,
         failures' \in 0..MaxFailures, unsure \subseteq unsure', unsure' \subseteq Memberships,
         grants' \in [Memberships -> [Roles -> {"none", "live", "archived"}]],
         \A p \in Memberships : p # s => grants'[p] = grants[p],
         s \notin unsure' => InStep(grants[s], grants'[s], call[c], q, reported[s])
  PROVE  IInv'
<1> DEFINE r == call[c]
<1>1. Rest(c, {}) /\ call'[c] = q
  BY GotoRest
<1>2. \A p : (Grants(r, p) <=> p = s) /\ (Grants(q, p) <=> p = s)
  BY Granter DEF Grants, Self, SameRequest
<1>3. Stands(q, workspaces', members', invitations')
  BY StandsOn DEF SameRequest
<1>4. ASSUME NEW p \in Memberships \ unsure'
      PROVE  RolesOf(p)'
  <2>1. RolesOf(p)
    BY DEF IInv
  <2>2. CASE p # s
    BY <1>1, <1>2, <2>1, <2>2, RolesElsewhere
  <2>3. CASE p = s
    <3>1. /\ \A d \in Callers : d # c => ~Grants(call[d], p)
          /\ members[p].status # "none" /\ LiveGrants(p) = Due(r, reported[p])
      BY <1>2, <2>1, <2>3 DEF RolesOf
    <3>2. LiveGrants(p)' = Due(call'[c], reported'[p])
      <4>1. LiveGrants(s) = Due(r, reported[s]) /\ s \notin unsure'
        BY <2>3, <3>1
      <4>2. LiveGrants(s)' = Due(q, reported[s])
        BY <4>1 DEF InStep, LiveIn, LiveGrants
      <4> QED
        BY <1>1, <2>3, <4>2
    <3> QED
      BY <1>1, <1>2, <2>3, <3>1, <3>2, RolesHere
  <2> QED
    BY <2>2, <2>3
<1>5. ASSUME NEW i \in Invitations \ contested'
      PROVE  JoinOf(i)'
  <2>1. JoinOf(i)
    BY DEF IInv
  <2>2. q.op = "accept" => q.at # "revokeRole"
    BY DEF Shape
  <2>3. (Joins(r, i) => Joins(q, i)) /\ (Accepts(q, i) => Accepts(r, i)) /\ q.stale = r.stale
    BY <2>2 DEF Joins, Accepts, SameRequest
  <2> QED
    BY <1>1, <2>1, <2>3, JoinElsewhere
<1>6. /\ members' \in [Memberships -> MemberRow]
      /\ reported' \in [Memberships -> SUBSET Roles]
      /\ joined' \in [Invitations -> SUBSET Users] /\ contested' \subseteq Invitations
      /\ begun' \in 0..MaxCalls
  BY DEF IInv, TypeOK
<1> QED
  BY <1>1, <1>3, <1>4, <1>5, <1>6, MembersWrite

LEMMA grantedInv ==
  ASSUME IInv, NEW c \in Callers, granted(c)
  PROVE  IInv'
<1> DEFINE r == call[c]
           place == IF r.op = "accept" THEN "mark" ELSE "revokeRole"
           q == [r EXCEPT !.at = place, !.left = r.remove]
<1>1. /\ r.at = "grant" /\ r.left = {} /\ UNCHANGED <<data, begun, failures, ghosts>>
      /\ UNCHANGED <<workspaces, members, grants, invitations, reported, unsure, joined, contested>>
  BY DEF granted, data, ghosts
<1>2. r \in CallRow /\ Shape(r) /\ r.remove \in SUBSET Roles
  BY Known, RowFields
<1>3. call' = [call EXCEPT ![c] = q]
  BY DEF granted
<1>4. place \in {"mark", "revokeRole"} /\ (place = "mark" <=> r.op = "accept")
  OBVIOUS
<1> HIDE DEF place
<1>5. place \in {"idle", "read", "insert", "reason", "write", "join", "grant",
        "revokeRole", "mark", "workspace", "count"}
  BY <1>4
<1>6. /\ q \in CallRow /\ q.at = place /\ q.left = r.remove
      /\ q.op = r.op /\ q.w = r.w /\ q.user = r.user /\ q.inv = r.inv
      /\ q.name = r.name /\ q.add = r.add /\ q.remove = r.remove
      /\ q.stale = r.stale
  BY <1>2, <1>5, ZenonT(60) DEF CallRow
<1> HIDE DEF q
<1>7. Shape(q)
  BY <1>1, <1>2, <1>4, <1>6 DEF Shape
<1>8. \A rep : Due(q, rep) = Due(r, rep)
  BY <1>1, <1>4, <1>6 DEF Due
<1>9. PICK s \in Memberships : s = Self(c)
  BY <1>1, Granter
<1>10. InStep(grants[s], grants'[s], r, q, reported[s]) /\ SameRequest(q, r)
  BY <1>1, <1>6, <1>8 DEF InStep, SameRequest
<1>11. /\ grants' \in [Memberships -> [Roles -> {"none", "live", "archived"}]]
       /\ unsure' \subseteq Memberships /\ failures' \in 0..MaxFailures
  BY <1>1 DEF IInv, TypeOK
<1> QED
  BY <1>1, <1>3, <1>4, <1>6, <1>7, <1>8, <1>10, <1>11, <1>9, StillGranting

\* One role of those that are left is taken off the list.
LEMMA OneLess ==
  ASSUME NEW r \in CallRow, NEW x, Shape(r), r.at \in {"grant", "revokeRole"}
  PROVE  LET q == [r EXCEPT !.left = r.left \ {x}] IN
         /\ q \in CallRow /\ Shape(q)
         /\ q.left = r.left \ {x} /\ q.at = r.at
         /\ SameRequest(q, r) /\ q.add = r.add /\ q.remove = r.remove
<1> DEFINE l == r.left \ {x}
           q == [r EXCEPT !.left = l]
<1>1. l \in SUBSET Roles
  BY RowFields
<1>2. l \subseteq r.left
  OBVIOUS
<1> HIDE DEF l
<1>3. /\ q \in CallRow /\ q.left = l /\ q.at = r.at
      /\ q.op = r.op /\ q.w = r.w /\ q.user = r.user /\ q.inv = r.inv
      /\ q.name = r.name /\ q.add = r.add /\ q.remove = r.remove
      /\ q.stale = r.stale
  BY <1>1, Zenon DEF CallRow
<1> HIDE DEF q
<1>4. Shape(q)
  BY <1>2, <1>3 DEF Shape
<1> QED
  BY <1>3, <1>4 DEF q, l, SameRequest

LEMMA grantRoleInv ==
  ASSUME IInv, NEW c \in Callers, NEW x \in Roles, grantRole(c, x)
  PROVE  IInv'
<1> DEFINE r == call[c]
           q == [r EXCEPT !.left = r.left \ {x}]
<1>1. /\ r.at = "grant" /\ x \in r.left
      /\ UNCHANGED <<workspaces, members, invitations, begun, reported, joined, contested>>
  BY DEF grantRole
<1>2. r \in CallRow /\ Shape(r)
  BY Known
<1>3. call' = [call EXCEPT ![c] = q]
  BY DEF grantRole
<1>4. /\ q \in CallRow /\ Shape(q)
      /\ q.left = r.left \ {x} /\ q.at = r.at
      /\ SameRequest(q, r) /\ q.add = r.add /\ q.remove = r.remove
  BY <1>1, <1>2, OneLess
<1> HIDE DEF q
<1>5. \A rep : Due(q, rep) = Due(r, rep) \cup {x}
  <2>1. r.left \subseteq r.add
    BY <1>1, <1>2 DEF Shape
  <2> QED
    BY <1>1, <1>4, <2>1 DEF Due
<1>6. PICK s \in Memberships : s = Self(c)
  BY <1>1, Granter
<1>7. grants \in [Memberships -> [Roles -> {"none", "live", "archived"}]]
      /\ unsure \subseteq Memberships /\ failures \in 0..MaxFailures
  BY DEF IInv, TypeOK
<1>8. CASE /\ grants' = [grants EXCEPT ![s][x] = "live"]
           /\ UNCHANGED <<failures, unsure>>
  <2>1. grants' \in [Memberships -> [Roles -> {"none", "live", "archived"}]]
    BY <1>7, <1>8
  <2>2. \A p \in Memberships : p # s => grants'[p] = grants[p]
    BY <1>7, <1>8
  <2>3. grants'[s] = [grants[s] EXCEPT ![x] = "live"]
    BY <1>7, <1>8
  <2>4. LiveGrants(s)' = LiveGrants(s) \cup {x}
    <3>1. grants[s] \in [Roles -> {"none", "live", "archived"}]
      BY <1>7
    <3>2. \A y \in Roles : grants'[s][y] = IF y = x THEN "live" ELSE grants[s][y]
      BY <2>3, <3>1
    <3> QED
      BY <3>2 DEF LiveGrants
  <2>5. InStep(grants[s], grants'[s], r, q, reported[s])
    BY <1>5, <2>4 DEF InStep, LiveIn, LiveGrants
  <2>6. failures' \in 0..MaxFailures /\ unsure \subseteq unsure' /\ unsure' \subseteq Memberships
    BY <1>7, <1>8
  <2> QED
    BY <1>1, <1>3, <1>4, <1>6, <2>1, <2>2, <2>5, <2>6, StillGranting
<1>9. CASE /\ failures' \in 0..MaxFailures
           /\ unsure' = unsure \cup (IF grants[s][x] = "live" THEN {} ELSE {s})
           /\ UNCHANGED grants
  <2>1. LiveGrants(s)' = LiveGrants(s)
    BY <1>9 DEF LiveGrants
  <2>2. s \notin unsure' => x \in LiveGrants(s)
    BY <1>9 DEF LiveGrants
  <2>3. unsure \subseteq unsure' /\ unsure' \subseteq Memberships
    BY <1>7, <1>9
  <2>4. s \notin unsure' => InStep(grants[s], grants'[s], r, q, reported[s])
    BY <1>5, <2>1, <2>2 DEF InStep, LiveIn, LiveGrants
  <2> QED
    BY <1>1, <1>3, <1>4, <1>7, <1>9, <1>6, <2>3, <2>4, StillGranting
<1>10. Fails \/ UNCHANGED failures => failures' \in 0..MaxFailures
  BY <1>7, Bounds DEF Fails
<1> QED
  BY <1>8, <1>9, <1>10, <1>6 DEF grantRole

LEMMA revokeRoleInv ==
  ASSUME IInv, NEW c \in Callers, NEW x \in Roles, revokeRole(c, x)
  PROVE  IInv'
<1> DEFINE r == call[c]
           q == [r EXCEPT !.left = r.left \ {x}]
<1>1. /\ r.at = "revokeRole" /\ x \in r.left
      /\ UNCHANGED <<workspaces, members, invitations, begun, reported, joined, contested>>
  BY DEF revokeRole
<1>2. r \in CallRow /\ Shape(r)
  BY Known
<1>3. call' = [call EXCEPT ![c] = q]
  BY DEF revokeRole
<1>4. /\ q \in CallRow /\ Shape(q)
      /\ q.left = r.left \ {x} /\ q.at = r.at
      /\ SameRequest(q, r) /\ q.add = r.add /\ q.remove = r.remove
  BY <1>1, <1>2, OneLess
<1> HIDE DEF q
<1>5. \A rep : Due(q, rep) = Due(r, rep) \ {x}
  <2>1. x \in r.remove
    BY <1>1, <1>2 DEF Shape
  <2> QED
    BY <1>1, <1>4, <2>1 DEF Due
<1>6. PICK s \in Memberships : s = Self(c)
  BY <1>1, Granter
<1>7. grants \in [Memberships -> [Roles -> {"none", "live", "archived"}]]
      /\ unsure \subseteq Memberships /\ failures \in 0..MaxFailures
  BY DEF IInv, TypeOK
<1>8. CASE /\ grants' = [grants EXCEPT ![s][x] = IF @ = "live" THEN "archived" ELSE @]
           /\ UNCHANGED <<failures, unsure>>
  <2> DEFINE v == IF grants[s][x] = "live" THEN "archived" ELSE grants[s][x]
  <2>1. grants[s] \in [Roles -> {"none", "live", "archived"}]
    BY <1>7
  <2>2. v \in {"none", "live", "archived"} /\ v # "live"
    BY <2>1
  <2>3. grants' = [grants EXCEPT ![s] = [grants[s] EXCEPT ![x] = v]]
    BY <1>7, <1>8
  <2> HIDE DEF v
  <2>4. grants' \in [Memberships -> [Roles -> {"none", "live", "archived"}]]
    BY <1>7, <2>1, <2>2, <2>3
  <2>5. \A p \in Memberships : p # s => grants'[p] = grants[p]
    BY <1>7, <2>3
  <2>6. \A y \in Roles : grants'[s][y] = IF y = x THEN v ELSE grants[s][y]
    BY <1>7, <2>1, <2>3
  <2>7. LiveGrants(s)' = LiveGrants(s) \ {x}
    BY <2>2, <2>6 DEF LiveGrants
  <2>8. InStep(grants[s], grants'[s], r, q, reported[s])
    BY <1>5, <2>7 DEF InStep, LiveIn, LiveGrants
  <2>9. failures' \in 0..MaxFailures /\ unsure \subseteq unsure' /\ unsure' \subseteq Memberships
    BY <1>7, <1>8
  <2> QED
    BY <1>1, <1>3, <1>4, <1>6, <2>4, <2>5, <2>8, <2>9, StillGranting
<1>9. CASE Fails /\ unsure' = unsure \cup {s} /\ UNCHANGED grants
  <2>1. failures' \in 0..MaxFailures
    BY <1>7, <1>9, Bounds DEF Fails
  <2>2. unsure \subseteq unsure' /\ unsure' \subseteq Memberships /\ s \in unsure'
    BY <1>7, <1>9
  <2>3. /\ grants' \in [Memberships -> [Roles -> {"none", "live", "archived"}]]
        /\ \A p \in Memberships : p # s => grants'[p] = grants[p]
    BY <1>7, <1>9
  <2> QED
    BY <1>1, <1>3, <1>4, <1>6, <2>1, <2>2, <2>3, StillGranting
<1> QED
  BY <1>6, <1>8, <1>9 DEF revokeRole

LEMMA reportRolesInv ==
  ASSUME IInv, NEW c \in Callers, reportRoles(c)
  PROVE  IInv'
<1> DEFINE r == call[c]
<1>1. /\ r.at = "revokeRole" /\ r.left = {} /\ Finish(c)
      /\ UNCHANGED <<workspaces, members, grants, invitations, begun, failures, unsure, joined,
                     contested>>
      /\ reported' = [reported EXCEPT ![Self(c)] = (@ \cup r.add) \ r.remove]
  BY DEF reportRoles, data
<1>2. Rest(c, {}) /\ call'[c] = Idle
  BY <1>1, FinishRest
<1>3. OthersKnow(c, {}) /\ invitations' \in [Invitations -> InvitationRow]
  BY <1>1, OthersUndisturbed
<1>4. \A p \in Memberships \ unsure :
        \/ ~Grants(call[c], p) /\ ~Grants(call'[c], p) /\ reported'[p] = reported[p]
        \/ RolesOf(p)'
  BY <1>1, <1>2, Reported
<1>5. reported' \in [Memberships -> SUBSET Roles]
  BY <1>1, Granter, Known, RowFields DEF IInv, TypeOK
<1>6. Unused' /\ contested' \subseteq Invitations
  BY <1>1 DEF IInv, Unused, TypeOK
<1>7. \A j : ~Accepts(call'[c], j) /\ ~Joins(call[c], j)
  BY <1>1, <1>2, IdleRow DEF Joins, Accepts
<1>8. Stands(call'[c], workspaces', members', invitations')
  BY <1>2, IdleStands
<1>9. begun' \in 0..MaxCalls /\ failures' \in 0..MaxFailures
  BY <1>1, Known
<1> QED
  BY <1>1, <1>2, <1>3, <1>4, <1>5, <1>6, <1>7, <1>8, <1>9, InvitationWrite

LEMMA archiveMemberInv ==
  ASSUME IInv, NEW c \in Callers, archiveMember(c)
  PROVE  IInv'
<1> DEFINE r == call[c]
           s == Self(c)
           row == [status |-> "archived", version |-> members[s].version + 1]
           D == Checking(r.w)
<1>1. /\ r.at = "write" /\ r.op = "remove"
      /\ UNCHANGED <<workspaces, grants, invitations, begun, failures, ghosts>>
      /\ UNCHANGED <<reported, unsure, joined, contested>>
  BY DEF archiveMember, At, ghosts
<1>2. CASE Finish(c) /\ UNCHANGED members
  BY <1>1, <1>2, Ends DEF data
<1>3. CASE members' = [members EXCEPT ![s] = row] /\ FinishUnder(c, D)
  <2>1. s \in Memberships /\ r.w \in Workspaces /\ s = <<r.w, r.user>>
    BY <1>1, Known DEF Shape, Self, Memberships
  <2>2. members \in [Memberships -> MemberRow]
    BY DEF IInv, TypeOK
  <2>3. row \in MemberRow
    <3>1. members[s].version \in Nat
      BY <2>1, <2>2 DEF MemberRow
    <3> QED
      BY <3>1 DEF MemberRow
  <2>4. row.status # "none"
    OBVIOUS
  <2> HIDE DEF row
  <2>5. /\ members' \in [Memberships -> MemberRow]
        /\ \A p \in Memberships : p # s => members'[p] = members[p]
        /\ members'[s].status # "none"
    BY <1>3, <2>1, <2>2, <2>3, <2>4
  <2>6. Rest(c, D) /\ call'[c] = Idle
    BY <1>3, FinishUnderRest
  <2>7. ASSUME NEW w \in Workspaces
        PROVE  ActiveIn(members, w) \subseteq ActiveIn(members', w) \/ Checking(w) \subseteq D \cup {c}
    <3>1. CASE w = r.w
      BY <3>1
    <3>2. CASE w # r.w
      <4>1. \A u \in Users : <<w, u>> \in Memberships /\ <<w, u>> # s
        BY <2>1, <3>2 DEF Memberships
      <4> QED
        BY <2>5, <4>1 DEF ActiveIn
    <3> QED
      BY <3>1, <3>2
  <2>8. ASSUME NEW p \in Memberships \ unsure'
        PROVE  RolesOf(p)'
    <3>1. RolesOf(p)
      BY <1>1 DEF IInv
    <3>2. ~Grants(call[c], p) /\ ~Grants(call'[c], p)
      BY <1>1, <2>6, IdleRow DEF Grants
    <3>3. members[p].status # "none" => members'[p].status # "none"
      BY <2>5
    <3> QED
      BY <1>1, <2>6, <3>1, <3>2, <3>3, RolesElsewhere
  <2>9. ASSUME NEW i \in Invitations \ contested'
        PROVE  JoinOf(i)'
    <3>1. JoinOf(i)
      BY <1>1 DEF IInv
    <3>2. ~Joins(call[c], i) /\ ~Accepts(call'[c], i)
      BY <1>1, <2>6, IdleRow DEF Joins, Accepts
    <3> QED
      BY <1>1, <2>6, <3>1, <3>2, JoinElsewhere
  <2>10. /\ grants' \in [Memberships -> [Roles -> {"none", "live", "archived"}]]
         /\ reported' \in [Memberships -> SUBSET Roles] /\ unsure' \subseteq Memberships
         /\ joined' \in [Invitations -> SUBSET Users] /\ contested' \subseteq Invitations
         /\ failures' \in 0..MaxFailures /\ begun' \in 0..MaxCalls
    BY <1>1 DEF IInv, TypeOK
  <2>11. Stands(call'[c], workspaces', members', invitations')
    BY <2>6, IdleStands
  <2> HIDE DEF D
  <2> QED
    BY <1>1, <2>5, <2>6, <2>7, <2>8, <2>9, <2>10, <2>11, MembersWrite
<1> QED
  BY <1>2, <1>3 DEF archiveMember

LEMMA insertMemberInv ==
  ASSUME IInv, NEW c \in Callers, insertMember(c)
  PROVE  IInv'
<1> DEFINE r == call[c]
           q == [r EXCEPT !.at = "grant", !.left = r.add]
           row == [status |-> "active", version |-> 1]
           i == r.inv
<1>1. /\ r.at = "join"
      /\ UNCHANGED <<workspaces, grants, invitations, begun, failures, reported, unsure>>
  BY DEF insertMember
<1>2. CASE Finish(c) /\ UNCHANGED <<members, joined, contested>>
  BY <1>1, <1>2, Ends DEF data, ghosts
<1>3. CASE /\ members[Self(c)].status = "none" /\ Exists(r.w)
           /\ members' = [members EXCEPT ![Self(c)] = row]
           /\ call' = [call EXCEPT ![c].at = "grant", ![c].left = call[c].add]
           /\ joined' = [j \in Invitations |->
                IF j = i THEN joined[j] \cup {r.user} ELSE joined[j]]
           /\ contested' = contested \cup {j \in {i} \cap Invitations :
                              r.stale \/ Accepting(j) # {c}}
  <2>1. /\ r \in CallRow /\ Shape(r) /\ r.user \in Users /\ r.w \in Workspaces
        /\ r.add \in SUBSET Roles /\ r.op \in {"add", "accept"}
    BY <1>1, Known, RowFields DEF Shape
  <2>2. call' = [call EXCEPT ![c] = q]
    BY <1>3
  <2>3. /\ q \in CallRow /\ q.at = "grant" /\ q.left = r.add
        /\ q.op = r.op /\ q.w = r.w /\ q.user = r.user /\ q.inv = r.inv
        /\ q.name = r.name /\ q.add = r.add /\ q.remove = r.remove
        /\ q.stale = r.stale
    BY <2>1, Zenon DEF CallRow
  <2> HIDE DEF q
  <2>4. Rest(c, {}) /\ call'[c] = q
    BY <2>2, <2>3, GotoRest
  <2>5. PICK s \in Memberships : s = Self(c)
    BY <1>1, Granter
  <2>6. /\ row \in MemberRow /\ members \in [Memberships -> MemberRow] /\ row.status = "active"
    BY DEF IInv, TypeOK, MemberRow
  <2> HIDE DEF row
  <2>7. /\ members' \in [Memberships -> MemberRow] /\ members'[s] = row
        /\ \A p \in Memberships : p # s => members'[p] = members[p]
    BY <1>3, <2>5, <2>6
  <2>8. Shape(q)
    BY <1>1, <2>1, <2>3 DEF Shape
  <2>9. Stands(q, workspaces', members', invitations')
    BY <1>1, <2>3, <2>8, StandsOn
  <2>10. ASSUME NEW p \in Memberships \ unsure'
         PROVE  RolesOf(p)'
    <3>1. RolesOf(p) /\ ~Grants(r, p)
      BY <1>1 DEF IInv, Grants
    <3>2. CASE p # s
      <4>1. ~Grants(q, p)
        BY <2>3, <2>5, <3>2 DEF Grants, Self
      <4> QED
        BY <1>1, <2>4, <2>7, <3>1, <3>2, <4>1, RolesElsewhere
    <3>3. CASE p = s
      <4>1. \A d \in Callers : ~Grants(call[d], p)
        BY <1>3, <2>5, <3>1, <3>3 DEF RolesOf
      <4>2. LiveGrants(p) = reported[p]
        BY <3>1, <4>1 DEF RolesOf
      <4>3. Grants(q, p)
        BY <2>3, <2>5, <3>3 DEF Grants, Self
      <4>4. Due(q, reported[p]) = reported[p]
        BY <2>3 DEF Due
      <4>5. LiveGrants(p)' = Due(call'[c], reported'[p])
        BY <1>1, <2>4, <4>2, <4>4 DEF LiveGrants
      <4>6. members'[p].status # "none"
        BY <2>6, <2>7, <3>3
      <4> QED
        BY <2>4, <4>1, <4>3, <4>5, <4>6, RolesHere
    <3> QED
      BY <3>2, <3>3
  <2>11. joined \in [Invitations -> SUBSET Users] /\ contested \subseteq Invitations
    BY DEF IInv, TypeOK
  <2>12. ASSUME NEW j \in Invitations \ contested'
         PROVE  JoinOf(j)'
    <3>1. JoinOf(j)
      BY <1>3 DEF IInv
    <3>2. CASE j # i
      <4>1. ~Joins(r, j) /\ ~Accepts(q, j) /\ joined'[j] = joined[j]
        BY <1>1, <1>3, <2>3, <3>2 DEF Joins, Accepts
      <4> QED
        BY <1>1, <2>4, <3>1, <4>1, JoinElsewhere
    <3>3. CASE j = i
      <4>1. ~r.stale /\ Accepting(j) = {c}
        BY <1>3, <3>3
      <4>2. \A d \in Callers : Accepts(call[d], j) <=> d = c
        BY <4>1 DEF Accepting, Accepts
      <4>3. Joins(q, j) /\ ~Joins(r, j)
        BY <1>1, <2>1, <2>3, <3>3, <4>2 DEF Joins, Accepts
      <4>4. joined[j] = {}
        <5>1. \A d \in Callers : ~Joins(call[d], j)
          BY <4>2, <4>3 DEF Joins
        <5> QED
          BY <3>1, <4>1, <4>2, <5>1 DEF JoinOf
      <4>5. joined'[j] = {r.user}
        BY <1>3, <3>3, <4>4
      <4>6. invitations'[j].state # "none"
        BY <1>1, <3>3, Known DEF Stands, InvitationHeld
      <4>7. Joins(call'[c], j)
        BY <2>4, <4>3
      <4> QED
        BY <2>1, <4>5, <4>6, <4>7 DEF JoinOf
    <3> QED
      BY <3>2, <3>3
  <2>13. joined' \in [Invitations -> SUBSET Users] /\ contested' \subseteq Invitations
    BY <1>3, <2>1, <2>11
  <2>14. /\ grants' \in [Memberships -> [Roles -> {"none", "live", "archived"}]]
         /\ reported' \in [Memberships -> SUBSET Roles] /\ unsure' \subseteq Memberships
         /\ failures' \in 0..MaxFailures /\ begun' \in 0..MaxCalls
    BY <1>1 DEF IInv, TypeOK
  <2>15. \A w \in Workspaces : ActiveIn(members, w) \subseteq ActiveIn(members', w)
    <3> SUFFICES ASSUME NEW w \in Workspaces, NEW u \in Users, members[<<w, u>>].status = "active"
                 PROVE  members'[<<w, u>>].status = "active"
      BY DEF ActiveIn
    <3>1. <<w, u>> \in Memberships
      BY DEF Memberships
    <3> QED
      BY <2>6, <2>7, <3>1
  <2> QED
    BY <1>1, <2>4, <2>7, <2>9, <2>10, <2>12, <2>13, <2>14, <2>15, MembersWrite
<1> QED
  BY <1>2, <1>3 DEF insertMember

LEMMA deleteWorkspaceInv ==
  ASSUME IInv, NEW c \in Callers, deleteWorkspace(c)
  PROVE  IInv'
<1> DEFINE r == call[c]
           z == r.w
<1>1. /\ r.at = "read" /\ r.op = "delete" /\ FinishUnder(c, Checking(z))
      /\ UNCHANGED <<begun, failures, joined, contested>>
  BY DEF deleteWorkspace, At
<1>2. Rest(c, Checking(z)) /\ call'[c] = Idle
  BY <1>1, FinishUnderRest
<1>3. /\ workspaces \in [Workspaces -> WorkspaceRow] /\ members \in [Memberships -> MemberRow]
      /\ invitations \in [Invitations -> InvitationRow] /\ z \in Workspaces
      /\ grants \in [Memberships -> [Roles -> {"none", "live", "archived"}]]
      /\ reported \in [Memberships -> SUBSET Roles] /\ unsure \subseteq Memberships
  BY Known DEF IInv, TypeOK
<1>4. /\ members' = [p \in Memberships |-> IF p[1] = z THEN NoMember ELSE members[p]]
      /\ grants' = [p \in Memberships |-> IF p[1] = z THEN NoGrants ELSE grants[p]]
      /\ reported' = [p \in Memberships |-> IF p[1] = z THEN {} ELSE reported[p]]
      /\ unsure' = unsure \cup {p \in Memberships : p[1] = z /\ Granting(p, c)}
      /\ workspaces' = [workspaces EXCEPT ![z].state = "deleted"]
      /\ invitations' = [i \in Invitations |->
           IF invitations[i].state # "none" /\ invitations[i].workspace = z
           THEN [invitations[i] EXCEPT !.state = "deleted"] ELSE invitations[i]]
  BY DEF deleteWorkspace
<1>5. /\ workspaces' \in [Workspaces -> WorkspaceRow] /\ workspaces'[z].state = "deleted"
      /\ \A w \in Workspaces : w # z => workspaces'[w] = workspaces[w]
  <2> DEFINE row == [workspaces[z] EXCEPT !.state = "deleted"]
  <2>1. workspaces[z] \in WorkspaceRow
    BY <1>3
  <2>2. row \in WorkspaceRow /\ row.state = "deleted"
    BY <2>1, Zenon DEF WorkspaceRow
  <2>3. workspaces' = [workspaces EXCEPT ![z] = row]
    BY <1>4
  <2> HIDE DEF row
  <2> QED
    BY <1>3, <2>2, <2>3
<1>6. ASSUME NEW i \in Invitations
      PROVE  /\ invitations'[i] \in InvitationRow
             /\ \/ invitations'[i] = invitations[i]
                   /\ (invitations[i].state = "none" \/ invitations[i].workspace # z)
                \/ /\ invitations[i].state # "none" /\ invitations[i].workspace = z
                   /\ invitations'[i].state = "deleted"
                   /\ invitations'[i].acceptedBy = invitations[i].acceptedBy
                   /\ invitations'[i].version = invitations[i].version
                   /\ invitations'[i].workspace = invitations[i].workspace
  <2> DEFINE x == invitations[i]
             y == [x EXCEPT !.state = "deleted"]
  <2>1. x \in InvitationRow
    BY <1>3
  <2>2. /\ y \in InvitationRow /\ y.state = "deleted" /\ y.acceptedBy = x.acceptedBy
        /\ y.version = x.version /\ y.workspace = x.workspace
    BY <2>1, Zenon DEF InvitationRow
  <2>3. invitations'[i] = IF x.state # "none" /\ x.workspace = z THEN y ELSE x
    BY <1>4
  <2> HIDE DEF y, x
  <2>4. CASE x.state # "none" /\ x.workspace = z
    BY <2>2, <2>3, <2>4 DEF x
  <2>5. CASE ~ (x.state # "none" /\ x.workspace = z)
    BY <2>1, <2>3, <2>5 DEF x
  <2> QED
    BY <2>4, <2>5
<1>7. invitations' \in [Invitations -> InvitationRow]
  <2>1. DOMAIN invitations' = Invitations /\ invitations' = [i \in Invitations |-> invitations'[i]]
    BY <1>4
  <2> QED
    BY <1>6, <2>1
<1>8. members' \in [Memberships -> MemberRow]
  <2>1. NoMember \in MemberRow
    BY DEF NoMember, MemberRow
  <2> QED
    BY <1>3, <1>4, <2>1
<1>9. grants' \in [Memberships -> [Roles -> {"none", "live", "archived"}]]
  <2>1. NoGrants \in [Roles -> {"none", "live", "archived"}]
    BY DEF NoGrants
  <2> HIDE DEF z
  <2> QED
    BY <1>3, <1>4, <2>1
<1>10. reported' \in [Memberships -> SUBSET Roles] /\ unsure' \subseteq Memberships
  <2> HIDE DEF z
  <2> QED
    BY <1>3, <1>4
<1>11. TypeOK'
  BY <1>1, <1>2, <1>5, <1>7, <1>8, <1>9, <1>10 DEF IInv, TypeOK, Rest
<1>12. OthersKnow(c, Checking(z))
  <2>1. \A w \in Workspaces : Aged(workspaces[w], workspaces'[w])
    BY <1>5 DEF Aged
  <2>2. ASSUME NEW w \in Workspaces, w # z
        PROVE  /\ workspaces'[w].owner = workspaces[w].owner
               /\ ActiveIn(members, w) \subseteq ActiveIn(members', w)
    <3>1. w # z
      BY <2>2
    <3>2. \A u \in Users : <<w, u>> \in Memberships /\ <<w, u>>[1] # z
      BY <3>1 DEF Memberships
    <3>3. \A u \in Users : members'[<<w, u>>] = members[<<w, u>>]
      BY <1>4, <3>2
    <3> QED
      BY <1>5, <3>1, <3>3 DEF ActiveIn
  <2>3. \A i \in Invitations : invitations[i].version \in Nat
    BY <1>3 DEF InvitationRow
  <2>4. \A i \in Invitations : invitations[i].state # "none" =>
          InvAged(invitations[i], invitations'[i])
    BY <1>6, <2>3 DEF InvAged
  <2>5. \A i \in Invitations : invitations[i].state # "none" =>
          /\ invitations'[i].acceptedBy = invitations[i].acceptedBy
          /\ \/ invitations'[i] = invitations[i]
             \/ workspaces'[invitations[i].workspace].state = "deleted"
    BY <1>5, <1>6
  <2>6. \A i \in Invitations : Open(invitations'[i]) =>
          Open(invitations[i]) /\ SameAddress(invitations[i], invitations'[i])
    BY <1>6 DEF Open, SameAddress
  <2> QED
    BY <2>1, <2>2, <2>4, <2>5, <2>6 DEF OthersKnow
<1>13. Requests'
  <2>1. Stands(call'[c], workspaces', members', invitations')
    BY <1>2, IdleStands
  <2> QED
    BY <1>2, <1>7, <1>12, <2>1, RequestsKept
<1>14. Unused'
  BY <1>6 DEF IInv, Unused
<1>15. ASSUME NEW p \in Memberships \ unsure'
       PROVE  RolesOf(p)'
  <2>1. RolesOf(p) /\ ~Grants(call[c], p) /\ ~Grants(call'[c], p)
    BY <1>1, <1>2, <1>4, IdleRow DEF IInv, Grants
  <2>2. CASE p[1] # z
    <3>1. members'[p] = members[p] /\ grants'[p] = grants[p] /\ reported'[p] = reported[p]
      BY <1>4, <2>2
    <3> QED
      BY <1>2, <2>1, <3>1, RolesElsewhere
  <2>3. CASE p[1] = z
    <3>1. ~Granting(p, c)
      BY <1>4, <2>3
    <3>2. \A d \in Callers : d # c => ~Grants(call[d], p)
      BY <3>1 DEF Granting, Grants, Self
    <3>3. grants'[p] = NoGrants /\ reported'[p] = {}
      BY <1>4, <2>3
    <3>4. LiveGrants(p)' = reported'[p]
      BY <3>3 DEF LiveGrants, NoGrants
    <3> QED
      BY <1>2, <2>1, <3>2, <3>4, RolesEnd
  <2> QED
    BY <2>2, <2>3
<1>16. ASSUME NEW i \in Invitations \ contested'
       PROVE  JoinOf(i)'
  <2>1. JoinOf(i)
    BY <1>1 DEF IInv
  <2>2. ~Joins(call[c], i) /\ ~Accepts(call'[c], i)
    BY <1>1, <1>2, IdleRow DEF Joins, Accepts
  <2>3. /\ invitations[i].state # "none" => invitations'[i].state # "none"
        /\ Open(invitations'[i]) => Open(invitations[i])
    BY <1>6 DEF Open
  <2> QED
    BY <1>1, <1>2, <2>1, <2>2, <2>3, JoinElsewhere
<1> QED
  BY <1>11, <1>13, <1>14, <1>15, <1>16 DEF IInv

-----------------------------------------------------------------------------
\* The invariant holds of the first state, and every step keeps it.
LEMMA InitIInv == Init => IInv
<1> SUFFICES ASSUME Init PROVE IInv
  OBVIOUS
<1>1. PICK s \in Slugs, e \in Emails, R \in SUBSET Roles \ {{}}, owner \in Users :
    /\ workspaces = [w \in Workspaces |->
         [state |-> IF w = 1 THEN "live" ELSE "none", slug |-> s, owner |-> owner,
          version |-> 1]]
    /\ members = [p \in Memberships |->
         [NoMember EXCEPT !.status = IF p = <<1, owner>> THEN "active" ELSE "none"]]
    /\ grants = [p \in Memberships |-> NoGrants]
    /\ invitations = [i \in Invitations |->
         [state |-> IF i = 1 THEN "live" ELSE "none", workspace |-> 1, email |-> e,
          roles |-> R, expired |-> FALSE, acceptedBy |-> NoUser, version |-> 1]]
    /\ call = [c \in Callers |-> Idle]
    /\ begun = 0 /\ failures = 0
    /\ reported = [p \in Memberships |-> {}]
    /\ unsure = {} /\ contested = {}
    /\ joined = [i \in Invitations |-> {}]
  BY Zenon DEF Init
<1>2. /\ workspaces = [w \in Workspaces |->
           [state |-> IF w = 1 THEN "live" ELSE "none", slug |-> s, owner |-> owner,
            version |-> 1]]
      /\ members = [p \in Memberships |->
           [NoMember EXCEPT !.status = IF p = <<1, owner>> THEN "active" ELSE "none"]]
      /\ invitations = [i \in Invitations |->
           [state |-> IF i = 1 THEN "live" ELSE "none", workspace |-> 1, email |-> e,
            roles |-> R, expired |-> FALSE, acceptedBy |-> NoUser, version |-> 1]]
  BY <1>1, Zenon
<1>3. /\ grants = [p \in Memberships |-> NoGrants] /\ call = [c \in Callers |-> Idle]
      /\ begun = 0 /\ failures = 0 /\ reported = [p \in Memberships |-> {}]
      /\ unsure = {} /\ contested = {} /\ joined = [i \in Invitations |-> {}]
  BY <1>1, Zenon
<1>4. workspaces \in [Workspaces -> WorkspaceRow]
  BY <1>2 DEF WorkspaceRow
<1>5. members \in [Memberships -> MemberRow]
  <2>1. \A st \in {"active", "none"} : [NoMember EXCEPT !.status = st] \in MemberRow
    <3> SUFFICES ASSUME NEW st \in {"active", "none"}
                 PROVE  [NoMember EXCEPT !.status = st] \in MemberRow
      BY Zenon
    <3>1. NoMember \in MemberRow
      BY DEF NoMember, MemberRow
    <3>2. st \in {"none", "active", "archived"}
      OBVIOUS
    <3> QED
      BY <3>1, <3>2, Zenon DEF MemberRow
  <2>2. \A p \in Memberships :
          [NoMember EXCEPT !.status = IF p = <<1, owner>> THEN "active" ELSE "none"] \in MemberRow
    <3> SUFFICES ASSUME NEW p \in Memberships
                 PROVE  [NoMember EXCEPT !.status = IF p = <<1, owner>> THEN "active" ELSE "none"]
                          \in MemberRow
      BY Zenon
    <3> DEFINE st == IF p = <<1, owner>> THEN "active" ELSE "none"
    <3>1. st \in {"active", "none"}
      OBVIOUS
    <3> HIDE DEF st
    <3>2. [NoMember EXCEPT !.status = st] \in MemberRow
      BY <2>1, <3>1, Zenon
    <3> QED
      BY <3>2, Zenon DEF st
  <2> QED
    BY <1>2, <2>2, Zenon
<1>6. invitations \in [Invitations -> InvitationRow]
  BY <1>2, Bounds DEF InvitationRow
<1>7. grants \in [Memberships -> [Roles -> {"none", "live", "archived"}]]
  BY <1>3 DEF NoGrants
<1>8. TypeOK
  BY <1>3, <1>4, <1>5, <1>6, <1>7, IdleRow, Bounds DEF TypeOK
<1>9. Requests
  BY <1>3, IdleStands DEF Requests
<1>10. Unused
  BY <1>2 DEF Unused
<1>11. ASSUME NEW p \in Memberships
       PROVE  RolesOf(p)
  <2>1. \A c \in Callers : ~Grants(call[c], p)
    BY <1>3, IdleRow DEF Grants
  <2>2. LiveGrants(p) = {} /\ reported[p] = {}
    BY <1>3 DEF LiveGrants, NoGrants
  <2> QED
    BY <2>1, <2>2 DEF RolesOf
<1>12. ASSUME NEW i \in Invitations
       PROVE  JoinOf(i)
  BY <1>3 DEF JoinOf
<1> QED
  BY <1>8, <1>9, <1>10, <1>11, <1>12 DEF IInv

LEMMA NextIInv == IInv /\ [Next]_vars => IInv'
<1> SUFFICES ASSUME IInv, [Next]_vars PROVE IInv'
  OBVIOUS
<1>1. ASSUME NEW c \in Callers, Step(c)
      PROVE  IInv'
  BY <1>1, checkSlugInv, insertWorkspaceInv, readWorkspaceInv, writeReasonInv, writeWorkspaceInv,
     checkNewOwnerInv, setOwnerInv, deleteWorkspaceInv, checkNotMemberInv, insertMemberInv,
     checkMemberInv, grantRoleInv, revokeRoleInv, grantedInv, reportRolesInv, readMemberInv,
     readOwnerInv, countActiveOwnersInv, archiveMemberInv, checkNotInvitedInv, insertInvitationInv,
     readInvitationInv, markAcceptedInv, flowAcceptInv, readRevokedInv, archiveInvitationInv
  DEF Step
<1>2. CASE UNCHANGED vars
  <2>1. UNCHANGED <<workspaces, members, grants, invitations, call, begun, failures, reported,
                    unsure, joined, contested>>
    BY <1>2 DEF vars, data, ghosts
  <2>2. TypeOK'
    BY <2>1 DEF IInv, TypeOK
  <2>3. Requests' /\ Unused'
    BY <2>1 DEF IInv, Requests, Unused
  <2>4. \A p \in Memberships \ unsure' : RolesOf(p)'
    BY <2>1 DEF IInv, RolesOf, LiveGrants
  <2>5. \A i \in Invitations \ contested' : JoinOf(i)'
    BY <2>1 DEF IInv, JoinOf
  <2> QED
    BY <2>2, <2>3, <2>4, <2>5 DEF IInv
<1> QED
  BY <1>1, <1>2, StartInv, failRequestInv, expireInv DEF Next

LEMMA Invariant == Spec => []IInv
  BY InitIInv, NextIInv, PTL DEF Spec

\* The rows are rows of their tables and every request stands at a step of its
\* operation; nobody but the first user joins by an invitation (accept of
\* invitation.service.ts), and a member has the roles it was reported to have
\* (changeRole of member.service.ts), with the exceptions that `contested' and
\* `unsure' name.
THEOREM MembersAlwaysAgree == Spec => []MembersAgree
<1>1. IInv => AcceptedOnce
  <2> SUFFICES ASSUME IInv, NEW i \in Invitations \ contested
               PROVE  Cardinality(joined[i]) <= 1
    BY DEF AcceptedOnce
  <2>1. CASE joined[i] = {}
    <3>1. Cardinality({}) = 0
      BY FS_EmptySet
    <3> QED
      BY <2>1, <3>1
  <2>2. ASSUME NEW u \in Users, joined[i] = {u}
        PROVE  Cardinality(joined[i]) <= 1
    <3>1. Cardinality({u}) = 1
      BY FS_Singleton
    <3> QED
      BY <2>2, <3>1
  <2> QED
    BY <2>1, <2>2 DEF IInv, JoinOf
<1>2. IInv => RolesAsReported
  BY DEF IInv, RolesOf, RolesAsReported, Grants, Self
<1>3. IInv => TypeOK
  BY DEF IInv
<1>4. IInv => MembersAgree
  BY <1>1, <1>2, <1>3 DEF MembersAgree
<1> QED
  BY <1>4, Invariant, PTL

-----------------------------------------------------------------------------
\* Which steps write which tables.
LEMMA StartWrites ==
  ASSUME NEW c, Start(c)
  PROVE  UNCHANGED <<workspaces, members, invitations, joined>>
BY ZenonT(60) DEF Start, createWorkspace, onWorkspace, updateWorkspace, restore, delete, archiveWorkspace,
   transferOwnership, addMember, changeRole, remove, createInvitation, onInvitation, accept,
   acceptInvitation, revoke, Begin, data, ghosts

LEMMA StepWrites ==
  ASSUME NEW c, Step(c)
  PROVE  /\ UNCHANGED joined \/ insertMember(c)
         /\ \/ UNCHANGED invitations \/ insertInvitation(c) \/ markAccepted(c)
            \/ flowAccept(c) \/ archiveInvitation(c) \/ deleteWorkspace(c)
         /\ \/ UNCHANGED workspaces \/ insertWorkspace(c) \/ writeReason(c)
            \/ writeWorkspace(c) \/ setOwner(c) \/ deleteWorkspace(c)
         /\ UNCHANGED members \/ insertMember(c) \/ archiveMember(c) \/ deleteWorkspace(c)
<1>1. checkSlug(c) => UNCHANGED <<workspaces, members, invitations, joined>>
  BY DEF checkSlug, data, ghosts
<1>2. readWorkspace(c) => UNCHANGED <<workspaces, members, invitations, joined>>
  BY DEF readWorkspace, data, ghosts
<1>3. checkNewOwner(c) => UNCHANGED <<workspaces, members, invitations, joined>>
  BY DEF checkNewOwner, data, ghosts
<1>4. checkNotMember(c) => UNCHANGED <<workspaces, members, invitations, joined>>
  BY DEF checkNotMember, data, ghosts
<1>5. checkMember(c) => UNCHANGED <<workspaces, members, invitations, joined>>
  BY DEF checkMember, data
<1>6. \A x : grantRole(c, x) \/ revokeRole(c, x)
               => UNCHANGED <<workspaces, members, invitations, joined>>
  BY DEF grantRole, revokeRole
<1>7. granted(c) \/ reportRoles(c) => UNCHANGED <<workspaces, members, invitations, joined>>
  BY DEF granted, reportRoles, data, ghosts
<1>8. readMember(c) \/ readOwner(c) \/ countActiveOwners(c)
        => UNCHANGED <<workspaces, members, invitations, joined>>
  BY DEF readMember, readOwner, countActiveOwners, data, ghosts
<1>9. checkNotInvited(c) \/ readInvitation(c) \/ readRevoked(c)
        => UNCHANGED <<workspaces, members, invitations, joined>>
  BY DEF checkNotInvited, readInvitation, readRevoked, data, ghosts
<1>10. insertWorkspace(c) \/ writeReason(c) \/ writeWorkspace(c) \/ setOwner(c)
        => UNCHANGED <<members, invitations, joined>>
  BY DEF insertWorkspace, writeReason, writeWorkspace, setOwner, ghosts
<1>11. insertMember(c) => UNCHANGED <<workspaces, invitations>>
  BY DEF insertMember
<1>12. archiveMember(c) => UNCHANGED <<workspaces, invitations, joined>>
  BY DEF archiveMember, ghosts
<1>13. insertInvitation(c) \/ markAccepted(c) \/ flowAccept(c) \/ archiveInvitation(c)
        => UNCHANGED <<workspaces, members, joined>>
  BY DEF insertInvitation, markAccepted, flowAccept, archiveInvitation, ghosts
<1>14. deleteWorkspace(c) => UNCHANGED joined
  BY DEF deleteWorkspace
<1> QED
  BY <1>1, <1>2, <1>3, <1>4, <1>5, <1>6, <1>7, <1>8, <1>9, <1>10, <1>11, <1>12, <1>13, <1>14,
     Zenon DEF Step

LEMMA NextWrites ==
  ASSUME [Next]_vars
  PROVE  /\ UNCHANGED joined \/ \E c \in Callers : insertMember(c)
         /\ \/ UNCHANGED invitations
            \/ \E c \in Callers : insertInvitation(c) \/ markAccepted(c) \/ flowAccept(c)
                                    \/ archiveInvitation(c) \/ deleteWorkspace(c)
            \/ \E i \in Invitations : expire(i)
         /\ \/ UNCHANGED workspaces
            \/ \E c \in Callers : insertWorkspace(c) \/ writeReason(c)
                                    \/ writeWorkspace(c) \/ setOwner(c) \/ deleteWorkspace(c)
         /\ \/ UNCHANGED members
            \/ \E c \in Callers : insertMember(c) \/ archiveMember(c) \/ deleteWorkspace(c)
<1>1. CASE UNCHANGED vars
  BY <1>1 DEF vars, data, ghosts
<1>2. ASSUME NEW c \in Callers, failRequest(c)
      PROVE  UNCHANGED <<workspaces, members, invitations, joined>>
  BY <1>2 DEF failRequest, data
<1>3. ASSUME NEW i \in Invitations, expire(i)
      PROVE  UNCHANGED <<workspaces, members, joined>>
  BY <1>3 DEF expire, ghosts
<1>4. CASE \E c \in Callers : Start(c)
  BY <1>4, StartWrites
<1>5. CASE \E c \in Callers : Step(c)
  BY <1>5, StepWrites
<1> QED
  BY <1>1, <1>2, <1>3, <1>4, <1>5 DEF Next

\* A user joins by an invitation that is open.
LEMMA JoinsStep ==
  ASSUME IInv, [Next]_vars, NEW i \in Invitations, joined'[i] # joined[i]
  PROVE  (Pending(i) /\ ~invitations[i].expired) \/ i \in contested'
<1>1. PICK c \in Callers : insertMember(c)
  BY NextWrites
<1> DEFINE r == call[c]
<1>2. /\ r.at = "join" /\ Exists(r.w)
      /\ joined' = [j \in Invitations |->
           IF j = r.inv THEN joined[j] \cup {r.user} ELSE joined[j]]
      /\ contested' = contested \cup {j \in {r.inv} \cap Invitations :
                         r.stale \/ Accepting(j) # {c}}
  BY <1>1 DEF insertMember
<1>3. r.inv = i
  BY <1>2
<1>4. CASE r.stale
  BY <1>2, <1>3, <1>4
<1>5. CASE ~r.stale
  <2>1. InvitationHeld(r, invitations[i], workspaces[r.w])
    BY <1>3, Known DEF Stands
  <2>2. workspaces[r.w].state # "deleted"
    BY <1>2 DEF Exists
  <2> QED
    BY <1>2, <1>5, <2>1, <2>2 DEF InvitationHeld, Open, Pending
<1> QED
  BY <1>4, <1>5

\* A step that a request ends with.
LEMMA Ended ==
  ASSUME IInv, NEW c \in Callers, NEW D, FinishUnder(c, D), call[c].at # "idle"
  PROVE  call'[c] # call[c]
BY FinishUnderRest, IdleRow

\* What the write of one invitation leaves of it and of the others.
LEMMA OneRow ==
  ASSUME IInv, NEW i \in Invitations, NEW k \in Invitations, NEW y,
         invitations' = [invitations EXCEPT ![k] = y]
  PROVE  (i = k /\ invitations'[i] = y) \/ (i # k /\ invitations'[i] = invitations[i])
BY DEF IInv, TypeOK

\* The fields of an invitation that closing it, deleting it and time leave.
LEMMA InvitationFields ==
  ASSUME NEW x \in InvitationRow, NEW st \in {"none", "live", "archived", "deleted"}
  PROVE  /\ [x EXCEPT !.state = st].acceptedBy = x.acceptedBy /\ [x EXCEPT !.state = st].state = st
         /\ [x EXCEPT !.expired = TRUE].acceptedBy = x.acceptedBy
         /\ [x EXCEPT !.expired = TRUE].state = x.state
BY Zenon DEF InvitationRow

LEMMA ClosingStep ==
  ASSUME IInv, NEW i \in Invitations,
         \/ \E c \in Callers : archiveInvitation(c) \/ deleteWorkspace(c)
         \/ \E k \in Invitations : expire(k)
  PROVE  /\ invitations'[i].acceptedBy = invitations[i].acceptedBy
         /\ invitations'[i].state = "live" => invitations[i].state = "live"
<1> DEFINE x == invitations[i]
<1>1. x \in InvitationRow
  BY DEF IInv, TypeOK
<1>2. ASSUME NEW c \in Callers, archiveInvitation(c)
      PROVE  /\ invitations'[i].acceptedBy = x.acceptedBy
             /\ invitations'[i].state = "live" => x.state = "live"
  <2> DEFINE st == IF x.state = "live" THEN "archived" ELSE x.state
  <2>1. st \in {"none", "live", "archived", "deleted"}
    BY <1>1 DEF InvitationRow
  <2>2. invitations'[i] = x \/ invitations'[i] = [x EXCEPT !.state = st]
    BY <1>2 DEF archiveInvitation, IInv, TypeOK
  <2>3. st # "live" \/ x.state = "live"
    OBVIOUS
  <2> HIDE DEF st, x
  <2>4. [x EXCEPT !.state = st].acceptedBy = x.acceptedBy /\ [x EXCEPT !.state = st].state = st
    BY <1>1, <2>1, InvitationFields
  <2> QED
    BY <2>2, <2>3, <2>4
<1>3. ASSUME NEW c \in Callers, deleteWorkspace(c)
      PROVE  /\ invitations'[i].acceptedBy = x.acceptedBy
             /\ invitations'[i].state = "live" => x.state = "live"
  <2>1. invitations'[i] = x \/ invitations'[i] = [x EXCEPT !.state = "deleted"]
    BY <1>3 DEF deleteWorkspace
  <2> HIDE DEF x
  <2>2. /\ [x EXCEPT !.state = "deleted"].acceptedBy = x.acceptedBy
        /\ [x EXCEPT !.state = "deleted"].state = "deleted"
    BY <1>1, InvitationFields
  <2> QED
    BY <2>1, <2>2
<1>4. ASSUME NEW k \in Invitations, expire(k)
      PROVE  /\ invitations'[i].acceptedBy = x.acceptedBy
             /\ invitations'[i].state = "live" => x.state = "live"
  <2>1. invitations'[i] = x \/ invitations'[i] = [x EXCEPT !.expired = TRUE]
    BY <1>4 DEF expire, IInv, TypeOK
  <2> HIDE DEF x
  <2>2. /\ [x EXCEPT !.expired = TRUE].acceptedBy = x.acceptedBy
        /\ [x EXCEPT !.expired = TRUE].state = x.state
    BY <1>1, InvitationFields
  <2> QED
    BY <2>1, <2>2
<1> QED
  BY <1>2, <1>3, <1>4

\* Who accepted an invitation is not written over.
LEMMA AcceptanceStep ==
  ASSUME IInv, [Next]_vars, NEW i \in Invitations, invitations[i].acceptedBy # NoUser
  PROVE  \/ invitations'[i].acceptedBy = invitations[i].acceptedBy
         \/ \E c \in Accepting(i) : call[c].stale /\ call'[c] # call[c]
<1> DEFINE Kept == \/ invitations'[i].acceptedBy = invitations[i].acceptedBy
                   \/ \E c \in Accepting(i) : call[c].stale /\ call'[c] # call[c]
<1>1. CASE UNCHANGED invitations
  BY <1>1
<1>2. ASSUME NEW c \in Callers, insertInvitation(c) PROVE Kept
  <2>1. invitations[i].state # "none"
    BY DEF IInv, Unused
  <2> QED
    BY <1>2, <2>1, OneRow DEF insertInvitation
<1>3. ASSUME NEW c \in Callers, markAccepted(c) PROVE Kept
  <2> DEFINE r == call[c]
  <2>1. r.at = "mark" /\ r.op = "accept" /\ FinishUnder(c, Accepting(r.inv))
    BY <1>3 DEF markAccepted, At
  <2>2. CASE r.inv # i
    BY <1>3, <2>2 DEF markAccepted, IInv, TypeOK
  <2>3. CASE r.inv = i
    <3>1. InvitationHeld(r, invitations[i], workspaces[r.w])
      BY <2>3, Known DEF Stands
    <3>2. r.stale
      BY <2>1, <3>1 DEF InvitationHeld
    <3>3. c \in Accepting(i) /\ call'[c] # call[c]
      BY <2>1, <2>3, Ended DEF Accepting
    <3> QED
      BY <3>2, <3>3
  <2> QED
    BY <2>2, <2>3
<1>4. ASSUME NEW c \in Callers, flowAccept(c) PROVE Kept
  <2> DEFINE r == call[c]
  <2>1. r.at = "write" /\ r.op = "acceptInvitation"
    BY <1>4 DEF flowAccept, At
  <2>2. CASE r.inv # i
    BY <1>4, <2>2 DEF flowAccept, IInv, TypeOK
  <2>3. CASE r.inv = i
    <3>1. InvitationHeld(r, invitations[i], workspaces[r.w])
      BY <2>3, Known DEF Stands
    <3>2. r.version # invitations[i].version
      BY <2>1, <3>1 DEF InvitationHeld
    <3>3. UNCHANGED invitations
      BY <1>4, <2>3, <3>2 DEF flowAccept
    <3> QED
      BY <3>3
  <2> QED
    BY <2>2, <2>3
<1>5. CASE \/ \E c \in Callers : archiveInvitation(c) \/ deleteWorkspace(c)
           \/ \E k \in Invitations : expire(k)
  BY <1>5, ClosingStep
<1> QED
  BY <1>1, <1>2, <1>3, <1>4, <1>5, NextWrites

\* Only an insert opens an invitation.
LEMMA OnlyInsertOpens ==
  ASSUME IInv, [Next]_vars, NEW i \in Invitations,
         invitations[i].state = "none", invitations'[i].state = "live"
  PROVE  \E c \in Callers : insertInvitation(c) /\ invitations'[i].workspace = call[c].w
                              /\ invitations'[i].email = call[c].name
<1>1. invitations' # invitations
  OBVIOUS
<1>2. ASSUME NEW c \in Callers, insertInvitation(c)
      PROVE  invitations'[i].workspace = call[c].w /\ invitations'[i].email = call[c].name
  <2> DEFINE y == [state |-> "live", workspace |-> call[c].w, email |-> call[c].name,
                   roles |-> call[c].add, expired |-> FALSE, acceptedBy |-> NoUser,
                   version |-> 1]
  <2>1. PICK k \in Invitations : invitations' = [invitations EXCEPT ![k] = y]
    BY <1>1, <1>2 DEF insertInvitation
  <2>2. y.workspace = call[c].w /\ y.email = call[c].name
    OBVIOUS
  <2> HIDE DEF y
  <2>3. invitations'[i] = y
    BY <2>1, OneRow
  <2> QED
    BY <2>2, <2>3
<1>3. ASSUME NEW c \in Callers, markAccepted(c)
      PROVE  FALSE
  <2>1. invitations'[i] = invitations[i]
    BY <1>3 DEF markAccepted, IInv, TypeOK
  <2> QED
    BY <2>1
<1>4. ASSUME NEW c \in Callers, flowAccept(c)
      PROVE  FALSE
  <2>1. invitations'[i] = invitations[i]
    BY <1>4 DEF flowAccept, IInv, TypeOK
  <2> QED
    BY <2>1
<1> QED
  BY <1>1, <1>2, <1>3, <1>4, ClosingStep, NextWrites

LEMMA OnePendingStep ==
  ASSUME IInv, [Next]_vars, NEW i \in Invitations, NEW j \in Invitations,
         invitations[i].state = "none", invitations'[i].state = "live",
         Pending(j), SameAddress(invitations[j], invitations'[i])
  PROVE  \E c \in Callers : call[c].op = "invite" /\ call[c].stale /\ call'[c] # call[c]
<1>1. PICK c \in Callers : insertInvitation(c) /\ invitations'[i].workspace = call[c].w
                             /\ invitations'[i].email = call[c].name
  BY OnlyInsertOpens
<1>2. call[c].op = "invite" /\ call[c].at = "insert" /\ call'[c] # call[c]
  BY <1>1, Ended DEF insertInvitation, At
<1>3. AddressFree(call[c], invitations[j])
  BY Known DEF Stands
<1>4. call[c].stale
  BY <1>1, <1>2, <1>3 DEF AddressFree, SameAddress, Pending, Open
<1> QED
  BY <1>2, <1>4

\* The last active member of a workspace goes only with it.
LEMMA LastMemberStep ==
  ASSUME IInv, [Next]_vars, NEW w \in Workspaces, Live(w), workspaces[w].owner \in Active(w),
         ActiveIn(members', w) = {}
  PROVE  \/ workspaces'[w].state = "deleted"
         \/ \E c \in Checking(w) : call[c].stale /\ call'[c] # call[c]
<1> DEFINE o == workspaces[w].owner
<1>1. o \in Users /\ members[<<w, o>>].status = "active" /\ <<w, o>> \in Memberships
  BY DEF Active, Memberships
<1>2. \A v \in Users : members'[<<w, v>>].status # "active"
  BY DEF ActiveIn
<1>3. members' # members
  BY <1>1, <1>2
<1>4. members \in [Memberships -> MemberRow] /\ workspaces \in [Workspaces -> WorkspaceRow]
  BY DEF IInv, TypeOK
<1>5. ASSUME NEW c \in Callers, insertMember(c)
      PROVE  FALSE
  <2>1. /\ members[Self(c)].status = "none"
        /\ members' = [members EXCEPT ![Self(c)] = [status |-> "active", version |-> 1]]
    BY <1>3, <1>5 DEF insertMember
  <2>2. members'[<<w, o>>] = members[<<w, o>>]
    BY <1>1, <1>4, <2>1
  <2> QED
    BY <1>1, <1>2, <2>2
<1>6. ASSUME NEW c \in Callers, deleteWorkspace(c)
      PROVE  workspaces'[w].state = "deleted"
  <2> DEFINE z == call[c].w
  <2>1. z \in Workspaces /\ workspaces[z] \in WorkspaceRow
    BY <1>4, Known
  <2>2. [workspaces[z] EXCEPT !.state = "deleted"].state = "deleted"
    BY <2>1, Zenon DEF WorkspaceRow
  <2>3. workspaces'[z] = [workspaces[z] EXCEPT !.state = "deleted"]
    BY <1>4, <1>6, <2>1 DEF deleteWorkspace
  <2>4. CASE z = w
    BY <2>2, <2>3, <2>4
  <2>5. CASE z # w
    <3>1. members'[<<w, o>>] = members[<<w, o>>]
      BY <1>1, <1>6, <2>5 DEF deleteWorkspace
    <3> QED
      BY <1>1, <1>2, <3>1
  <2> QED
    BY <2>4, <2>5
<1>7. ASSUME NEW c \in Callers, archiveMember(c)
      PROVE  c \in Checking(w) /\ call[c].stale /\ call'[c] # call[c]
  <2> DEFINE r == call[c]
  <2>1. /\ r.op = "remove" /\ r.at = "write" /\ FinishUnder(c, Checking(r.w))
        /\ members' = [members EXCEPT ![Self(c)] =
                         [status |-> "archived", version |-> members[Self(c)].version + 1]]
    BY <1>3, <1>7 DEF archiveMember, At
  <2>2. Self(c) = <<r.w, r.user>>
    BY DEF Self
  <2>3. r.w = w /\ r.user = o
    <3>1. <<w, o>> = Self(c)
      <4>1. CASE <<w, o>> # Self(c)
        <5>1. members'[<<w, o>>] = members[<<w, o>>]
          BY <1>1, <1>4, <2>1, <4>1
        <5> QED
          BY <1>1, <1>2, <5>1
      <4> QED
        BY <4>1
    <3> QED
      BY <2>2, <3>1
  <2>4. OwnerHeld(r, workspaces[w], ActiveIn(members, w))
    BY <2>3, Known DEF Stands
  <2>5. r.stale
    <3>1. SUFFICES ASSUME ~r.stale PROVE FALSE
      OBVIOUS
    <3>2. PICK v \in ActiveIn(members, w) : v # r.user
      BY <2>1, <2>3, <2>4, <3>1 DEF OwnerHeld, Live
    <3>3. v \in Users /\ <<w, v>> \in Memberships /\ <<w, v>> # Self(c)
          /\ members[<<w, v>>].status = "active"
      BY <2>2, <3>2 DEF ActiveIn, Memberships
    <3>4. members'[<<w, v>>] = members[<<w, v>>]
      BY <1>4, <2>1, <3>3
    <3> QED
      BY <1>2, <3>3, <3>4
  <2>6. c \in Checking(w)
    BY <2>1, <2>3 DEF Checking
  <2>7. call'[c] # call[c]
    BY <2>1, Ended
  <2> QED
    BY <2>5, <2>6, <2>7
<1> QED
  BY <1>3, <1>5, <1>6, <1>7, NextWrites

\* An update of a workspace's row other than a transfer leaves the owner.
LEMMA OwnerKept ==
  ASSUME IInv, NEW c \in Callers, NEW w \in Workspaces, workspaces[w].state # "none",
         insertWorkspace(c) \/ writeReason(c) \/ writeWorkspace(c) \/ deleteWorkspace(c)
  PROVE  workspaces'[w].owner = workspaces[w].owner
<1> DEFINE r == call[c]
           z == r.w
<1>1. z \in Workspaces /\ workspaces \in [Workspaces -> WorkspaceRow] /\ workspaces[z] \in WorkspaceRow
  BY Known DEF IInv, TypeOK
<1>2. \A st \in {"archived", "deleted"} :
        [workspaces[z] EXCEPT !.state = st].owner = workspaces[z].owner
  <2> SUFFICES ASSUME NEW st \in {"archived", "deleted"}
               PROVE  [workspaces[z] EXCEPT !.state = st].owner = workspaces[z].owner
    BY Zenon
  <2> QED
    BY <1>1, Zenon DEF WorkspaceRow
<1>3. \A fresh \in BOOLEAN : Written(z, fresh).owner = workspaces[z].owner
  BY <1>1, WrittenRow
<1>4. CASE insertWorkspace(c)
  BY <1>1, <1>4 DEF insertWorkspace
<1>5. CASE writeReason(c)
  <2>1. workspaces' = [workspaces EXCEPT ![z] = Written(z, r.version = workspaces[z].version)]
          \/ UNCHANGED workspaces
    BY <1>5 DEF writeReason
  <2>2. Written(z, r.version = workspaces[z].version).owner = workspaces[z].owner
    BY <1>3
  <2> QED
    BY <1>1, <2>1, <2>2
<1>6. CASE writeWorkspace(c)
  <2> DEFINE row == CASE r.op = "update"  -> Written(z, r.version = workspaces[z].version)
                      [] r.op = "restore" -> Written(z, TRUE)
                      [] r.op = "archive" -> IF Live(z) THEN [workspaces[z] EXCEPT !.state = "archived"]
                                             ELSE workspaces[z]
  <2>1. workspaces' = [workspaces EXCEPT ![z] = row] /\ r.op \in {"update", "restore", "archive"}
    BY <1>6 DEF writeWorkspace
  <2>2. Written(z, r.version = workspaces[z].version).owner = workspaces[z].owner
        /\ Written(z, TRUE).owner = workspaces[z].owner
    BY <1>3
  <2>3. [workspaces[z] EXCEPT !.state = "archived"].owner = workspaces[z].owner
    BY <1>2, Zenon
  <2>4. row.owner = workspaces[z].owner
    BY <2>1, <2>2, <2>3
  <2> HIDE DEF row
  <2> QED
    BY <1>1, <2>1, <2>4
<1>7. CASE deleteWorkspace(c)
  <2>1. workspaces' = [workspaces EXCEPT ![z] = [workspaces[z] EXCEPT !.state = "deleted"]]
    BY <1>7 DEF deleteWorkspace
  <2>2. [workspaces[z] EXCEPT !.state = "deleted"].owner = workspaces[z].owner
    BY <1>2, Zenon
  <2> QED
    BY <1>1, <2>1, <2>2
<1> QED
  BY <1>4, <1>5, <1>6, <1>7

\* Ownership passes to an active member.
LEMMA TransferStep ==
  ASSUME IInv, [Next]_vars, NEW w \in Workspaces,
         workspaces'[w].owner # workspaces[w].owner, workspaces[w].state # "none"
  PROVE  \/ workspaces'[w].owner \in Active(w)
         \/ \E c \in Callers :
              /\ At(c, "transfer", "write") /\ call[c].to = w /\ call'[c] # call[c]
              /\ \/ call[c].stale
                 \/ call[c].w # w /\ workspaces'[w].owner \in Active(call[c].w)
<1>1. PICK c \in Callers : setOwner(c)
  BY OwnerKept, NextWrites
<1> DEFINE r == call[c]
           y == Written(r.to, TRUE)
           row == [y EXCEPT !.owner = r.user]
<1>2. At(c, "transfer", "write") /\ r.op = "transfer" /\ r.at = "write"
  BY <1>1 DEF setOwner, At
<1>3. /\ workspaces' = [workspaces EXCEPT ![r.to] = row]
      /\ FinishUnder(c, Checking(r.to))
  BY <1>1 DEF setOwner
<1>4. r.to \in Workspaces /\ workspaces \in [Workspaces -> WorkspaceRow] /\ y \in WorkspaceRow
  BY Known, RowFields, WrittenRow DEF IInv, TypeOK
<1> HIDE DEF y
<1>5. row.owner = r.user
  BY <1>4, Zenon DEF WorkspaceRow
<1> HIDE DEF row
<1>6. r.to = w /\ workspaces'[w].owner = r.user
  BY <1>3, <1>4, <1>5
<1>7. call'[c] # call[c]
  BY <1>2, <1>3, Ended
<1>8. ~r.stale => r.user \in Active(r.w)
  <2>1. OwnerHeld(r, workspaces[r.w], ActiveIn(members, r.w))
    BY Known DEF Stands
  <2>2. ActiveIn(members, r.w) = Active(r.w)
    BY DEF ActiveIn, Active
  <2> QED
    BY <1>2, <2>1, <2>2 DEF OwnerHeld
<1> QED
  BY <1>2, <1>6, <1>7, <1>8

\* An address has one open invitation, a user joins by an open one, and who
\* accepted it stays (create and accept of invitation.service.ts, and the flow of
\* invitation-flow.service.ts), unless the request that does otherwise had checked
\* before another one wrote.
THEOREM InvitationsAlwaysKept == Spec => InvitationsKept
<1>1. IInv /\ [Next]_vars => \A i \in Invitations :
         joined'[i] # joined[i] =>
           \/ Pending(i) /\ ~invitations[i].expired
           \/ i \in contested'
  BY JoinsStep
<1>2. IInv /\ [Next]_vars => \A i \in Invitations : invitations[i].acceptedBy # NoUser =>
         \/ invitations'[i].acceptedBy = invitations[i].acceptedBy
         \/ \E c \in Accepting(i) : call[c].stale /\ call'[c] # call[c]
  BY AcceptanceStep
<1>3. IInv /\ [Next]_vars => \A i \in Invitations :
         /\ invitations[i].state = "none" /\ invitations'[i].state = "live"
         /\ \E j \in Invitations : Pending(j) /\ SameAddress(invitations[j], invitations'[i])
         => \E c \in Callers : call[c].op = "invite" /\ call[c].stale /\ call'[c] # call[c]
  BY OnePendingStep
<1>4. Spec => JoinsAreOpen
  BY <1>1, Invariant, PTL DEF Spec, JoinsAreOpen
<1>5. Spec => AcceptanceKept
  BY <1>2, Invariant, PTL DEF Spec, AcceptanceKept
<1>6. Spec => OnePending
  BY <1>3, Invariant, PTL DEF Spec, OnePending
<1> QED
  BY <1>4, <1>5, <1>6 DEF InvitationsKept

\* A live workspace whose owner is a member keeps an active one (remove of
\* member.service.ts), and is handed over to an active member of the workspace the
\* request was made in (transferOwnership of workspace.service.ts), unless the request
\* had counted or looked before members or owner changed.
THEOREM OwnershipAlwaysKept == Spec => OwnershipKept
<1>1. IInv /\ [Next]_vars => \A w \in Workspaces :
         /\ Live(w) /\ workspaces[w].owner \in Active(w)
         /\ Active(w)' = {}
         => \/ workspaces'[w].state = "deleted"
            \/ \E c \in Checking(w) : call[c].stale /\ call'[c] # call[c]
  <2> SUFFICES ASSUME IInv, [Next]_vars, NEW w \in Workspaces, Live(w),
                      workspaces[w].owner \in Active(w), Active(w)' = {}
               PROVE  \/ workspaces'[w].state = "deleted"
                      \/ \E c \in Checking(w) : call[c].stale /\ call'[c] # call[c]
    OBVIOUS
  <2>1. ActiveIn(members', w) = {}
    BY DEF Active, ActiveIn
  <2> QED
    BY <2>1, LastMemberStep
<1>2. IInv /\ [Next]_vars => \A w \in Workspaces :
         workspaces'[w].owner # workspaces[w].owner /\ workspaces[w].state # "none"
         => \/ workspaces'[w].owner \in Active(w)
            \/ \E c \in Callers :
                 /\ At(c, "transfer", "write") /\ call[c].to = w /\ call'[c] # call[c]
                 /\ \/ call[c].stale
                    \/ call[c].w # w /\ workspaces'[w].owner \in Active(call[c].w)
  BY TransferStep
<1>3. Spec => LastMemberStays
  BY <1>1, Invariant, PTL DEF Spec, LastMemberStays
<1>4. Spec => TransferToMember
  BY <1>2, Invariant, PTL DEF Spec, TransferToMember
<1> QED
  BY <1>3, <1>4 DEF OwnershipKept

================================================================================
