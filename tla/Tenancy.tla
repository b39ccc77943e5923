------------------------------ MODULE Tenancy ------------------------------
(***************************************************************************)
(* Workspaces, their members, the members' roles and the invitations       *)
(* (workspace.service.ts, member.service.ts, invitation.service.ts and     *)
(* invitation-flow.service.ts) over the relational repositories.  Every    *)
(* await of a service is a step, and requests interleave at every await.   *)
(*                                                                         *)
(* The repositories keep the constraints of migration 0001: one row for a  *)
(* slug, for a user of a workspace, for a role of a member, archived rows  *)
(* included, and a deleted workspace takes its rows with it.  Reads and    *)
(* writes do not see archived rows.  A request is made in a workspace      *)
(* (ctx.workspaceId); a transfer of ownership names another id besides.    *)
(***************************************************************************)
EXTENDS Integers, FiniteSets

CONSTANTS
  Callers,        \* requests that are served at one time
  Users, NoUser, Roles, Emails, Slugs, NoName,
  MaxWorkspaces, MaxInvitations, MaxCalls, MaxFailures   \* bounds

ASSUME NamesAssumption == NoUser \notin Users
ASSUME BoundsAssumption ==
  /\ {MaxWorkspaces, MaxInvitations} \subseteq Nat \ {0}
  /\ {MaxCalls, MaxFailures} \subseteq Nat

VARIABLES
  workspaces, members,
  grants,         \* workspace_member_roles: the roles of a member
  invitations,
  call,           \* where a request stands, and what it read
  begun, failures,\* requests begun, and failed steps, so far
  reported,       \* the roles a member was reported to have
  unsure,         \* members whose roles met a failed or a concurrent write
  joined,         \* users that joined by an invitation
  contested       \* invitations accepted by requests that overlapped, or not marked

data == <<workspaces, members, grants, invitations>>
ghosts == <<reported, unsure, joined, contested>>
vars == <<data, call, begun, failures, ghosts>>

Workspaces  == 1..MaxWorkspaces
Invitations == 1..MaxInvitations
None        == 0
Memberships == Workspaces \X Users

WorkspaceRow  == [state : {"none", "live", "archived", "deleted"},
                  slug : Slugs, owner : Users, version : Nat]
MemberRow     == [status : {"none", "active", "archived"}, version : Nat]
InvitationRow == [state : {"none", "live", "archived", "deleted"}, workspace : Workspaces,
                  email : Emails, roles : SUBSET Roles, expired : BOOLEAN,
                  acceptedBy : Users \cup {NoUser}, version : Nat]

\* A request: its operation, where it stands, and what it was given or has read.
CallRow == [
  op : {"none", "create", "update", "archive", "restore", "transfer", "delete", "add",
        "change", "remove", "invite", "accept", "acceptInvitation", "revoke"},
  at : {"idle", "read", "insert", "reason", "write", "join", "grant", "revokeRole",
        "mark", "workspace", "count"},
  w : Workspaces, to : Workspaces, user : Users \cup {NoUser}, inv : Invitations \cup {None},
  name : Slugs \cup Emails \cup {NoName}, add : SUBSET Roles,
  remove : SUBSET Roles, left : SUBSET Roles, version : Nat, stale : BOOLEAN]

NoMember == [status |-> "none", version |-> 1]
NoGrants == [r \in Roles |-> "none"]
Idle     == [op |-> "none", at |-> "idle", w |-> 1, to |-> 1, user |-> NoUser,
             inv |-> None, name |-> NoName, add |-> {}, remove |-> {}, left |-> {}, version |-> 1,
             stale |-> FALSE]

\* One workspace, whose owner was made its member, and an invitation to it.
Init ==
  \E s \in Slugs, e \in Emails, R \in SUBSET Roles \ {{}}, owner \in Users :
    /\ workspaces = [w \in Workspaces |->
         [state |-> IF w = 1 THEN "live" ELSE "none", slug |-> s, owner |-> owner,
          version |-> 1]]
    /\ members = [p \in Memberships |->
         [NoMember EXCEPT !.status = IF p = <<1, owner>> THEN "active" ELSE "none"]]
    /\ grants = [p \in Memberships |-> NoGrants]
    /\ invitations = [i \in Invitations |->
         [state |-> IF i = 1 THEN "live" ELSE "none", workspace |-> 1, email |-> e,
          roles |-> R, expired |-> FALSE, acceptedBy |-> NoUser, version |-> 1]]
    /\ call = [c \in Callers |-> Idle]
    /\ begun = 0 /\ failures = 0
    /\ reported = [p \in Memberships |-> {}]
    /\ unsure = {} /\ contested = {}
    /\ joined = [i \in Invitations |-> {}]

Active(w)     == {u \in Users : members[<<w, u>>].status = "active"}
LiveGrants(p) == {r \in Roles : grants[p][r] = "live"}
Live(w)       == workspaces[w].state = "live"
Exists(w)     == workspaces[w].state \in {"live", "archived"}
Pending(i)    == invitations[i].state = "live" /\ invitations[i].acceptedBy = NoUser
-----------------------------------------------------------------------------
\* Requests, and what two of them may have in common.
Self(c)      == <<call[c].w, call[c].user>>
At(c, op, place) == call[c].op = op /\ call[c].at = place
Goto(c, place)   == call' = [call EXCEPT ![c].at = place]
Finish(c)        == call' = [call EXCEPT ![c] = Idle]
Fails == failures < MaxFailures /\ failures' = failures + 1

\* The request ends, and what it wrote was what the requests D had checked.
FinishUnder(c, D) ==
  call' = [d \in Callers |->
             CASE d = c -> Idle
               [] d # c /\ d \in D -> [call[d] EXCEPT !.stale = TRUE]
               [] OTHER -> call[d]]

\* A request is read and allowed, and goes to its first access to the database.
Begin(c, r) ==
  /\ begun' = begun + 1
  /\ call' = [call EXCEPT ![c] = r]
  /\ UNCHANGED <<data, failures, ghosts>>
Request(op, w, u) == [Idle EXCEPT !.op = op, !.at = "read", !.w = w, !.user = u]

\* Other requests that grant or take roles of the member p.
Granting(p, c) == \E d \in Callers \ {c} :
                    Self(d) = p /\ call[d].at \in {"grant", "revokeRole", "mark"}
\* Requests that checked the invitation i and have not marked it.
Accepting(i) == {d \in Callers : /\ call[d].op = "accept" /\ call[d].inv = i
                                 /\ call[d].at # "read"}
\* Requests that checked the members or the owner of w and have not written: a
\* transfer looks at the members of the workspace it is made in.
Checking(w) == {d \in Callers : /\ call[d].op \in {"remove", "transfer"}
                                /\ call[d].w = w /\ call[d].at \in {"count", "write"}}

\* An access whose error the service looks at fails, or the process stops.  So
\* does the deletion of a workspace that approvals refer to.
failRequest(c) ==
  /\ call[c].at # "idle"
  /\ Fails
  /\ unsure' = unsure \cup (IF call[c].at \in {"grant", "revokeRole", "mark"}
                            THEN {Self(c)} ELSE {})
  /\ contested' = contested \cup (IF call[c].op = "accept" /\ call[c].at # "read"
                                  THEN {call[c].inv} ELSE {})
  /\ Finish(c)
  /\ UNCHANGED <<data, begun, reported, joined>>
-----------------------------------------------------------------------------
\* WorkspaceService.
createWorkspace(c, u, s) ==
  /\ Begin(c, [Request("create", 1, u) EXCEPT !.name = s])

checkSlug(c) ==
  /\ At(c, "create", "read")
  /\ IF \E w \in Workspaces : Live(w) /\ workspaces[w].slug = call[c].name
     THEN Finish(c) ELSE Goto(c, "insert")
  /\ UNCHANGED <<data, begun, failures, ghosts>>

\* The row's slug is unique among all rows; the owner becomes no member.
insertWorkspace(c) ==
  /\ At(c, "create", "insert")
  /\ IF \E w \in Workspaces : Exists(w) /\ workspaces[w].slug = call[c].name
     THEN UNCHANGED workspaces
     ELSE \E w \in Workspaces :
            /\ workspaces[w].state = "none"
            /\ \A x \in 1..(w - 1) : workspaces[x].state # "none"
            /\ workspaces' = [workspaces EXCEPT ![w] =
                 [state |-> "live", slug |-> call[c].name, owner |-> call[c].user,
                  version |-> 1]]
  /\ Finish(c)
  /\ UNCHANGED <<members, grants, invitations, begun, failures, ghosts>>

\* update, archive, restore and delete; v is the version the caller saw.
onWorkspace(c, op, w, u, v) ==
  /\ workspaces[w].state # "none" /\ v \in 1..workspaces[w].version
  /\ Begin(c, [Request(op, w, u) EXCEPT !.version = v])
updateWorkspace(c, w, v)  == onWorkspace(c, "update", w, NoUser, v)
restore(c, w)             == onWorkspace(c, "restore", w, NoUser, 1)
delete(c, w)              == onWorkspace(c, "delete", w, NoUser, 1)
archiveWorkspace(c, w, v) == onWorkspace(c, "archive", w, NoUser, v)

\* Made in the workspace "here", it hands over w: the two are not compared.
transferOwnership(c, here, w, u, v) ==
  /\ workspaces[here].state # "none"
  /\ workspaces[w].state # "none" /\ v \in 1..workspaces[w].version
  /\ Begin(c, [Request("transfer", here, u) EXCEPT !.to = w, !.version = v])

\* findById; an archive may come with a reason.  A transfer looks for an active
\* member of the workspace it is made in instead.
readWorkspace(c) ==
  /\ call[c].op \in {"update", "archive", "restore"} /\ call[c].at = "read"
  /\ IF Live(call[c].w)
     THEN Goto(c, "write") \/ (call[c].op = "archive" /\ Goto(c, "reason"))
     ELSE Finish(c)
  /\ UNCHANGED <<data, begun, failures, ghosts>>

\* Mutant: any member will do, a removed one too.
checkNewOwnerAny(c) ==
  /\ At(c, "transfer", "read")
  /\ IF members[Self(c)].status # "none" THEN Goto(c, "write") ELSE Finish(c)
  /\ UNCHANGED <<data, begun, failures, ghosts>>

checkNewOwner(c) ==
  /\ At(c, "transfer", "read")
  /\ IF call[c].user \in Active(call[c].w) THEN Goto(c, "write") ELSE Finish(c)
  /\ UNCHANGED <<data, begun, failures, ghosts>>

\* What an update of a live row with the expected version leaves.
Written(w, fresh) ==
  IF Live(w) /\ fresh THEN [workspaces[w] EXCEPT !.version = @ + 1]
  ELSE workspaces[w]

\* The reason is written if the version is still the one seen; the archiving
\* goes on either way.
writeReason(c) ==
  /\ At(c, "archive", "reason")
  /\ \/ workspaces' = [workspaces EXCEPT
          ![call[c].w] = Written(call[c].w, call[c].version = @.version)]
        /\ UNCHANGED failures
     \/ Fails /\ UNCHANGED workspaces
  /\ Goto(c, "write")
  /\ UNCHANGED <<members, grants, invitations, begun, ghosts>>

writeWorkspace(c) ==
  LET w == call[c].w
      fresh == call[c].version = workspaces[w].version
  IN /\ call[c].op \in {"update", "restore", "archive"} /\ call[c].at = "write"
     /\ workspaces' = [workspaces EXCEPT ![w] =
          CASE call[c].op = "update"  -> Written(w, fresh)
            [] call[c].op = "restore" -> Written(w, TRUE)
            [] call[c].op = "archive" -> IF Live(w) THEN [@ EXCEPT !.state = "archived"]
                                         ELSE @]
     /\ Finish(c)
     /\ UNCHANGED <<members, grants, invitations, begun, failures, ghosts>>

setOwner(c) ==
  LET w == call[c].to
      fresh == call[c].version = workspaces[w].version
  IN /\ At(c, "transfer", "write")
     /\ IF Live(w) /\ fresh
        THEN /\ workspaces' = [workspaces EXCEPT ![w] =
                               [Written(w, TRUE) EXCEPT !.owner = call[c].user]]
             /\ FinishUnder(c, Checking(w))
        ELSE Finish(c) /\ UNCHANGED workspaces
     /\ UNCHANGED <<members, grants, invitations, begun, failures, ghosts>>

\* hardDelete, with everything that refers to the workspace.
deleteWorkspace(c) ==
  LET w == call[c].w
      gone(p) == p[1] = w
  IN /\ At(c, "delete", "read")
     /\ workspaces' = [workspaces EXCEPT ![w].state = "deleted"]
     /\ members' = [p \in Memberships |-> IF gone(p) THEN NoMember ELSE members[p]]
     /\ grants' = [p \in Memberships |-> IF gone(p) THEN NoGrants ELSE grants[p]]
     /\ reported' = [p \in Memberships |-> IF gone(p) THEN {} ELSE reported[p]]
     /\ invitations' = [i \in Invitations |->
          IF invitations[i].state # "none" /\ invitations[i].workspace = w
          THEN [invitations[i] EXCEPT !.state = "deleted"]
          ELSE invitations[i]]
     /\ unsure' = unsure \cup {p \in Memberships : gone(p) /\ Granting(p, c)}
     /\ FinishUnder(c, Checking(w))
     /\ UNCHANGED <<begun, failures, joined, contested>>
-----------------------------------------------------------------------------
\* MemberService.
addMember(c, w, u, R) ==
  /\ workspaces[w].state # "none"
  /\ Begin(c, [Request("add", w, u) EXCEPT !.add = R])

\* A removed member still has a row, and is found here.
checkNotMember(c) ==
  /\ At(c, "add", "read")
  /\ IF members[Self(c)].status = "none" THEN Goto(c, "join") ELSE Finish(c)
  /\ UNCHANGED <<data, begun, failures, ghosts>>

\* members.create, by addMember and by accept.
insertMember(c) ==
  /\ call[c].at = "join"
  /\ IF members[Self(c)].status = "none" /\ Exists(call[c].w)
     THEN /\ members' = [members EXCEPT ![Self(c)] = [status |-> "active", version |-> 1]]
          /\ call' = [call EXCEPT ![c].at = "grant", ![c].left = call[c].add]
          /\ joined' = [i \in Invitations |->
               IF i = call[c].inv THEN joined[i] \cup {call[c].user} ELSE joined[i]]
          /\ contested' = contested \cup {i \in {call[c].inv} \cap Invitations :
                             call[c].stale \/ Accepting(i) # {c}}
     ELSE Finish(c) /\ UNCHANGED <<members, joined, contested>>
  /\ UNCHANGED <<workspaces, grants, invitations, begun, failures, reported, unsure>>

changeRole(c, w, u, A, D) ==
  /\ workspaces[w].state # "none"
  /\ A \cup D # {}
  /\ Begin(c, [Request("change", w, u) EXCEPT !.add = A, !.remove = D])

\* The member may have been removed: its row is still there.
checkMember(c) ==
  /\ At(c, "change", "read")
  /\ IF members[Self(c)].status # "none"
     THEN /\ call' = [call EXCEPT ![c].at = "grant", ![c].left = call[c].add]
          /\ unsure' = unsure \cup (IF Granting(Self(c), c) THEN {Self(c)} ELSE {})
     ELSE Finish(c) /\ UNCHANGED unsure
  /\ UNCHANGED <<data, begun, failures, reported, joined, contested>>

\* memberRoles.create: its result is not looked at.  A grant that was archived
\* still holds the unique key of its member and role.
grantRole(c, r) ==
  /\ call[c].at = "grant" /\ r \in call[c].left
  /\ call' = [call EXCEPT ![c].left = @ \ {r}]
  /\ \/ /\ grants[Self(c)][r] = "none" /\ members[Self(c)].status # "none"
        /\ grants' = [grants EXCEPT ![Self(c)][r] = "live"]
        /\ UNCHANGED <<failures, unsure>>
     \/ /\ IF grants[Self(c)][r] = "none" /\ members[Self(c)].status # "none"
           THEN Fails ELSE UNCHANGED failures
        /\ unsure' = unsure \cup (IF grants[Self(c)][r] = "live" THEN {} ELSE {Self(c)})
        /\ UNCHANGED grants
  /\ UNCHANGED <<workspaces, members, invitations, begun, reported, joined, contested>>

\* Mutant: the roles to take are not taken when any were granted.
grantedNoRevoke(c) ==
  /\ call[c].at = "grant" /\ call[c].left = {}
  /\ call' = [call EXCEPT ![c].at = IF call[c].op = "accept" THEN "mark" ELSE "revokeRole",
                          ![c].left = IF call[c].add = {} THEN call[c].remove ELSE {}]
  /\ UNCHANGED <<data, begun, failures, ghosts>>

\* The grants are through: accept goes on to its mark, changeRole to the roles
\* it takes.
granted(c) ==
  /\ call[c].at = "grant" /\ call[c].left = {}
  /\ call' = [call EXCEPT ![c].at = IF call[c].op = "accept" THEN "mark" ELSE "revokeRole",
                          ![c].left = call[c].remove]
  /\ UNCHANGED <<data, begun, failures, ghosts>>

\* findOne and archive of one grant; neither result stops the request.
revokeRole(c, r) ==
  /\ call[c].at = "revokeRole" /\ r \in call[c].left
  /\ call' = [call EXCEPT ![c].left = @ \ {r}]
  /\ \/ /\ grants' = [grants EXCEPT ![Self(c)][r] = IF @ = "live" THEN "archived" ELSE @]
        /\ UNCHANGED <<failures, unsure>>
     \/ /\ grants[Self(c)][r] = "live"
        /\ Fails
        /\ unsure' = unsure \cup {Self(c)}
        /\ UNCHANGED grants
  /\ UNCHANGED <<workspaces, members, invitations, begun, reported, joined, contested>>

\* The audit event and the answer tell which roles were granted and taken.
reportRoles(c) ==
  /\ call[c].at = "revokeRole" /\ call[c].left = {}
  /\ reported' = [reported EXCEPT ![Self(c)] = (@ \cup call[c].add) \ call[c].remove]
  /\ Finish(c)
  /\ UNCHANGED <<data, begun, failures, unsure, joined, contested>>

remove(c, w, u, v) ==
  /\ workspaces[w].state # "none"
  /\ v \in 1..members[<<w, u>>].version
  /\ Begin(c, [Request("remove", w, u) EXCEPT !.version = v])

readMember(c) ==
  /\ At(c, "remove", "read")
  /\ IF members[Self(c)].status # "none" THEN Goto(c, "workspace") ELSE Finish(c)
  /\ UNCHANGED <<data, begun, failures, ghosts>>

\* The workspace's owner is counted for; any other member is not.
readOwner(c) ==
  /\ At(c, "remove", "workspace")
  /\ CASE ~Live(call[c].w) -> Finish(c)
       [] Live(call[c].w) /\ workspaces[call[c].w].owner = call[c].user -> Goto(c, "count")
       [] OTHER -> Goto(c, "write")
  /\ UNCHANGED <<data, begun, failures, ghosts>>

\* Mutant: a workspace with one member left passes the check.
countActiveOwnersZero(c) ==
  /\ At(c, "remove", "count")
  /\ IF Active(call[c].w) = {} THEN Finish(c) ELSE Goto(c, "write")
  /\ UNCHANGED <<data, begun, failures, ghosts>>

\* _countActiveOwners counts the active members, owners or not.
countActiveOwners(c) ==
  /\ At(c, "remove", "count")
  /\ IF Cardinality(Active(call[c].w)) <= 1 THEN Finish(c) ELSE Goto(c, "write")
  /\ UNCHANGED <<data, begun, failures, ghosts>>

\* The row is not archived: its status is.
archiveMember(c) ==
  /\ At(c, "remove", "write")
  /\ IF members[Self(c)].status # "none" /\ call[c].version = members[Self(c)].version
     THEN /\ members' = [members EXCEPT ![Self(c)] =
                           [status |-> "archived", version |-> @.version + 1]]
          /\ FinishUnder(c, Checking(call[c].w))
     ELSE Finish(c) /\ UNCHANGED members
  /\ UNCHANGED <<workspaces, grants, invitations, begun, failures, ghosts>>
-----------------------------------------------------------------------------
\* InvitationService, and the flow for the invited user.
createInvitation(c, w, e, R) ==
  /\ workspaces[w].state # "none" /\ R # {}
  /\ Begin(c, [Request("invite", w, NoUser) EXCEPT !.add = R, !.name = e])

\* invitations.findOne gives one of these.
SameAddress(x, y) == x.workspace = y.workspace /\ x.email = y.email

Matching(c) == {i \in Invitations : /\ invitations[i].state = "live"
                                    /\ invitations[i].workspace = call[c].w
                                    /\ invitations[i].email = call[c].name}

\* Mutant: nothing is looked for.
checkNotInvitedBlind(c) ==
  /\ At(c, "invite", "read")
  /\ Goto(c, "insert")
  /\ UNCHANGED <<data, begun, failures, ghosts>>

\* findOne gives one of the invitations for the address, accepted or not.
checkNotInvited(c) ==
  /\ At(c, "invite", "read")
  /\ \/ Matching(c) = {} /\ Goto(c, "insert")
     \/ \E i \in Matching(c) :
          IF Pending(i) THEN Finish(c)
          ELSE call' = [call EXCEPT ![c].at = "insert",
                          ![c].stale = \E j \in Matching(c) : Pending(j)]
  /\ UNCHANGED <<data, begun, failures, ghosts>>

insertInvitation(c) ==
  /\ At(c, "invite", "insert")
  /\ IF Exists(call[c].w)
     THEN \E i \in Invitations :
            /\ invitations[i].state = "none"
            /\ \A j \in 1..(i - 1) : invitations[j].state # "none"
            /\ invitations' = [invitations EXCEPT ![i] =
                 [state |-> "live", workspace |-> call[c].w, email |-> call[c].name,
                  roles |-> call[c].add, expired |-> FALSE, acceptedBy |-> NoUser,
                  version |-> 1]]
     ELSE UNCHANGED invitations
  /\ FinishUnder(c, {d \in Callers : /\ At(d, "invite", "insert")
                                     /\ call[d].w = call[c].w
                                     /\ call[d].name = call[c].name})
  /\ UNCHANGED <<workspaces, members, grants, begun, failures, ghosts>>

\* accept by the service, acceptInvitation by the flow, and either revoke.
onInvitation(c, op, i, u) ==
  /\ invitations[i].state # "none"
  /\ Begin(c, [Request(op, invitations[i].workspace, u) EXCEPT !.inv = i])
accept(c, i, u)           == onInvitation(c, "accept", i, u)
acceptInvitation(c, i, u) == onInvitation(c, "acceptInvitation", i, u)
revoke(c, i)              == onInvitation(c, "revoke", i, NoUser)

\* Mutant: an invitation that has run out is accepted.
readInvitationLate(c) ==
  /\ call[c].op \in {"accept", "acceptInvitation"} /\ call[c].at = "read"
  /\ LET inv == invitations[call[c].inv]
     IN IF Pending(call[c].inv)
        THEN call' = [call EXCEPT
               ![c].at = IF call[c].op = "accept" THEN "join" ELSE "write",
               ![c].add = inv.roles, ![c].version = inv.version]
        ELSE Finish(c)
  /\ UNCHANGED <<data, begun, failures, ghosts>>

\* The invitation is there, not accepted and not expired.
readInvitation(c) ==
  /\ call[c].op \in {"accept", "acceptInvitation"} /\ call[c].at = "read"
  /\ LET inv == invitations[call[c].inv]
     IN IF Pending(call[c].inv) /\ ~inv.expired
        THEN call' = [call EXCEPT
               ![c].at = IF call[c].op = "accept" THEN "join" ELSE "write",
               ![c].add = inv.roles, ![c].version = inv.version]
        ELSE Finish(c)
  /\ UNCHANGED <<data, begun, failures, ghosts>>

\* Mutant: it is kept that the invitation was accepted, not by whom.
AcceptedBySomeone(i, u) == [invitations[i] EXCEPT !.acceptedBy = TRUE, !.version = @ + 1]
AcceptedBy(i, u) == [invitations[i] EXCEPT !.acceptedBy = u, !.version = @ + 1]

\* Mutant: the invitation is not marked.
markAcceptedNot(c) ==
  /\ At(c, "accept", "mark")
  /\ reported' = [reported EXCEPT ![Self(c)] = @ \cup call[c].add]
  /\ FinishUnder(c, Accepting(call[c].inv))
  /\ UNCHANGED <<data, begun, failures, unsure, joined, contested>>

\* accept marks it whatever its version, and goes on if that fails; the audit
\* event and the answer follow.
markAccepted(c) ==
  LET i == call[c].inv
  IN /\ At(c, "accept", "mark")
     /\ \/ /\ invitations' = [invitations EXCEPT ![i] =
               IF @.state = "live" THEN AcceptedBy(i, call[c].user) ELSE @]
           /\ UNCHANGED <<failures, contested>>
        \/ /\ Fails
           /\ contested' = contested \cup {i}
           /\ UNCHANGED invitations
     /\ reported' = [reported EXCEPT ![Self(c)] = @ \cup call[c].add]
     /\ FinishUnder(c, Accepting(i))
     /\ UNCHANGED <<workspaces, members, grants, begun, unsure, joined>>

\* Mutant: the flow writes whatever the version.
flowAcceptBlind(c) ==
  LET i == call[c].inv
  IN /\ At(c, "acceptInvitation", "write")
     /\ invitations' = [invitations EXCEPT ![i] =
          IF @.state = "live" THEN AcceptedBy(i, call[c].user) ELSE @]
     /\ FinishUnder(c, Accepting(i))
     /\ UNCHANGED <<workspaces, members, grants, begun, failures, ghosts>>

\* The flow writes the version it read, and makes no member.
flowAccept(c) ==
  LET i == call[c].inv
  IN /\ At(c, "acceptInvitation", "write")
     /\ IF invitations[i].state = "live" /\ invitations[i].version = call[c].version
        THEN /\ invitations' = [invitations EXCEPT ![i] = AcceptedBy(i, call[c].user)]
             /\ FinishUnder(c, Accepting(i))
        ELSE Finish(c) /\ UNCHANGED invitations
     /\ UNCHANGED <<workspaces, members, grants, begun, failures, ghosts>>

readRevoked(c) ==
  /\ At(c, "revoke", "read")
  /\ IF invitations[call[c].inv].state = "live" THEN Goto(c, "write") ELSE Finish(c)
  /\ UNCHANGED <<data, begun, failures, ghosts>>

archiveInvitation(c) ==
  /\ At(c, "revoke", "write")
  /\ invitations' = [invitations EXCEPT ![call[c].inv].state =
                       IF @ = "live" THEN "archived" ELSE @]
  /\ FinishUnder(c, Accepting(call[c].inv))
  /\ UNCHANGED <<workspaces, members, grants, begun, failures, ghosts>>

\* expiresAt passes.
expire(i) ==
  /\ Pending(i) /\ ~invitations[i].expired
  /\ invitations' = [invitations EXCEPT ![i].expired = TRUE]
  /\ call' = [d \in Callers |-> IF d \in Accepting(i)
                                 THEN [call[d] EXCEPT !.stale = TRUE] ELSE call[d]]
  /\ UNCHANGED <<workspaces, members, grants, begun, failures, ghosts>>
-----------------------------------------------------------------------------
Start(c) ==
  /\ call[c].at = "idle" /\ begun < MaxCalls
  /\ \/ \E u \in Users, s \in Slugs : createWorkspace(c, u, s)
     \/ \E w \in Workspaces :
          \/ restore(c, w)
          \/ delete(c, w)
          \/ \E v \in 1..(MaxCalls + 1) :
               \/ updateWorkspace(c, w, v)
               \/ archiveWorkspace(c, w, v)
               \/ \E u \in Users :
                    \/ remove(c, w, u, v)
                    \/ \E here \in Workspaces : transferOwnership(c, here, w, u, v)
          \/ \E u \in Users, R, D \in SUBSET Roles :
               \/ D = {} /\ addMember(c, w, u, R)
               \/ changeRole(c, w, u, R, D)
          \/ \E e \in Emails, R \in SUBSET Roles : createInvitation(c, w, e, R)
     \/ \E i \in Invitations :
          \/ revoke(c, i)
          \/ \E u \in Users : accept(c, i, u) \/ acceptInvitation(c, i, u)

Step(c) ==
  \/ checkSlug(c) \/ insertWorkspace(c) \/ readWorkspace(c) \/ writeReason(c)
  \/ writeWorkspace(c) \/ checkNewOwner(c) \/ setOwner(c) \/ deleteWorkspace(c)
  \/ checkNotMember(c) \/ insertMember(c) \/ checkMember(c)
  \/ \E r \in Roles : grantRole(c, r) \/ revokeRole(c, r)
  \/ granted(c) \/ reportRoles(c)
  \/ readMember(c) \/ readOwner(c) \/ countActiveOwners(c) \/ archiveMember(c)
  \/ checkNotInvited(c) \/ insertInvitation(c)
  \/ readInvitation(c) \/ markAccepted(c) \/ flowAccept(c)
  \/ readRevoked(c) \/ archiveInvitation(c)

Next ==
  \/ \E c \in Callers : Start(c) \/ Step(c) \/ failRequest(c)
  \/ \E i \in Invitations : expire(i)

Spec == Init /\ [][Next]_vars
-----------------------------------------------------------------------------
\* The rows are rows of their tables, and every request stands at a step of its
\* operation.
TypeOK ==
  /\ workspaces \in [Workspaces -> WorkspaceRow]
  /\ members \in [Memberships -> MemberRow]
  /\ grants \in [Memberships -> [Roles -> {"none", "live", "archived"}]]
  /\ invitations \in [Invitations -> InvitationRow]
  /\ call \in [Callers -> CallRow]
  /\ begun \in 0..MaxCalls /\ failures \in 0..MaxFailures
  /\ reported \in [Memberships -> SUBSET Roles] /\ unsure \subseteq Memberships
  /\ joined \in [Invitations -> SUBSET Users] /\ contested \subseteq Invitations

\* An invitation brings in one user.  Two get in only when the second request
\* to accept it was under way before the first had marked it, or the mark failed.
AcceptedOnce ==
  \A i \in Invitations \ contested : Cardinality(joined[i]) <= 1

\* A user joins by an invitation that is open at that moment, unless it was
\* closed between the request's check and its insert.
JoinsAreOpen ==
  [][\A i \in Invitations :
       joined'[i] # joined[i] =>
         \/ Pending(i) /\ ~invitations[i].expired
         \/ i \in contested']_vars

\* Who accepted an invitation is not written over, except by an accept of the
\* service that was under way: it does not look at the version.
AcceptanceKept ==
  [][\A i \in Invitations :
       invitations[i].acceptedBy # NoUser =>
         \/ invitations'[i].acceptedBy = invitations[i].acceptedBy
         \/ \E c \in Accepting(i) : call[c].stale /\ call'[c] # call[c]]_vars

\* An address gets a second open invitation to a workspace only when an accepted
\* one hid the open one from the check, or the first came after the check.
OnePending ==
  [][\A i \in Invitations :
       /\ invitations[i].state = "none" /\ invitations'[i].state = "live"
       /\ \E j \in Invitations : Pending(j) /\ SameAddress(invitations[j], invitations'[i])
       => \E c \in Callers : call[c].op = "invite" /\ call[c].stale /\ call'[c] # call[c]]_vars

\* When no request is changing a member's roles, the member has the roles it was
\* reported to have, unless a grant failed (one that was taken before always
\* does) or two requests changed them at one time.
RolesAsReported ==
  \A p \in Memberships \ unsure :
    (\A c \in Callers : Self(c) = p => call[c].at \notin {"grant", "revokeRole", "mark"})
      => LiveGrants(p) = reported[p]

\* The owner's membership ends only when the workspace keeps an active member,
\* unless members or owner changed after the request had counted them.
LastMemberStays ==
  [][\A w \in Workspaces :
       /\ Live(w) /\ workspaces[w].owner \in Active(w)
       /\ Active(w)' = {}
       => \/ workspaces'[w].state = "deleted"
          \/ \E c \in Checking(w) : call[c].stale /\ call'[c] # call[c]]_vars

\* Ownership passes to an active member, unless the member was removed after the
\* request had looked, or the request was made in another workspace: then the new
\* owner is a member of that one.
TransferToMember ==
  [][\A w \in Workspaces :
       workspaces'[w].owner # workspaces[w].owner /\ workspaces[w].state # "none"
       => \/ workspaces'[w].owner \in Active(w)
          \/ \E c \in Callers :
               /\ At(c, "transfer", "write") /\ call[c].to = w /\ call'[c] # call[c]
               /\ \/ call[c].stale
                  \/ call[c].w # w /\ workspaces'[w].owner \in Active(call[c].w)]_vars

\* Members, their roles and the invitations they came by agree.
MembersAgree == TypeOK /\ AcceptedOnce /\ RolesAsReported

\* An invitation goes its way once: one open for an address, joined while open,
\* accepted for good.
InvitationsKept == JoinsAreOpen /\ AcceptanceKept /\ OnePending

\* A workspace keeps a member, and is handed over to one.
OwnershipKept == LastMemberStays /\ TransferToMember
=============================================================================
