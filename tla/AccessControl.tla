----------------------------- MODULE AccessControl -----------------------------
(***************************************************************************)
(* Users, auth groups and what they grant: permission keys and database    *)
(* connections, both called keys here.  A delegated administrator, who may *)
(* write users but does not hold every permission, can only pass on what   *)
(* the guards of security_guards.go find it holds.  The guards and the     *)
(* writes of a request are separate steps, so other requests come between; *)
(* a guard that reads several rows is one step.  A membership row names    *)
(* the group by its key and stays when the group is deleted.               *)
(***************************************************************************)
EXTENDS Naturals

CONSTANTS
    Users, Groups,
    Permissions, Connections,   \* permission keys, database connections
    Protected,      \* the protected users, made by the setup
    AdminGroups,    \* protected groups that hold all permissions
    Developer,      \* the group of accounts made by a login through a provider
    UsersWrite,     \* the permission users.write
    GroupFields, UserFields,    \* bound: the sets of fields that a PATCH of a group or of a user has
    UserSets, KeySets, GroupSets,   \* bound: the sets that a request may name
    Requests,       \* bound: requests in progress at the same time
    MaxRequests     \* bound: requests

Keys == Permissions \cup Connections

\* The parts of the body of a PATCH.
Parts == {"users", "status", "groups", "perms", "conns"}

ASSUME KeysAssumption == /\ Permissions \cap Connections = {}
                         /\ UsersWrite \in Permissions
                         /\ Developer \in Groups \ AdminGroups
                         /\ Protected \subseteq Users /\ Protected # {} /\ AdminGroups \subseteq Groups
                         /\ KeySets \subseteq SUBSET Keys /\ UserSets \subseteq SUBSET Users
                         /\ GroupSets \subseteq SUBSET Groups
                         /\ GroupFields \cup UserFields \subseteq SUBSET Parts

VARIABLES
    fresh, alive,        \* users whose row is still to be made, users with a row
    active,              \* users not disabled
    groups, gid,         \* groups with a row, and how many rows each had: its id
    members,             \* auth_group_memberships in force: the groups of each user
    direct,              \* user_permissions and user_db_connections
    contents,            \* auth_group_permissions and auth_group_db_connections
    req,                 \* the requests in progress
    released, admitted,  \* history: keys and users let in at the start or by an all-permissions administrator
    requests

people == <<fresh, alive, active>>
access == <<people, groups, gid, members, direct, contents>>
vars   == <<fresh, alive, active, groups, gid, members, direct, contents, req, released, admitted, requests>>

-----------------------------------------------------------------------------
(* What a user holds *)

Held(u) == direct[u] \cup UNION {contents[g] : g \in members[u] \cap groups}

HasAllPermissions(u) == u \in alive /\ (u \in Protected \/ members[u] \cap groups \cap AdminGroups # {})

GetEffectivePermissionKeys(u) == IF HasAllPermissions(u) THEN Permissions ELSE Held(u) \cap Permissions
GetEffectiveDBConnectionIDs(u) == IF HasAllPermissions(u) THEN Connections ELSE Held(u) \cap Connections

ListUsersByAuthGroup(g) == {u \in alive : g \in members[u]}

-----------------------------------------------------------------------------
(* The guards, for the acting user a *)

RequireProtectedUserAdmin(a, u) == u \in Protected => HasAllPermissions(a)

\* Mutant: a protected group is given like any other.
RequireNothing(a, g) == TRUE

RequireAuthGroupGrantAllowed(a, g) == g \in AdminGroups => HasAllPermissions(a)
RequireAuthGroupMutationAllowed(a, g) == g \in AdminGroups => HasAllPermissions(a)
RequirePermissionGrantAllowed(a, ks) ==
    HasAllPermissions(a) \/ ks \cap Permissions \subseteq GetEffectivePermissionKeys(a)
RequireDBConnectionGrantAllowed(a, ks) ==
    HasAllPermissions(a) \/ ks \cap Connections \subseteq GetEffectiveDBConnectionIDs(a)
GrantAllowed(a, ks) == RequirePermissionGrantAllowed(a, ks) /\ RequireDBConnectionGrantAllowed(a, ks)

\* Mutant: the contents of the group are not asked for.
RequireOnlyGroupGrant(a, g) == RequireAuthGroupGrantAllowed(a, g)

RequireAuthGroupContentsGrantAllowed(a, g) ==
    RequireAuthGroupGrantAllowed(a, g) /\ GrantAllowed(a, contents[g])

-----------------------------------------------------------------------------
(* The guard of each handler, on the request q *)

LoadMutableAuthGroup(q) == q.group \in groups /\ RequireAuthGroupMutationAllowed(q.actor, q.group)

AddMembershipGuard(q) ==
    /\ q.group \in groups /\ q.user \in alive
    /\ RequireProtectedUserAdmin(q.actor, q.user)
    /\ RequireAuthGroupContentsGrantAllowed(q.actor, q.group)

RemoveMembershipGuard(q) ==
    /\ q.group \in groups /\ q.user \in alive
    /\ RequireProtectedUserAdmin(q.actor, q.user)
    /\ RequireAuthGroupMutationAllowed(q.actor, q.group)

AddDirectPermissionGuard(q) ==
    q.user \in alive /\ RequireProtectedUserAdmin(q.actor, q.user) /\ RequirePermissionGrantAllowed(q.actor, q.keys)
AddDirectDBConnectionGuard(q) ==
    q.user \in alive /\ RequireProtectedUserAdmin(q.actor, q.user) /\ RequireDBConnectionGrantAllowed(q.actor, q.keys)
RemoveDirectPermissionGuard(q)   == q.user \in alive /\ RequireProtectedUserAdmin(q.actor, q.user)
RemoveDirectDBConnectionGuard(q) == q.user \in alive /\ RequireProtectedUserAdmin(q.actor, q.user)

AddPermissionGuard(q)   == LoadMutableAuthGroup(q) /\ RequirePermissionGrantAllowed(q.actor, q.keys)
AddDBConnectionGuard(q) == LoadMutableAuthGroup(q) /\ RequireDBConnectionGrantAllowed(q.actor, q.keys)

CreateGroupGuard(q) == GrantAllowed(q.actor, q.keys)

\* The users that join or leave may be protected ones.
PatchGroupUsersGuard(q) ==
    LET current == ListUsersByAuthGroup(q.group) IN
    /\ RequireAuthGroupContentsGrantAllowed(q.actor, q.group)
    /\ \A u \in q.users \ current : u \in alive /\ RequireProtectedUserAdmin(q.actor, u)
    /\ \A u \in current \ q.users : RequireProtectedUserAdmin(q.actor, u)

PatchGroupGuard(q) ==
    /\ LoadMutableAuthGroup(q)
    /\ "users" \in q.fields => PatchGroupUsersGuard(q)
    /\ "perms" \in q.fields => RequirePermissionGrantAllowed(q.actor, q.keys)
    /\ "conns" \in q.fields => RequireDBConnectionGrantAllowed(q.actor, q.keys)

DeleteGroupGuard(q) == q.group \in groups \ AdminGroups

PatchUserGuard(q)  == q.user \in alive /\ RequireProtectedUserAdmin(q.actor, q.user)
DeleteUserGuard(q) == q.user \in alive \ Protected

\* Patch of a user checks the groups when it comes to them, after earlier parts were written.
ReplaceMembershipsGuard(q) ==
    /\ \A g \in q.groups : g \in groups /\ RequireAuthGroupContentsGrantAllowed(q.actor, g)
    /\ \A g \in (members[q.user] \cap groups) \ q.groups : RequireAuthGroupMutationAllowed(q.actor, g)
ReplaceDirectPermissionsGuard(q) == RequirePermissionGrantAllowed(q.actor, q.keys)
ReplaceDirectDBConnectionsGuard(q) == RequireDBConnectionGrantAllowed(q.actor, q.keys)

-----------------------------------------------------------------------------
(* The steps of a request *)

Nobody == CHOOSE u \in Users : TRUE
Idle == [op |-> "none", at |-> "guard", actor |-> Nobody, user |-> Nobody, group |-> Developer, groups |-> {},
         users |-> {}, keys |-> {}, fields |-> {}, drop |-> {}, gid |-> 0, admin |-> FALSE]
Goes(r, at)  == req' = [req EXCEPT ![r] = IF at = "end" THEN Idle ELSE [@ EXCEPT !.at = at]]
Answers(r)   == req' = [req EXCEPT ![r] = Idle]
At(r, op, at) == req[r].op = op /\ req[r].at = at
\* The history of a grant by an administrator with all permissions.
Grants(q, ks, us) == /\ released' = IF q.admin THEN released \cup ks ELSE released
                     /\ admitted' = IF q.admin THEN admitted \cup us ELSE admitted
GrantsNothing == UNCHANGED <<released, admitted>>
Admits(g, us) == IF g \in AdminGroups THEN us ELSE {}

\* RequireAuth, RequireActiveUser, InjectPermissions and requireUsersWrite, in front of every handler.
Arrive(r, q) ==
    /\ req[r].op = "none" /\ requests < MaxRequests /\ requests' = requests + 1
    /\ q.actor \in alive \cap active /\ UsersWrite \in GetEffectivePermissionKeys(q.actor)
    /\ req' = [req EXCEPT ![r] = q]
    /\ UNCHANGED <<access, released, admitted>>

Asks(a, op) == [Idle EXCEPT !.op = op, !.actor = a, !.user = a]
\* A part that the body of a PATCH may leave out.
Given(f, part, S) == IF part \in f THEN S ELSE {{}}

Arrival(r) == \E a \in Users :
    \/ \E u \in Users, g \in Groups, op \in {"addMembership", "removeMembership"} :
           Arrive(r, [Asks(a, op) EXCEPT !.user = u, !.group = g])
    \/ \E u \in Users, k \in Keys, op \in {"addDirect", "removeDirect"} :
           Arrive(r, [Asks(a, op) EXCEPT !.user = u, !.keys = {k}])
    \/ \E g \in Groups, k \in Keys, op \in {"addKey", "removeKey"} :
           Arrive(r, [Asks(a, op) EXCEPT !.group = g, !.keys = {k}])
    \/ \E g \in Groups, us \in UserSets, ks \in KeySets :
           Arrive(r, [Asks(a, "createGroup") EXCEPT !.group = g, !.users = us, !.keys = ks,
                                                    !.fields = {"perms", "conns"}])
    \/ \E g \in Groups, f \in GroupFields :
           \E us \in Given(f, "users", UserSets), ks \in Given(f, "perms", KeySets) \cup Given(f, "conns", KeySets) :
               Arrive(r, [Asks(a, "patchGroup") EXCEPT !.group = g, !.users = us, !.keys = ks, !.fields = f])
    \/ \E g \in Groups : Arrive(r, [Asks(a, "deleteGroup") EXCEPT !.group = g])
    \/ \E u \in Users, f \in UserFields :
           \E gs \in Given(f, "groups", GroupSets), ks \in Given(f, "perms", KeySets) \cup Given(f, "conns", KeySets) :
               Arrive(r, [Asks(a, "patchUser") EXCEPT !.user = u, !.groups = gs, !.keys = ks, !.fields = f])
    \/ \E u \in Users : Arrive(r, [Asks(a, "deleteUser") EXCEPT !.user = u])

Guard(q) ==
    \/ q.op = "addMembership"    /\ AddMembershipGuard(q)
    \/ q.op = "removeMembership" /\ RemoveMembershipGuard(q)
    \/ q.op = "addDirect"    /\ AddDirectPermissionGuard(q) /\ AddDirectDBConnectionGuard(q)
    \/ q.op = "removeDirect" /\ RemoveDirectPermissionGuard(q) /\ RemoveDirectDBConnectionGuard(q)
    \/ q.op = "addKey"      /\ AddPermissionGuard(q) /\ AddDBConnectionGuard(q)
    \/ q.op = "removeKey"   /\ LoadMutableAuthGroup(q)
    \/ q.op = "createGroup" /\ CreateGroupGuard(q)
    \/ q.op = "patchGroup"  /\ PatchGroupGuard(q)
    \/ q.op = "deleteGroup" /\ DeleteGroupGuard(q)
    \/ q.op = "patchUser"   /\ PatchUserGuard(q)
    \/ q.op = "deleteUser"  /\ DeleteUserGuard(q)
\* The first write of a request, and the one after each part; "end" is the answer.
AfterPerms(q)   == IF "conns" \in q.fields THEN "conns" ELSE "end"
AfterMembers(q) == IF "perms" \in q.fields THEN "perms" ELSE AfterPerms(q)
AfterStatus(q)  == IF "groups" \in q.fields THEN "groups" ELSE AfterMembers(q)
First(q) == IF q.op = "patchGroup" THEN IF "users" \in q.fields THEN "list" ELSE AfterMembers(q)
            ELSE IF q.op = "patchUser" THEN IF "status" \in q.fields THEN "status" ELSE AfterStatus(q)
            ELSE "write"

Check(r) ==
    LET q == req[r] IN
    /\ q.op # "none" /\ q.at = "guard"
    /\ IF Guard(q)
       THEN req' = [req EXCEPT ![r] = IF First(q) = "end" THEN Idle
                        ELSE [q EXCEPT !.at = First(q), !.gid = gid[q.group], !.admin = HasAllPermissions(q.actor)]]
       ELSE Answers(r)
    /\ UNCHANGED <<access, released, admitted, requests>>

\* A statement of the Meta DB fails: what was written before stays.
Fails(r) ==
    /\ req[r].op # "none" /\ req[r].at # "guard"
    /\ Answers(r)
    /\ UNCHANGED <<access, released, admitted, requests>>

AddMembership(r) ==
    LET q == req[r] IN
    /\ At(r, "addMembership", "write")
    /\ members' = [members EXCEPT ![q.user] = @ \cup {q.group}]
    /\ Grants(q, contents[q.group], Admits(q.group, {q.user})) /\ Answers(r)
    /\ UNCHANGED <<people, groups, gid, direct, contents, requests>>

RemoveMembership(r) ==
    /\ At(r, "removeMembership", "write")
    /\ members' = [members EXCEPT ![req[r].user] = @ \ {req[r].group}]
    /\ Answers(r) /\ GrantsNothing
    /\ UNCHANGED <<people, groups, gid, direct, contents, requests>>

AddDirect(r) ==
    /\ At(r, "addDirect", "write")
    /\ direct' = [direct EXCEPT ![req[r].user] = @ \cup req[r].keys]
    /\ Grants(req[r], req[r].keys, {}) /\ Answers(r)
    /\ UNCHANGED <<people, groups, gid, members, contents, requests>>

RemoveDirect(r) ==
    /\ At(r, "removeDirect", "write")
    /\ direct' = [direct EXCEPT ![req[r].user] = @ \ req[r].keys]
    /\ Answers(r) /\ GrantsNothing
    /\ UNCHANGED <<people, groups, gid, members, contents, requests>>

\* Keys of a group are written by its id, which a deleted group keeps to itself.
SameGroup(q) == q.group \in groups /\ gid[q.group] = q.gid
SetContents(q, ks) == contents' = IF SameGroup(q) THEN [contents EXCEPT ![q.group] = ks] ELSE contents

AddKey(r) ==
    LET q == req[r] IN
    /\ At(r, "addKey", "write")
    /\ SetContents(q, contents[q.group] \cup q.keys)
    /\ Grants(q, q.keys, {}) /\ Answers(r)
    /\ UNCHANGED <<people, groups, gid, members, direct, requests>>

RemoveKey(r) ==
    LET q == req[r] IN
    /\ At(r, "removeKey", "write")
    /\ SetContents(q, contents[q.group] \ q.keys)
    /\ Answers(r) /\ GrantsNothing
    /\ UNCHANGED <<people, groups, gid, members, direct, requests>>

\* The key is unique; whoever is still listed under it is a member at once.
CreateGroup(r) ==
    LET q == req[r] IN
    /\ At(r, "createGroup", "write")
    /\ IF q.group \in groups THEN Answers(r) /\ UNCHANGED <<groups, gid>>
       ELSE /\ groups' = groups \cup {q.group} /\ gid' = [gid EXCEPT ![q.group] = @ + 1]
            /\ req' = [req EXCEPT ![r].at = "members", ![r].gid = gid[q.group] + 1]
    /\ GrantsNothing
    /\ UNCHANGED <<people, members, direct, contents, requests>>

DeleteGroup(r) ==
    LET q == req[r] IN
    /\ At(r, "deleteGroup", "write")
    /\ SetContents(q, {})
    /\ groups' = IF SameGroup(q) THEN groups \ {q.group} ELSE groups
    /\ Answers(r) /\ GrantsNothing
    /\ UNCHANGED <<people, gid, members, direct, requests>>

\* Patch of a group lists its members again before it changes them one by one.
PatchGroupList(r) ==
    LET q == req[r]
        current == ListUsersByAuthGroup(q.group) IN
    /\ At(r, "patchGroup", "list")
    /\ req' = [req EXCEPT ![r].at = "members", ![r].users = @ \ current, ![r].drop = current \ q.users]
    /\ UNCHANGED <<access, released, admitted, requests>>

JoinGroup(r) ==
    LET q == req[r] IN
    /\ q.op \in {"createGroup", "patchGroup"} /\ q.at = "members"
    /\ \E u \in q.users :
          /\ members' = [members EXCEPT ![u] = @ \cup {q.group}]
          /\ Grants(q, contents[q.group], Admits(q.group, {u}))
          /\ req' = [req EXCEPT ![r].users = @ \ {u}]
    /\ UNCHANGED <<people, groups, gid, direct, contents, requests>>

LeaveGroup(r) ==
    LET q == req[r] IN
    /\ q.op \in {"createGroup", "patchGroup"} /\ q.at = "members" /\ q.users = {}
    /\ IF q.drop = {} THEN Goes(r, AfterMembers(q)) /\ UNCHANGED members
       ELSE \E u \in q.drop :
               /\ members' = [members EXCEPT ![u] = @ \ {q.group}]
               /\ req' = [req EXCEPT ![r].drop = @ \ {u}]
    /\ GrantsNothing
    /\ UNCHANGED <<people, groups, gid, direct, contents, requests>>

ReplacePermissionKeys(r) ==
    LET q == req[r] IN
    /\ q.op \in {"createGroup", "patchGroup"} /\ q.at = "perms"
    /\ SetContents(q, (contents[q.group] \ Permissions) \cup (q.keys \cap Permissions))
    /\ Grants(q, q.keys \cap Permissions, {}) /\ Goes(r, AfterPerms(q))
    /\ UNCHANGED <<people, groups, gid, members, direct, requests>>

ReplaceDBConnectionIDs(r) ==
    LET q == req[r] IN
    /\ q.op \in {"createGroup", "patchGroup"} /\ q.at = "conns"
    /\ SetContents(q, (contents[q.group] \ Connections) \cup (q.keys \cap Connections))
    /\ Grants(q, q.keys \cap Connections, {}) /\ Answers(r)
    /\ UNCHANGED <<people, groups, gid, members, direct, requests>>
-----------------------------------------------------------------------------
(* Patch of a user: parts that are each checked and then written *)

UpdateActive(r) ==
    LET q == req[r] IN
    /\ At(r, "patchUser", "status")
    /\ active' \in {active \cup {q.user}, active \ {q.user}}
    /\ Goes(r, AfterStatus(q)) /\ GrantsNothing
    /\ UNCHANGED <<fresh, alive, groups, gid, members, direct, contents, requests>>

\* A part is checked: it is written next, or the request ends with the earlier parts written.
CheckPart(r, part, write, allowed) ==
    /\ At(r, "patchUser", part)
    /\ IF allowed THEN req' = [req EXCEPT ![r].at = write, ![r].admin = HasAllPermissions(req[r].actor)]
       ELSE Answers(r)
    /\ UNCHANGED <<access, released, admitted, requests>>

CheckMemberships(r)       == CheckPart(r, "groups", "groupsWrite", ReplaceMembershipsGuard(req[r]))
CheckDirectPermissions(r) == CheckPart(r, "perms", "permsWrite", ReplaceDirectPermissionsGuard(req[r]))
CheckDirectDBConnections(r) == CheckPart(r, "conns", "connsWrite", ReplaceDirectDBConnectionsGuard(req[r]))

\* All rows of the user are deleted, those that came after the check included.
ReplaceMemberships(r) ==
    LET q == req[r] IN
    /\ At(r, "patchUser", "groupsWrite")
    /\ members' = [members EXCEPT ![q.user] = q.groups]
    /\ Grants(q, UNION {contents[g] : g \in q.groups}, UNION {Admits(g, {q.user}) : g \in q.groups})
    /\ Goes(r, AfterMembers(q))
    /\ UNCHANGED <<people, groups, gid, direct, contents, requests>>

ReplaceDirectPermissionKeys(r) ==
    LET q == req[r] IN
    /\ At(r, "patchUser", "permsWrite")
    /\ direct' = [direct EXCEPT ![q.user] = (@ \ Permissions) \cup (q.keys \cap Permissions)]
    /\ Grants(q, q.keys \cap Permissions, {}) /\ Goes(r, AfterPerms(q))
    /\ UNCHANGED <<people, groups, gid, members, contents, requests>>

ReplaceDirectDBConnectionIDs(r) ==
    LET q == req[r] IN
    /\ At(r, "patchUser", "connsWrite")
    /\ direct' = [direct EXCEPT ![q.user] = (@ \ Connections) \cup (q.keys \cap Connections)]
    /\ Grants(q, q.keys \cap Connections, {}) /\ Answers(r)
    /\ UNCHANGED <<people, groups, gid, members, contents, requests>>

DeleteUser(r) ==
    LET q == req[r] IN
    /\ At(r, "deleteUser", "write")
    /\ alive' = alive \ {q.user} /\ members' = [members EXCEPT ![q.user] = {}]
    /\ Answers(r) /\ GrantsNothing
    /\ UNCHANGED <<fresh, active, groups, gid, direct, contents, requests>>

-----------------------------------------------------------------------------
\* A membership reaches its expires_at.
Expire(u, g) ==
    /\ g \in members[u]
    /\ members' = [members EXCEPT ![u] = @ \ {g}]
    /\ UNCHANGED <<people, groups, gid, direct, contents, req, released, admitted, requests>>

\* A login through a provider makes an account in the developer group.
CreateDeveloper(u) ==
    /\ u \in fresh
    /\ fresh' = fresh \ {u} /\ alive' = alive \cup {u} /\ active' = active \cup {u}
    /\ members' = [members EXCEPT ![u] = @ \cup {Developer}]
    /\ UNCHANGED <<groups, gid, direct, contents, req, released, admitted, requests>>

\* Whatever is held at the start, and what the developer group holds, was let in by the setup.
Init ==
    /\ fresh \in SUBSET (Users \ Protected) /\ alive = Users \ fresh /\ active = alive
    /\ groups \in SUBSET Groups /\ AdminGroups \cup {Developer} \subseteq groups
    /\ gid = [g \in Groups |-> IF g \in groups THEN 1 ELSE 0]
    /\ members \in [Users -> SUBSET groups] /\ \A u \in fresh : members[u] = {}
    /\ direct \in [Users -> SUBSET Keys] /\ \A u \in fresh : direct[u] = {}
    /\ contents \in [Groups -> SUBSET Keys] /\ \A g \in Groups \ groups : contents[g] = {}
    /\ req = [r \in Requests |-> Idle]
    /\ released = contents[Developer] \cup UNION {Held(u) : u \in Users}
    /\ admitted = {u \in Users : members[u] \cap AdminGroups # {}}
    /\ requests = 0

Step(r) ==
    \/ Arrival(r) \/ Check(r) \/ Fails(r)
    \/ AddMembership(r) \/ RemoveMembership(r) \/ AddDirect(r) \/ RemoveDirect(r)
    \/ AddKey(r) \/ RemoveKey(r) \/ CreateGroup(r) \/ DeleteGroup(r)
    \/ PatchGroupList(r) \/ JoinGroup(r) \/ LeaveGroup(r)
    \/ ReplacePermissionKeys(r) \/ ReplaceDBConnectionIDs(r)
    \/ UpdateActive(r) \/ CheckMemberships(r) \/ CheckDirectPermissions(r) \/ CheckDirectDBConnections(r)
    \/ ReplaceMemberships(r) \/ ReplaceDirectPermissionKeys(r) \/ ReplaceDirectDBConnectionIDs(r)
    \/ DeleteUser(r)

Next ==
    \/ \E r \in Requests : Step(r)
    \/ \E u \in Users, g \in Groups : Expire(u, g)
    \/ \E u \in Users : CreateDeveloper(u)

Spec == Init /\ [][Next]_vars

-----------------------------------------------------------------------------
(* No escalation: whatever a user is given, directly or by a group, was    *)
(* held by somebody at the start or was given out by an administrator with *)
(* all permissions.  Delegated administrators, however their requests      *)
(* interleave with each other and with the administrator's, bring no other *)
(* key into circulation (the guards of security_guards.go).                *)
NoEscalation == \A u \in Users : Held(u) \subseteq released

(* Only an administrator with all permissions makes another one: a member  *)
(* of an admin group was one at the start or was admitted by one           *)
(* (requireAuthGroupGrantAllowed).                                         *)
OnlyAdminsMakeAdmins == \A u \in Users : members[u] \cap AdminGroups # {} => u \in admitted
=============================================================================
