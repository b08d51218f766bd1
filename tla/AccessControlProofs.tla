-------------------------- MODULE AccessControlProofs --------------------------
(***************************************************************************)
(* NoEscalation and OnlyAdminsMakeAdmins hold for any users, groups, keys  *)
(* and number of requests.  The inductive invariant adds what a request    *)
(* that has passed its guard may still write: unless the guard found an    *)
(* administrator with all permissions, its keys and the contents of its    *)
(* groups are released, and they stay so, because every other request only *)
(* adds released keys to a group.                                          *)
(***************************************************************************)
EXTENDS AccessControl, TLAPS

Ops == {"none", "addMembership", "removeMembership", "addDirect", "removeDirect", "addKey", "removeKey",
        "createGroup", "patchGroup", "deleteGroup", "patchUser", "deleteUser"}
Stages == {"guard", "write", "list", "members", "status", "groups", "perms", "conns",
           "groupsWrite", "permsWrite", "connsWrite"}
Request == [op : Ops, at : Stages, actor : Users, user : Users, group : Groups, groups : SUBSET Groups,
            users : SUBSET Users, keys : SUBSET Keys, fields : SUBSET Parts, drop : SUBSET Users,
            gid : Nat, admin : BOOLEAN]

TablesOK ==
    /\ alive \subseteq Users /\ groups \subseteq Groups
    /\ gid \in [Groups -> Nat] /\ members \in [Users -> SUBSET Groups]
    /\ direct \in [Users -> SUBSET Keys] /\ contents \in [Groups -> SUBSET Keys]

Open(g, c, R) == c[g] \subseteq R /\ g \notin AdminGroups

\* What a request that has passed its guard may still give, for contents c and released keys R.
Safe(q, c, R) ==
    /\ q.op \in {"addDirect", "addKey", "createGroup"} => q.keys \subseteq R
    /\ q.op = "patchGroup" /\ q.at = "perms" => "perms" \in q.fields
    /\ q.op = "patchGroup" /\ q.at = "conns" => "conns" \in q.fields
    /\ q.op = "patchGroup" /\ "perms" \in q.fields => q.keys \cap Permissions \subseteq R
    /\ q.op = "patchGroup" /\ "conns" \in q.fields => q.keys \cap Connections \subseteq R
    /\ q.op = "patchGroup" /\ q.at \in {"list", "members"} => Open(q.group, c, R)
    /\ q.op = "createGroup" /\ q.at = "members" => Open(q.group, c, R)
    /\ q.op = "addMembership" => Open(q.group, c, R)
    /\ q.op = "patchUser" /\ q.at = "groupsWrite" => \A g \in q.groups : Open(g, c, R)
    /\ q.op = "patchUser" /\ q.at = "permsWrite" => q.keys \cap Permissions \subseteq R
    /\ q.op = "patchUser" /\ q.at = "connsWrite" => q.keys \cap Connections \subseteq R

Pending(q, c, R) ==
    q.at # "guard" => /\ ~q.admin => Safe(q, c, R)
                      /\ q.op = "deleteGroup" => q.group \notin AdminGroups

Rows ==
    /\ \A u \in Users : direct[u] \subseteq released
    /\ \A u \in Users : \A g \in members[u] : contents[g] \subseteq released
    /\ \A u \in Users : \A g \in members[u] : g \in AdminGroups => u \in admitted
    /\ contents[Developer] \subseteq released
    /\ AdminGroups \subseteq groups
    /\ \A g \in Groups : g \notin groups => contents[g] = {}

AllPending == req \in [Requests -> Request] /\ \A r \in Requests : Pending(req[r], contents, released)

IInv == TablesOK /\ Rows /\ AllPending

\* What every step does to the rows: it only adds what is released.
Keeps ==
    /\ released \subseteq released' /\ admitted \subseteq admitted'
    /\ \A g \in Groups : contents'[g] \subseteq contents[g] \cup released'
    /\ \A u \in Users : direct'[u] \subseteq direct[u] \cup released'
    /\ \A u \in Users : \A g \in members'[u] :
          g \in members[u] \/ (contents[g] \subseteq released' /\ (g \in AdminGroups => u \in admitted'))
    /\ AdminGroups \subseteq groups'
    /\ \A g \in Groups : g \notin groups' => contents'[g] = {}

\* The request r goes on as q.
Becomes(r, q) == q \in Request /\ req' = [req EXCEPT ![r] = q] /\ Pending(q, contents', released')

-----------------------------------------------------------------------------
(* A record with fields of the right types is a request.                   *)
LEMMA RequestRecord ==
    ASSUME NEW op \in Ops, NEW at \in Stages, NEW a \in Users, NEW u \in Users, NEW g \in Groups,
           NEW gs \in SUBSET Groups, NEW us \in SUBSET Users, NEW ks \in SUBSET Keys, NEW f \in SUBSET Parts,
           NEW d \in SUBSET Users, NEW n \in Nat, NEW ad \in BOOLEAN
    PROVE  [op |-> op, at |-> at, actor |-> a, user |-> u, group |-> g, groups |-> gs, users |-> us,
            keys |-> ks, fields |-> f, drop |-> d, gid |-> n, admin |-> ad] \in Request
  BY DEF Request

(* The record of no request is a request. *)
LEMMA IdleRequest == Idle \in Request /\ \A c, R : Pending(Idle, c, R)
<1>1. Nobody \in Users
  BY KeysAssumption DEF Nobody
<1>2. Developer \in Groups
  BY KeysAssumption
<1>3. Idle \in Request
  <2>1. "none" \in Ops /\ "guard" \in Stages
    BY DEF Ops, Stages
  <2>2. 0 \in Nat
    OBVIOUS
  <2>3. FALSE \in BOOLEAN
    BY Zenon
  <2>4. QED
    BY <1>1, <1>2, <2>1, <2>2, <2>3, RequestRecord DEF Idle
<1>4. Idle.at = "guard"
  BY DEF Idle
<1>5. QED
  BY <1>3, <1>4 DEF Pending

(* What a request may give stays allowed while only released keys are     *)
(* added to groups and released only grows.                               *)
LEMMA PendingStays ==
    ASSUME NEW q \in Request, NEW c, NEW R, NEW c2, NEW R2,
           R \subseteq R2, \A g \in Groups : c2[g] \subseteq c[g] \cup R2,
           Pending(q, c, R)
    PROVE  Pending(q, c2, R2)
<1>1. ASSUME NEW g \in Groups, Open(g, c, R) PROVE Open(g, c2, R2)
  BY <1>1 DEF Open
<1>2. q.group \in Groups /\ \A g \in q.groups : g \in Groups
  BY DEF Request
<1>3. Safe(q, c, R) => Safe(q, c2, R2)
  BY <1>1, <1>2 DEF Safe
<1>4. QED
  BY <1>3 DEF Pending

(* A step that keeps the rows and takes one request on keeps IInv.         *)
LEMMA StepKeepsIInv ==
    ASSUME IInv, NEW r \in Requests, NEW q, Becomes(r, q), TablesOK', Keeps
    PROVE  IInv'
<1>1. Rows'
  <2>1. \A g \in Groups : contents[g] \subseteq released' => contents'[g] \subseteq released'
    BY DEF Keeps
  <2>2. \A u \in Users : direct'[u] \subseteq released'
    BY DEF Keeps, IInv, Rows
  <2>3. \A u \in Users : \A g \in members'[u] : g \in Groups /\ contents[g] \subseteq released'
    BY DEF Keeps, IInv, Rows, TablesOK
  <2>4. \A u \in Users : \A g \in members'[u] : g \in AdminGroups => u \in admitted'
    BY DEF Keeps, IInv, Rows, TablesOK
  <2>5. contents'[Developer] \subseteq released'
    BY KeysAssumption DEF Keeps, IInv, Rows
  <2>6. QED
    BY <2>1, <2>2, <2>3, <2>4, <2>5 DEF Keeps, Rows
<1>2. AllPending'
  <2>1. req' \in [Requests -> Request]
    BY DEF IInv, AllPending, Becomes
  <2>2. ASSUME NEW x \in Requests PROVE Pending(req'[x], contents', released')
    <3>1. CASE x = r
      BY <3>1 DEF IInv, AllPending, Becomes
    <3>2. CASE x # r
      <4>1. req'[x] = req[x] /\ req[x] \in Request /\ Pending(req[x], contents, released)
        BY <3>2 DEF IInv, AllPending, Becomes
      <4>2. QED
        BY <4>1, PendingStays DEF Keeps
    <3>3. QED
      BY <3>1, <3>2
  <2>3. QED
    BY <2>1, <2>2 DEF AllPending
<1>3. QED
  BY <1>1, <1>2 DEF IInv

-----------------------------------------------------------------------------
(* A step that changes no row keeps the rows.                              *)
LEMMA Quiet ==
    ASSUME IInv, UNCHANGED <<access, released, admitted>>
    PROVE  TablesOK' /\ Keeps
<1>1. UNCHANGED <<alive, groups, gid, members, direct, contents, released, admitted>>
  BY DEF access, people
<1>2. TablesOK'
  BY <1>1 DEF IInv, TablesOK
<1>3. Keeps
  BY <1>1 DEF IInv, Rows, Keeps
<1>4. QED
  BY <1>2, <1>3

(* A request that answers gives nothing any more.                          *)
LEMMA AnswerKeeps ==
    ASSUME IInv, NEW r \in Requests, Answers(r), TablesOK', Keeps
    PROVE  IInv'
<1>1. Becomes(r, Idle)
  BY IdleRequest DEF Answers, Becomes
<1>2. QED
  BY <1>1, StepKeepsIInv

(* The request goes on to another stage.                                   *)
LEMMA StageRequest ==
    ASSUME NEW q \in Request, NEW at \in Stages
    PROVE  /\ [q EXCEPT !.at = at] \in Request
           /\ [q EXCEPT !.at = at].at = at
           /\ \A x \in {"perms", "conns"} : x \in [q EXCEPT !.at = at].fields <=> x \in q.fields
           /\ [q EXCEPT !.at = at].op = q.op /\ [q EXCEPT !.at = at].keys = q.keys
           /\ [q EXCEPT !.at = at].group = q.group /\ [q EXCEPT !.at = at].groups = q.groups
           /\ [q EXCEPT !.at = at].admin = q.admin
  BY DEF Request

(* What a delegated administrator is allowed to pass on is released.       *)
LEMMA GrantIsReleased ==
    ASSUME IInv, NEW a \in Users, ~HasAllPermissions(a)
    PROVE  /\ \A ks \in SUBSET Keys : RequirePermissionGrantAllowed(a, ks) => ks \cap Permissions \subseteq released
           /\ \A ks \in SUBSET Keys : RequireDBConnectionGrantAllowed(a, ks) => ks \cap Connections \subseteq released
           /\ \A ks \in SUBSET Keys : GrantAllowed(a, ks) => ks \subseteq released
           /\ \A g \in Groups : RequireAuthGroupContentsGrantAllowed(a, g) => Open(g, contents, released)
<1>1. Held(a) \subseteq released
  BY DEF Held, IInv, Rows, TablesOK
<1>2. \A ks \in SUBSET Keys : RequirePermissionGrantAllowed(a, ks) => ks \cap Permissions \subseteq released
  BY <1>1 DEF RequirePermissionGrantAllowed, GetEffectivePermissionKeys
<1>3. \A ks \in SUBSET Keys : RequireDBConnectionGrantAllowed(a, ks) => ks \cap Connections \subseteq released
  BY <1>1 DEF RequireDBConnectionGrantAllowed, GetEffectiveDBConnectionIDs
<1>4. \A ks \in SUBSET Keys : GrantAllowed(a, ks) => ks \subseteq released
  BY <1>2, <1>3 DEF GrantAllowed, Keys
<1>5. \A g \in Groups : RequireAuthGroupContentsGrantAllowed(a, g) => Open(g, contents, released)
  BY <1>4 DEF RequireAuthGroupContentsGrantAllowed, RequireAuthGroupGrantAllowed, Open, IInv, TablesOK
<1>6. QED
  BY <1>2, <1>3, <1>4, <1>5

(* The grants of an action add to the history only.                        *)
LEMMA GrantsGrow ==
    ASSUME NEW q, NEW ks, NEW us, Grants(q, ks, us)
    PROVE  /\ released \subseteq released' /\ admitted \subseteq admitted'
           /\ q.admin => ks \subseteq released' /\ us \subseteq admitted'
  BY DEF Grants

(* The fields of a request in progress, and what it may give.              *)
LEMMA RequestFields ==
    ASSUME IInv, NEW r \in Requests
    PROVE  /\ req[r] \in Request
           /\ req[r].user \in Users /\ req[r].actor \in Users /\ req[r].group \in Groups
           /\ req[r].groups \subseteq Groups /\ req[r].keys \subseteq Keys
           /\ req[r].users \subseteq Users /\ req[r].drop \subseteq Users
           /\ Pending(req[r], contents, released)
  BY DEF IInv, AllPending, Request

-----------------------------------------------------------------------------
(* One lemma for each action *)

(* AddMembership gives a group whose contents are released.                *)
LEMMA AddMembershipKeeps ==
    ASSUME IInv, NEW r \in Requests, AddMembership(r)
    PROVE  IInv'
<1>1. At(r, "addMembership", "write") /\ Answers(r)
      /\ members' = [members EXCEPT ![req[r].user] = @ \cup {req[r].group}]
      /\ Grants(req[r], contents[req[r].group], Admits(req[r].group, {req[r].user}))
      /\ UNCHANGED <<alive, groups, gid, direct, contents>>
  BY DEF AddMembership, people
<1>2. req[r].user \in Users /\ req[r].group \in Groups /\ Pending(req[r], contents, released)
  BY RequestFields
<1>3. released \subseteq released' /\ admitted \subseteq admitted'
  BY <1>1, GrantsGrow
<1>4. contents[req[r].group] \subseteq released' /\ (req[r].group \in AdminGroups => req[r].user \in admitted')
  <2>1. CASE req[r].admin
    BY <2>1, <1>1, GrantsGrow, Zenon DEF Admits
  <2>2. CASE ~req[r].admin
    BY <2>2, <1>1, <1>2, <1>3 DEF Pending, Safe, Open, At
  <2>3. QED
    BY <2>1, <2>2
<1>5. TablesOK'
  BY <1>1, <1>2 DEF IInv, TablesOK
<1>6. Keeps
  BY <1>1, <1>2, <1>3, <1>4 DEF Keeps, IInv, Rows, TablesOK
<1>7. QED
  BY <1>1, <1>5, <1>6, AnswerKeeps

(* RemoveMembership takes a group away.                                    *)
LEMMA RemoveMembershipKeeps ==
    ASSUME IInv, NEW r \in Requests, RemoveMembership(r)
    PROVE  IInv'
<1>1. Answers(r) /\ members' = [members EXCEPT ![req[r].user] = @ \ {req[r].group}]
      /\ UNCHANGED <<alive, groups, gid, direct, contents, released, admitted>>
  BY DEF RemoveMembership, people, GrantsNothing
<1>2. TablesOK'
  BY <1>1, RequestFields, Zenon DEF IInv, TablesOK
<1>3. Keeps
  BY <1>1, RequestFields, Zenon DEF Keeps, IInv, Rows, TablesOK
<1>4. QED
  BY <1>1, <1>2, <1>3, AnswerKeeps

(* AddDirect gives keys that are released.                                 *)
LEMMA AddDirectKeeps ==
    ASSUME IInv, NEW r \in Requests, AddDirect(r)
    PROVE  IInv'
<1>1. At(r, "addDirect", "write") /\ Answers(r)
      /\ direct' = [direct EXCEPT ![req[r].user] = @ \cup req[r].keys]
      /\ Grants(req[r], req[r].keys, {})
      /\ UNCHANGED <<alive, groups, gid, members, contents>>
  BY DEF AddDirect, people
<1>2. req[r].user \in Users /\ req[r].keys \subseteq Keys /\ Pending(req[r], contents, released)
  BY RequestFields
<1>3. released \subseteq released' /\ admitted \subseteq admitted'
  BY <1>1, GrantsGrow
<1>4. req[r].keys \subseteq released'
  <2>1. CASE req[r].admin
    BY <2>1, <1>1, GrantsGrow, Zenon
  <2>2. CASE ~req[r].admin
    BY <2>2, <1>1, <1>2, <1>3, Zenon DEF Pending, Safe, At
  <2>3. QED
    BY <2>1, <2>2
<1>5. TablesOK'
  BY <1>1, <1>2, Zenon DEF IInv, TablesOK
<1>6. Keeps
  BY <1>1, <1>2, <1>3, <1>4 DEF Keeps, IInv, Rows, TablesOK
<1>7. QED
  BY <1>1, <1>5, <1>6, AnswerKeeps, Zenon

(* RemoveDirect takes keys away.                                           *)
LEMMA RemoveDirectKeeps ==
    ASSUME IInv, NEW r \in Requests, RemoveDirect(r)
    PROVE  IInv'
<1>1. Answers(r) /\ direct' = [direct EXCEPT ![req[r].user] = @ \ req[r].keys]
      /\ UNCHANGED <<alive, groups, gid, members, contents, released, admitted>>
  BY DEF RemoveDirect, people, GrantsNothing
<1>2. TablesOK'
  BY <1>1, RequestFields, Zenon DEF IInv, TablesOK
<1>3. Keeps
  BY <1>1, RequestFields DEF Keeps, IInv, Rows, TablesOK
<1>4. QED
  BY <1>1, <1>2, <1>3, AnswerKeeps, Zenon

(* Writing the contents of a group with released keys keeps the rows.      *)
LEMMA ContentsKeep ==
    ASSUME IInv, NEW q \in Request, NEW ks \in SUBSET Keys, SetContents(q, ks),
           ks \subseteq contents[q.group] \cup released',
           released \subseteq released', admitted \subseteq admitted',
           UNCHANGED <<alive, groups, gid, members, direct>>
    PROVE  TablesOK' /\ Keeps
<1>1. q.group \in Groups
  BY DEF Request
<1>2. TablesOK'
  BY <1>1 DEF IInv, TablesOK, SetContents
<1>3. \A g \in Groups : contents'[g] = contents[g] \/ (g = q.group /\ g \in groups /\ contents'[g] = ks)
  BY <1>1 DEF SetContents, SameGroup, IInv, TablesOK
<1>4. Keeps
  BY <1>3 DEF Keeps, IInv, Rows
<1>5. QED
  BY <1>2, <1>4

(* AddKey adds released keys to a group.                                   *)
LEMMA AddKeyKeeps ==
    ASSUME IInv, NEW r \in Requests, AddKey(r)
    PROVE  IInv'
<1>1. At(r, "addKey", "write") /\ Answers(r)
      /\ SetContents(req[r], contents[req[r].group] \cup req[r].keys)
      /\ Grants(req[r], req[r].keys, {})
      /\ UNCHANGED <<alive, groups, gid, members, direct>>
  BY DEF AddKey, people
<1>2. req[r] \in Request /\ req[r].group \in Groups /\ req[r].keys \subseteq Keys
      /\ Pending(req[r], contents, released)
  BY RequestFields
<1>3. released \subseteq released' /\ admitted \subseteq admitted'
  BY <1>1, GrantsGrow
<1>4. req[r].keys \subseteq released'
  <2>1. CASE req[r].admin
    BY <2>1, <1>1, GrantsGrow, Zenon
  <2>2. CASE ~req[r].admin
    BY <2>2, <1>1, <1>2, <1>3 DEF Pending, Safe, At
  <2>3. QED
    BY <2>1, <2>2
<1>5. contents[req[r].group] \cup req[r].keys \in SUBSET Keys
  BY <1>2, Zenon DEF IInv, TablesOK
<1>6. TablesOK' /\ Keeps
  BY <1>1, <1>2, <1>3, <1>4, <1>5, ContentsKeep
<1>7. QED
  BY <1>1, <1>6, AnswerKeeps

(* RemoveKey takes keys from a group.                                      *)
LEMMA RemoveKeyKeeps ==
    ASSUME IInv, NEW r \in Requests, RemoveKey(r)
    PROVE  IInv'
<1>1. Answers(r) /\ SetContents(req[r], contents[req[r].group] \ req[r].keys)
      /\ UNCHANGED <<alive, groups, gid, members, direct, released, admitted>>
  BY DEF RemoveKey, people, GrantsNothing
<1>2. req[r] \in Request /\ req[r].group \in Groups
  BY RequestFields
<1>3. contents[req[r].group] \ req[r].keys \in SUBSET Keys
  BY <1>2 DEF IInv, TablesOK
<1>4. TablesOK' /\ Keeps
  BY <1>1, <1>2, <1>3, ContentsKeep
<1>5. QED
  BY <1>1, <1>4, AnswerKeeps

(* DeleteGroup deletes a group that is not protected, with its contents.   *)
LEMMA DeleteGroupKeeps ==
    ASSUME IInv, NEW r \in Requests, DeleteGroup(r)
    PROVE  IInv'
<1>1. At(r, "deleteGroup", "write") /\ Answers(r) /\ SetContents(req[r], {})
      /\ groups' = (IF SameGroup(req[r]) THEN groups \ {req[r].group} ELSE groups)
      /\ UNCHANGED <<alive, gid, members, direct, released, admitted>>
  BY DEF DeleteGroup, people, GrantsNothing
<1>2. req[r].group \in Groups \ AdminGroups
  BY <1>1, RequestFields DEF Pending, At
<1>3. TablesOK'
  BY <1>1, <1>2 DEF IInv, TablesOK, SetContents
<1>4. Keeps
  <2>1. CASE SameGroup(req[r])
    BY <2>1, <1>1, <1>2 DEF Keeps, IInv, Rows, TablesOK, SetContents
  <2>2. CASE ~SameGroup(req[r])
    BY <2>2, <1>1 DEF Keeps, IInv, Rows, TablesOK, SetContents
  <2>3. QED
    BY <2>1, <2>2
<1>5. QED
  BY <1>1, <1>3, <1>4, AnswerKeeps

(* CreateGroup makes an empty group.                                       *)
LEMMA CreateGroupKeeps ==
    ASSUME IInv, NEW r \in Requests, CreateGroup(r)
    PROVE  IInv'
<1>1. At(r, "createGroup", "write")
      /\ UNCHANGED <<alive, members, direct, contents, released, admitted>>
  BY Zenon DEF CreateGroup, people, GrantsNothing
<1>2. req[r] \in Request /\ req[r].group \in Groups /\ Pending(req[r], contents, released)
  BY RequestFields
<1>3. CASE req[r].group \in groups
  <2>1. Answers(r) /\ UNCHANGED <<groups, gid>>
    BY <1>3 DEF CreateGroup
  <2>2. TablesOK' /\ Keeps
    BY <2>1, <1>1 DEF IInv, TablesOK, Rows, Keeps
  <2>3. QED
    BY <2>1, <2>2, AnswerKeeps
<1>4. CASE req[r].group \notin groups
  <2> DEFINE nq == [req[r] EXCEPT !.at = "members", !.gid = gid[req[r].group] + 1]
  <2>1. groups' = groups \cup {req[r].group} /\ gid' = [gid EXCEPT ![req[r].group] = @ + 1]
        /\ req' = [req EXCEPT ![r] = nq]
    BY <1>4 DEF CreateGroup
  <2>2. TablesOK'
    BY <2>1, <1>1, <1>2 DEF IInv, TablesOK
  <2>3. Keeps
    BY <2>1, <1>1 DEF IInv, TablesOK, Rows, Keeps
  <2>4. nq \in Request /\ nq.at = "members" /\ nq.op = "createGroup" /\ nq.keys = req[r].keys
        /\ nq.admin = req[r].admin /\ nq.group = req[r].group
    <3>1. gid[req[r].group] + 1 \in Nat
      BY <1>2 DEF IInv, TablesOK
    <3>2. QED
      BY <3>1, <1>1, <1>2 DEF Request, Stages, At
  <2>5. Open(req[r].group, contents, released)
    BY <1>2, <1>4 DEF Open, IInv, Rows
  <2>6. Pending(nq, contents', released')
    BY <2>4, <2>5, <1>1, <1>2 DEF Pending, Safe, At
  <2>7. Becomes(r, nq)
    BY <2>1, <2>4, <2>6 DEF Becomes
  <2>8. QED
    BY <2>2, <2>3, <2>7, StepKeepsIInv
<1>5. QED
  BY <1>3, <1>4

(* The part of a PATCH that comes next is one that the body has.           *)
LEMMA NextPart ==
    ASSUME NEW q \in Request, NEW c, NEW R, q.at # "guard", Pending(q, c, R),
           q.op \in {"createGroup", "patchGroup", "patchUser"},
           NEW at \in {AfterPerms(q), AfterMembers(q), AfterStatus(q)}, at # "end"
    PROVE  at \in Stages /\ Pending([q EXCEPT !.at = at], c, R)
<1>1. at \in {"groups", "perms", "conns"}
      /\ (at = "perms" => "perms" \in q.fields) /\ (at = "conns" => "conns" \in q.fields)
  BY DEF AfterPerms, AfterMembers, AfterStatus
<1>2. at \in Stages
  BY <1>1 DEF Stages
<1> DEFINE n == [q EXCEPT !.at = at]
<1>3. /\ n.at = at /\ n.op = q.op /\ n.keys = q.keys /\ n.group = q.group /\ n.groups = q.groups
      /\ n.admin = q.admin
      /\ \A x \in {"perms", "conns"} : x \in n.fields <=> x \in q.fields
  BY <1>2, StageRequest, Zenon
<1> HIDE DEF n
<1>4. Safe(q, c, R) => Safe(n, c, R)
  BY <1>1, <1>3, Zenon DEF Safe
<1>5. Pending(n, c, R)
  BY <1>3, <1>4 DEF Pending
<1>6. QED
  BY <1>2, <1>5 DEF n

(* The request goes on to the next part of a PATCH, or answers.            *)
LEMMA GoesKeeps ==
    ASSUME IInv, NEW r \in Requests, NEW at \in {AfterPerms(req[r]), AfterMembers(req[r]), AfterStatus(req[r])},
           req[r].at # "guard", req[r].op \in {"createGroup", "patchGroup", "patchUser"},
           Goes(r, at), TablesOK', Keeps
    PROVE  IInv'
<1>1. CASE at = "end"
  <2>1. Answers(r)
    BY <1>1 DEF Goes, Answers
  <2>2. QED
    BY <2>1, AnswerKeeps
<1>2. CASE at # "end"
  <2> DEFINE n == [req[r] EXCEPT !.at = at]
  <2>1. req[r] \in Request /\ Pending(req[r], contents, released)
    BY RequestFields
  <2>2. at \in Stages /\ Pending(n, contents, released)
    BY <1>2, <2>1, NextPart
  <2>3. n \in Request
    BY <2>1, <2>2, StageRequest
  <2>4. req' = [req EXCEPT ![r] = n]
    BY <1>2 DEF Goes
  <2>5. Pending(n, contents', released')
    BY <2>2, <2>3, PendingStays DEF Keeps
  <2>6. Becomes(r, n)
    BY <2>3, <2>4, <2>5 DEF Becomes
  <2>7. QED
    BY <2>6, StepKeepsIInv
<1>3. QED
  BY <1>1, <1>2

(* PatchGroupList only notes who joins and who leaves.                     *)
LEMMA PatchGroupListKeeps ==
    ASSUME IInv, NEW r \in Requests, PatchGroupList(r)
    PROVE  IInv'
<1> DEFINE current == ListUsersByAuthGroup(req[r].group)
           n == [req[r] EXCEPT !.at = "members", !.users = @ \ current, !.drop = current \ req[r].users]
<1>1. At(r, "patchGroup", "list") /\ req' = [req EXCEPT ![r] = n] /\ UNCHANGED <<access, released, admitted>>
  BY DEF PatchGroupList
<1>2. TablesOK' /\ Keeps /\ UNCHANGED <<contents, released>>
  BY <1>1, Quiet DEF access
<1>3. req[r] \in Request /\ req[r].users \subseteq Users /\ Pending(req[r], contents, released)
  BY RequestFields
<1>4. current \subseteq Users
  BY DEF ListUsersByAuthGroup, IInv, TablesOK
<1>5. n \in Request /\ n.at = "members" /\ n.op = req[r].op /\ n.keys = req[r].keys /\ n.group = req[r].group
      /\ n.admin = req[r].admin /\ n.fields = req[r].fields
  BY <1>3, <1>4, Zenon DEF Request, Stages
<1> HIDE DEF n
<1>6. Pending(n, contents, released)
  BY <1>1, <1>3, <1>5, Zenon DEF Pending, Safe, At
<1>7. Becomes(r, n)
  BY <1>1, <1>2, <1>5, <1>6 DEF Becomes
<1>8. QED
  BY <1>2, <1>7, StepKeepsIInv

(* JoinGroup gives a group whose contents are released.                    *)
LEMMA JoinGroupKeeps ==
    ASSUME IInv, NEW r \in Requests, JoinGroup(r)
    PROVE  IInv'
<1>1. req[r].op \in {"createGroup", "patchGroup"} /\ req[r].at = "members"
      /\ UNCHANGED <<alive, groups, gid, direct, contents>>
  BY DEF JoinGroup, people
<1>2. PICK u \in req[r].users :
          /\ members' = [members EXCEPT ![u] = @ \cup {req[r].group}]
          /\ Grants(req[r], contents[req[r].group], Admits(req[r].group, {u}))
          /\ req' = [req EXCEPT ![r].users = @ \ {u}]
  BY DEF JoinGroup
<1>3. req[r] \in Request /\ req[r].group \in Groups /\ u \in Users /\ Pending(req[r], contents, released)
  BY <1>2, RequestFields
<1>4. released \subseteq released' /\ admitted \subseteq admitted'
  BY <1>2, GrantsGrow
<1>5. contents[req[r].group] \subseteq released' /\ (req[r].group \in AdminGroups => u \in admitted')
  <2>1. CASE req[r].admin
    BY <2>1, <1>2, GrantsGrow DEF Admits
  <2>2. CASE ~req[r].admin
    BY <2>2, <1>1, <1>3, <1>4 DEF Pending, Safe, Open
  <2>3. QED
    BY <2>1, <2>2
<1>6. TablesOK'
  BY <1>1, <1>2, <1>3 DEF IInv, TablesOK
<1>7. Keeps
  BY <1>1, <1>2, <1>3, <1>4, <1>5 DEF Keeps, IInv, Rows, TablesOK
<1> DEFINE n == [req[r] EXCEPT !.users = @ \ {u}]
<1>8. n \in Request /\ n.at = req[r].at /\ n.op = req[r].op /\ n.keys = req[r].keys /\ n.group = req[r].group
      /\ n.admin = req[r].admin /\ n.fields = req[r].fields /\ n.groups = req[r].groups
  BY <1>3 DEF Request
<1>9. req' = [req EXCEPT ![r] = n]
  BY <1>2, Zenon
<1> HIDE DEF n
<1>10. Pending(n, contents, released)
  BY <1>3, <1>8, Zenon DEF Pending, Safe
<1>11. Pending(n, contents', released')
  BY <1>7, <1>8, <1>10, PendingStays DEF Keeps
<1>12. Becomes(r, n)
  BY <1>8, <1>9, <1>11 DEF Becomes
<1>13. QED
  BY <1>6, <1>7, <1>12, StepKeepsIInv

(* LeaveGroup takes a group from a user, or goes on.                       *)
LEMMA LeaveGroupKeeps ==
    ASSUME IInv, NEW r \in Requests, LeaveGroup(r)
    PROVE  IInv'
<1>1. req[r].op \in {"createGroup", "patchGroup"} /\ req[r].at = "members"
      /\ UNCHANGED <<alive, groups, gid, direct, contents, released, admitted>>
  BY DEF LeaveGroup, people, GrantsNothing
<1>2. CASE req[r].drop = {}
  <2>1. Goes(r, AfterMembers(req[r])) /\ UNCHANGED members
    BY <1>2, Zenon DEF LeaveGroup
  <2>2. TablesOK' /\ Keeps
    BY <2>1, <1>1, Zenon DEF IInv, TablesOK, Rows, Keeps
  <2>3. QED
    BY <2>1, <2>2, <1>1, GoesKeeps
<1>3. CASE req[r].drop # {}
  <2>1. PICK u \in req[r].drop : /\ members' = [members EXCEPT ![u] = @ \ {req[r].group}]
                                 /\ req' = [req EXCEPT ![r].drop = @ \ {u}]
    BY <1>3 DEF LeaveGroup
  <2>2. req[r] \in Request /\ u \in Users /\ Pending(req[r], contents, released)
    BY <2>1, RequestFields
  <2>3. TablesOK'
    BY <1>1, <2>1, <2>2 DEF IInv, TablesOK
  <2>4. Keeps
    BY <1>1, <2>1, <2>2 DEF Keeps, IInv, Rows, TablesOK
  <2> DEFINE n == [req[r] EXCEPT !.drop = @ \ {u}]
  <2>5. n \in Request /\ n.at = req[r].at /\ n.op = req[r].op /\ n.keys = req[r].keys /\ n.group = req[r].group
        /\ n.admin = req[r].admin /\ n.fields = req[r].fields /\ n.groups = req[r].groups
    BY <2>2, Zenon DEF Request
  <2>6. req' = [req EXCEPT ![r] = n]
    BY <2>1
  <2> HIDE DEF n
  <2>7. Pending(n, contents, released)
    BY <2>2, <2>5, Zenon DEF Pending, Safe
  <2>8. Becomes(r, n)
    BY <1>1, <2>5, <2>6, <2>7, Zenon DEF Becomes
  <2>9. QED
    BY <2>3, <2>4, <2>8, StepKeepsIInv
<1>4. QED
  BY <1>2, <1>3

(* ReplacePermissionKeys writes keys that are released.               *)
LEMMA ReplacePermissionKeysKeeps ==
    ASSUME IInv, NEW r \in Requests, ReplacePermissionKeys(r)
    PROVE  IInv'
<1> DEFINE ks == req[r].keys \cap Permissions
           new == (contents[req[r].group] \ Permissions) \cup ks
<1>1. req[r].op \in {"createGroup", "patchGroup"} /\ req[r].at = "perms"
      /\ SetContents(req[r], new) /\ Grants(req[r], ks, {})
      /\ UNCHANGED <<alive, groups, gid, members, direct>>
  BY Zenon DEF ReplacePermissionKeys, people
<1>2. req[r] \in Request /\ req[r].group \in Groups /\ req[r].keys \subseteq Keys
      /\ Pending(req[r], contents, released)
  BY RequestFields
<1>3. released \subseteq released' /\ admitted \subseteq admitted'
  BY <1>1, GrantsGrow
<1>4. ks \subseteq released'
  <2>1. CASE req[r].admin
    BY <2>1, <1>1, GrantsGrow, Zenon
  <2>2. CASE ~req[r].admin
    BY <2>2, <1>1, <1>2, <1>3, Zenon DEF Pending, Safe
  <2>3. QED
    BY <2>1, <2>2, Zenon
<1>5. new \in SUBSET Keys /\ new \subseteq contents[req[r].group] \cup released'
  BY <1>2, <1>4, Zenon DEF IInv, TablesOK
<1> HIDE DEF new
<1>6. TablesOK' /\ Keeps
  BY <1>1, <1>2, <1>3, <1>5, ContentsKeep, Zenon
<1>7. Goes(r, AfterPerms(req[r]))
  BY DEF ReplacePermissionKeys
<1>8. QED
  BY <1>1, <1>6, <1>7, GoesKeeps, Zenon

(* ReplaceDBConnectionIDs writes keys that are released.               *)
LEMMA ReplaceDBConnectionIDsKeeps ==
    ASSUME IInv, NEW r \in Requests, ReplaceDBConnectionIDs(r)
    PROVE  IInv'
<1> DEFINE ks == req[r].keys \cap Connections
           new == (contents[req[r].group] \ Connections) \cup ks
<1>1. req[r].op \in {"createGroup", "patchGroup"} /\ req[r].at = "conns"
      /\ SetContents(req[r], new) /\ Grants(req[r], ks, {})
      /\ UNCHANGED <<alive, groups, gid, members, direct>>
  BY DEF ReplaceDBConnectionIDs, people
<1>2. req[r] \in Request /\ req[r].group \in Groups /\ req[r].keys \subseteq Keys
      /\ Pending(req[r], contents, released)
  BY RequestFields
<1>3. released \subseteq released' /\ admitted \subseteq admitted'
  BY <1>1, GrantsGrow, Zenon
<1>4. ks \subseteq released'
  <2>1. CASE req[r].admin
    BY <2>1, <1>1, GrantsGrow, Zenon
  <2>2. CASE ~req[r].admin
    BY <2>2, <1>1, <1>2, <1>3, Zenon DEF Pending, Safe
  <2>3. QED
    BY <2>1, <2>2
<1>5. new \in SUBSET Keys /\ new \subseteq contents[req[r].group] \cup released'
  BY <1>2, <1>4 DEF IInv, TablesOK
<1> HIDE DEF new
<1>6. TablesOK' /\ Keeps
  BY <1>1, <1>2, <1>3, <1>5, ContentsKeep, Zenon
<1>7. Answers(r)
  BY DEF ReplaceDBConnectionIDs
<1>8. QED
  BY <1>6, <1>7, AnswerKeeps, Zenon

(* UpdateActive gives nothing.                                             *)
LEMMA UpdateActiveKeeps ==
    ASSUME IInv, NEW r \in Requests, UpdateActive(r)
    PROVE  IInv'
<1>1. req[r].op = "patchUser" /\ req[r].at = "status" /\ Goes(r, AfterStatus(req[r]))
      /\ UNCHANGED <<alive, groups, gid, members, direct, contents, released, admitted>>
  BY Zenon DEF UpdateActive, At, GrantsNothing
<1>2. TablesOK' /\ Keeps
  BY <1>1 DEF IInv, TablesOK, Rows, Keeps
<1>3. QED
  BY <1>1, <1>2, GoesKeeps

(* The write of a checked part is safe if its guard makes it so.           *)
LEMMA CheckPartKeeps ==
    ASSUME IInv, NEW r \in Requests, NEW part \in {"groups", "perms", "conns"},
           NEW write \in {"groupsWrite", "permsWrite", "connsWrite"}, NEW allowed \in BOOLEAN,
           CheckPart(r, part, write, allowed),
           allowed /\ ~HasAllPermissions(req[r].actor) =>
               /\ write = "groupsWrite" => \A g \in req[r].groups : Open(g, contents, released)
               /\ write = "permsWrite" => req[r].keys \cap Permissions \subseteq released
               /\ write = "connsWrite" => req[r].keys \cap Connections \subseteq released
    PROVE  IInv'
<1> DEFINE admin == HasAllPermissions(req[r].actor)
           n == [req[r] EXCEPT !.at = write, !.admin = admin]
<1>1. req[r].op = "patchUser" /\ UNCHANGED <<access, released, admitted>>
  BY DEF CheckPart, At
<1>2. TablesOK' /\ Keeps /\ UNCHANGED <<contents, released>>
  BY <1>1, Quiet, Zenon DEF access
<1>3. CASE allowed
  <2>1. req' = [req EXCEPT ![r] = n]
    BY <1>3, Zenon DEF CheckPart
  <2>2. req[r] \in Request
    BY RequestFields, Zenon
  <2>3. admin \in BOOLEAN
    BY Zenon DEF HasAllPermissions
  <2> HIDE DEF admin
  <2>4. n \in Request /\ n.at = write /\ n.op = req[r].op /\ n.keys = req[r].keys /\ n.groups = req[r].groups
        /\ n.admin = admin
    BY <2>2, <2>3 DEF Request, Stages
  <2> HIDE DEF n
  <2>5. Pending(n, contents, released)
    <3>1. ASSUME ~n.admin PROVE Safe(n, contents, released)
      BY <3>1, <2>4, <1>1, <1>3, Zenon DEF Safe, admin
    <3>2. QED
      BY <3>1, <2>4, <1>1 DEF Pending
  <2>6. Becomes(r, n)
    BY <1>2, <2>1, <2>4, <2>5 DEF Becomes
  <2>7. QED
    BY <1>2, <2>6, StepKeepsIInv
<1>4. CASE ~allowed
  <2>1. Answers(r)
    BY <1>4, Zenon DEF CheckPart
  <2>2. QED
    BY <2>1, <1>2, AnswerKeeps
<1>5. QED
  BY <1>3, <1>4

(* ReplaceDirectPermissionKeys gives keys that are released.               *)
LEMMA ReplaceDirectPermissionKeysKeeps ==
    ASSUME IInv, NEW r \in Requests, ReplaceDirectPermissionKeys(r)
    PROVE  IInv'
<1> DEFINE ks == req[r].keys \cap Permissions
<1>1. req[r].op = "patchUser" /\ req[r].at = "permsWrite"
      /\ direct' = [direct EXCEPT ![req[r].user] = (@ \ Permissions) \cup ks] /\ Grants(req[r], ks, {})
      /\ UNCHANGED <<alive, groups, gid, members, contents>>
  BY Zenon DEF ReplaceDirectPermissionKeys, people, At
<1>2. req[r].user \in Users /\ req[r].keys \subseteq Keys /\ Pending(req[r], contents, released)
  BY RequestFields
<1>3. released \subseteq released' /\ admitted \subseteq admitted'
  BY <1>1, GrantsGrow, Zenon
<1>4. ks \subseteq released'
  <2>1. CASE req[r].admin
    BY <2>1, <1>1, GrantsGrow, Zenon
  <2>2. CASE ~req[r].admin
    BY <2>2, <1>1, <1>2, <1>3, Zenon DEF Pending, Safe
  <2>3. QED
    BY <2>1, <2>2
<1>5. TablesOK'
  BY <1>1, <1>2, Zenon DEF IInv, TablesOK
<1>6. Keeps
  BY <1>1, <1>2, <1>3, <1>4, Zenon DEF Keeps, IInv, Rows, TablesOK
<1>7. Goes(r, AfterPerms(req[r]))
  BY DEF ReplaceDirectPermissionKeys
<1>8. QED
  BY <1>1, <1>5, <1>6, <1>7, GoesKeeps, Zenon

(* ReplaceDirectDBConnectionIDs gives keys that are released.               *)
LEMMA ReplaceDirectDBConnectionIDsKeeps ==
    ASSUME IInv, NEW r \in Requests, ReplaceDirectDBConnectionIDs(r)
    PROVE  IInv'
<1> DEFINE ks == req[r].keys \cap Connections
<1>1. req[r].op = "patchUser" /\ req[r].at = "connsWrite"
      /\ direct' = [direct EXCEPT ![req[r].user] = (@ \ Connections) \cup ks] /\ Grants(req[r], ks, {})
      /\ UNCHANGED <<alive, groups, gid, members, contents>>
  BY Zenon DEF ReplaceDirectDBConnectionIDs, people, At
<1>2. req[r].user \in Users /\ req[r].keys \subseteq Keys /\ Pending(req[r], contents, released)
  BY RequestFields
<1>3. released \subseteq released' /\ admitted \subseteq admitted'
  BY <1>1, GrantsGrow
<1>4. ks \subseteq released'
  <2>1. CASE req[r].admin
    BY <2>1, <1>1, GrantsGrow, Zenon
  <2>2. CASE ~req[r].admin
    BY <2>2, <1>1, <1>2, <1>3, Zenon DEF Pending, Safe
  <2>3. QED
    BY <2>1, <2>2
<1>5. TablesOK'
  BY <1>1, <1>2, Zenon DEF IInv, TablesOK
<1>6. Keeps
  BY <1>1, <1>2, <1>3, <1>4, Zenon DEF Keeps, IInv, Rows, TablesOK
<1>7. Answers(r)
  BY DEF ReplaceDirectDBConnectionIDs
<1>8. QED
  BY <1>5, <1>6, <1>7, AnswerKeeps, Zenon

(* The checks of the parts of a PATCH of a user.                           *)
LEMMA ChecksKeep ==
    ASSUME IInv, NEW r \in Requests,
           CheckMemberships(r) \/ CheckDirectPermissions(r) \/ CheckDirectDBConnections(r)
    PROVE  IInv'
<1>1. req[r].actor \in Users /\ req[r].keys \in SUBSET Keys /\ \A g \in req[r].groups : g \in Groups
  BY RequestFields, Zenon
<1>2. CASE CheckMemberships(r)
  <2>1. ASSUME ReplaceMembershipsGuard(req[r]), ~HasAllPermissions(req[r].actor)
        PROVE  \A g \in req[r].groups : Open(g, contents, released)
    BY <2>1, <1>1, GrantIsReleased DEF ReplaceMembershipsGuard
  <2>2. ReplaceMembershipsGuard(req[r]) \in BOOLEAN
    BY DEF ReplaceMembershipsGuard
  <2>3. CheckPart(r, "groups", "groupsWrite", ReplaceMembershipsGuard(req[r]))
    BY <1>2, Zenon DEF CheckMemberships
  <2>4. QED
    BY <2>1, <2>2, <2>3, CheckPartKeeps, Zenon
<1>3. CASE CheckDirectPermissions(r)
  <2>1. ASSUME ReplaceDirectPermissionsGuard(req[r]), ~HasAllPermissions(req[r].actor)
        PROVE  req[r].keys \cap Permissions \subseteq released
    BY <2>1, <1>1, GrantIsReleased DEF ReplaceDirectPermissionsGuard
  <2>2. ReplaceDirectPermissionsGuard(req[r]) \in BOOLEAN
    BY DEF ReplaceDirectPermissionsGuard, RequirePermissionGrantAllowed, HasAllPermissions
  <2>3. CheckPart(r, "perms", "permsWrite", ReplaceDirectPermissionsGuard(req[r]))
    BY <1>3, Zenon DEF CheckDirectPermissions
  <2>4. QED
    BY <2>1, <2>2, <2>3, CheckPartKeeps, Zenon
<1>4. CASE CheckDirectDBConnections(r)
  <2>1. ASSUME ReplaceDirectDBConnectionsGuard(req[r]), ~HasAllPermissions(req[r].actor)
        PROVE  req[r].keys \cap Connections \subseteq released
    BY <2>1, <1>1, GrantIsReleased DEF ReplaceDirectDBConnectionsGuard
  <2>2. ReplaceDirectDBConnectionsGuard(req[r]) \in BOOLEAN
    BY DEF ReplaceDirectDBConnectionsGuard, RequireDBConnectionGrantAllowed, HasAllPermissions
  <2>3. CheckPart(r, "conns", "connsWrite", ReplaceDirectDBConnectionsGuard(req[r]))
    BY <1>4, Zenon DEF CheckDirectDBConnections
  <2>4. QED
    BY <2>1, <2>2, <2>3, CheckPartKeeps, Zenon
<1>5. QED
  BY <1>2, <1>3, <1>4, Zenon

(* ReplaceMemberships gives groups whose contents are released.            *)
LEMMA ReplaceMembershipsKeeps ==
    ASSUME IInv, NEW r \in Requests, ReplaceMemberships(r)
    PROVE  IInv'
<1> DEFINE ks == UNION {contents[g] : g \in req[r].groups}
           us == UNION {Admits(g, {req[r].user}) : g \in req[r].groups}
<1>1. req[r].op = "patchUser" /\ req[r].at = "groupsWrite"
      /\ members' = [members EXCEPT ![req[r].user] = req[r].groups]
      /\ Grants(req[r], ks, us) /\ Goes(r, AfterMembers(req[r]))
      /\ UNCHANGED <<alive, groups, gid, direct, contents>>
  BY Zenon DEF ReplaceMemberships, people, At
<1>2. req[r].user \in Users /\ req[r].groups \subseteq Groups /\ Pending(req[r], contents, released)
  BY RequestFields, Zenon
<1>3. released \subseteq released' /\ admitted \subseteq admitted'
  BY <1>1, GrantsGrow
<1>4. ASSUME NEW g \in req[r].groups
      PROVE  contents[g] \subseteq released' /\ (g \in AdminGroups => req[r].user \in admitted')
  <2>1. CASE req[r].admin
    <3>1. ks \subseteq released' /\ us \subseteq admitted'
      BY <2>1, <1>1, GrantsGrow, Zenon
    <3>2. contents[g] \subseteq ks /\ (g \in AdminGroups => req[r].user \in us)
      BY Zenon DEF Admits
    <3>3. QED
      BY <3>1, <3>2, Zenon
  <2>2. CASE ~req[r].admin
    BY <2>2, <1>1, <1>2, <1>3 DEF Pending, Safe, Open
  <2>3. QED
    BY <2>1, <2>2
<1>5. TablesOK'
  BY <1>1, <1>2, Zenon DEF IInv, TablesOK
<1>6. Keeps
  BY <1>1, <1>2, <1>3, <1>4, Zenon DEF Keeps, IInv, Rows, TablesOK
<1>7. QED
  BY <1>1, <1>5, <1>6, GoesKeeps, Zenon

(* DeleteUser takes everything from a user.                                *)
LEMMA DeleteUserKeeps ==
    ASSUME IInv, NEW r \in Requests, DeleteUser(r)
    PROVE  IInv'
<1>1. Answers(r) /\ alive' = alive \ {req[r].user} /\ members' = [members EXCEPT ![req[r].user] = {}]
      /\ UNCHANGED <<groups, gid, direct, contents, released, admitted>>
  BY Zenon DEF DeleteUser, GrantsNothing
<1>2. TablesOK'
  BY <1>1, RequestFields, Zenon DEF IInv, TablesOK
<1>3. Keeps
  BY <1>1, RequestFields DEF Keeps, IInv, Rows, TablesOK
<1>4. QED
  BY <1>1, <1>2, <1>3, AnswerKeeps

(* Steps that no request takes keep the requests as they are.              *)
LEMMA NoRequestKeeps ==
    ASSUME IInv, UNCHANGED req, TablesOK', Keeps
    PROVE  IInv'
<1>1. CASE Requests = {}
  <2>1. AllPending'
    BY <1>1 DEF IInv, AllPending
  <2>2. Rows'
    <3>1. \A u \in Users : \A g \in members'[u] : g \in Groups /\ contents[g] \subseteq released'
      BY DEF Keeps, IInv, Rows, TablesOK
    <3>2. \A u \in Users : \A g \in members'[u] : g \in AdminGroups => u \in admitted'
      BY DEF Keeps, IInv, Rows, TablesOK
    <3>3. QED
      BY <3>1, <3>2, KeysAssumption, Zenon DEF Keeps, IInv, Rows
  <2>3. QED
    BY <2>1, <2>2 DEF IInv
<1>2. ASSUME NEW r \in Requests PROVE IInv'
  <2>1. req[r] \in Request /\ Pending(req[r], contents, released) /\ req' = [req EXCEPT ![r] = req[r]]
    BY DEF IInv, AllPending
  <2>2. Pending(req[r], contents', released')
    BY <2>1, PendingStays DEF Keeps
  <2>3. Becomes(r, req[r])
    BY <2>1, <2>2 DEF Becomes
  <2>4. QED
    BY <2>3, StepKeepsIInv
<1>3. QED
  BY <1>1, <1>2

(* A membership that expires is taken away.                                *)
LEMMA ExpireKeeps ==
    ASSUME IInv, NEW u \in Users, NEW g \in Groups, Expire(u, g)
    PROVE  IInv'
<1>1. members' = [members EXCEPT ![u] = @ \ {g}]
      /\ UNCHANGED <<alive, groups, gid, direct, contents, req, released, admitted>>
  BY DEF Expire, people
<1>2. TablesOK'
  BY <1>1 DEF IInv, TablesOK
<1>3. Keeps
  BY <1>1, Zenon DEF Keeps, IInv, Rows, TablesOK
<1>4. QED
  BY <1>1, <1>2, <1>3, NoRequestKeeps

(* A new account is a member of the developer group only.                  *)
LEMMA CreateDeveloperKeeps ==
    ASSUME IInv, NEW u \in Users, CreateDeveloper(u)
    PROVE  IInv'
<1>1. members' = [members EXCEPT ![u] = @ \cup {Developer}] /\ alive' = alive \cup {u}
      /\ UNCHANGED <<groups, gid, direct, contents, req, released, admitted>>
  BY DEF CreateDeveloper
<1>2. Developer \in Groups /\ Developer \notin AdminGroups
  BY KeysAssumption
<1>3. TablesOK'
  BY <1>1, <1>2 DEF IInv, TablesOK
<1>4. Keeps
  BY <1>1, <1>2 DEF Keeps, IInv, Rows, TablesOK
<1>5. QED
  BY <1>1, <1>3, <1>4, NoRequestKeeps

(* A request that fails leaves the rows as they are.                       *)
LEMMA FailsKeeps ==
    ASSUME IInv, NEW r \in Requests, Fails(r)
    PROVE  IInv'
  BY Quiet, AnswerKeeps DEF Fails

(* A request as it arrives.                                                *)
LEMMA AsksRequest ==
    ASSUME NEW a \in Users, NEW op \in Ops
    PROVE  Asks(a, op) \in Request /\ Asks(a, op).at = "guard"
<1>1. Idle \in Request /\ Idle.at = "guard"
  BY IdleRequest DEF Idle
<1>2. QED
  BY <1>1 DEF Asks, Request

(* A request that arrives has passed no guard.                             *)
LEMMA ArriveKeeps ==
    ASSUME IInv, NEW r \in Requests, NEW q \in Request, q.at = "guard", Arrive(r, q)
    PROVE  IInv'
<1>1. TablesOK' /\ Keeps
  BY Quiet DEF Arrive
<1>2. Becomes(r, q)
  BY DEF Arrive, Becomes, Pending
<1>3. QED
  BY <1>1, <1>2, StepKeepsIInv

LEMMA ArrivalKeeps ==
    ASSUME IInv, NEW r \in Requests, Arrival(r)
    PROVE  IInv'
<1>1. PICK a \in Users :
    \/ \E u \in Users, g \in Groups, op \in {"addMembership", "removeMembership"} :
           Arrive(r, [Asks(a, op) EXCEPT !.user = u, !.group = g])
    \/ \E u \in Users, k \in Keys, op \in {"addDirect", "removeDirect"} :
           Arrive(r, [Asks(a, op) EXCEPT !.user = u, !.keys = {k}])
    \/ \E g \in Groups, k \in Keys, op \in {"addKey", "removeKey"} :
           Arrive(r, [Asks(a, op) EXCEPT !.group = g, !.keys = {k}])
    \/ \E g \in Groups, us \in UserSets, ks \in KeySets :
           Arrive(r, [Asks(a, "createGroup") EXCEPT !.group = g, !.users = us, !.keys = ks,
                                                    !.fields = {"perms", "conns"}])
    \/ \E g \in Groups, f \in GroupFields :
           \E us \in Given(f, "users", UserSets), ks \in Given(f, "perms", KeySets) \cup Given(f, "conns", KeySets) :
               Arrive(r, [Asks(a, "patchGroup") EXCEPT !.group = g, !.users = us, !.keys = ks, !.fields = f])
    \/ \E g \in Groups : Arrive(r, [Asks(a, "deleteGroup") EXCEPT !.group = g])
    \/ \E u \in Users, f \in UserFields :
           \E gs \in Given(f, "groups", GroupSets), ks \in Given(f, "perms", KeySets) \cup Given(f, "conns", KeySets) :
               Arrive(r, [Asks(a, "patchUser") EXCEPT !.user = u, !.groups = gs, !.keys = ks, !.fields = f])
    \/ \E u \in Users : Arrive(r, [Asks(a, "deleteUser") EXCEPT !.user = u])
  BY Zenon DEF Arrival
<1>2. /\ \A ks \in KeySets : ks \in SUBSET Keys
      /\ \A us \in UserSets : us \in SUBSET Users
      /\ \A gs \in GroupSets : gs \in SUBSET Groups
      /\ \A f \in GroupFields \cup UserFields : f \in SUBSET Parts
  BY KeysAssumption
<1>3. \A f : /\ \A us \in Given(f, "users", UserSets) : us \in SUBSET Users
             /\ \A gs \in Given(f, "groups", GroupSets) : gs \in SUBSET Groups
             /\ \A ks \in Given(f, "perms", KeySets) \cup Given(f, "conns", KeySets) : ks \in SUBSET Keys
  BY <1>2 DEF Given
<1>4. ASSUME NEW u \in Users, NEW g \in Groups, NEW op \in {"addMembership", "removeMembership"},
             Arrive(r, [Asks(a, op) EXCEPT !.user = u, !.group = g])
      PROVE  IInv'
  <2>1. Asks(a, op) \in Request /\ Asks(a, op).at = "guard"
    BY AsksRequest DEF Ops
  <2>2. [Asks(a, op) EXCEPT !.user = u, !.group = g] \in Request
        /\ [Asks(a, op) EXCEPT !.user = u, !.group = g].at = "guard"
    BY <2>1 DEF Request
  <2>3. QED
    BY <1>4, <2>2, ArriveKeeps, Zenon
<1>5. ASSUME NEW u \in Users, NEW k \in Keys, NEW op \in {"addDirect", "removeDirect"},
             Arrive(r, [Asks(a, op) EXCEPT !.user = u, !.keys = {k}])
      PROVE  IInv'
  <2>1. Asks(a, op) \in Request /\ Asks(a, op).at = "guard"
    BY AsksRequest DEF Ops
  <2>2. [Asks(a, op) EXCEPT !.user = u, !.keys = {k}] \in Request
        /\ [Asks(a, op) EXCEPT !.user = u, !.keys = {k}].at = "guard"
    BY <2>1, Zenon DEF Request
  <2>3. QED
    BY <1>5, <2>2, ArriveKeeps
<1>6. ASSUME NEW g \in Groups, NEW k \in Keys, NEW op \in {"addKey", "removeKey"},
             Arrive(r, [Asks(a, op) EXCEPT !.group = g, !.keys = {k}])
      PROVE  IInv'
  <2>1. Asks(a, op) \in Request /\ Asks(a, op).at = "guard"
    BY AsksRequest DEF Ops
  <2>2. [Asks(a, op) EXCEPT !.group = g, !.keys = {k}] \in Request
        /\ [Asks(a, op) EXCEPT !.group = g, !.keys = {k}].at = "guard"
    BY <2>1, Zenon DEF Request
  <2>3. QED
    BY <1>6, <2>2, ArriveKeeps
<1>7. ASSUME NEW g \in Groups, NEW us \in SUBSET Users, NEW ks \in SUBSET Keys, NEW f \in SUBSET Parts,
             NEW op \in {"createGroup", "patchGroup"},
             Arrive(r, [Asks(a, op) EXCEPT !.group = g, !.users = us, !.keys = ks, !.fields = f])
      PROVE  IInv'
  <2>1. Asks(a, op) \in Request /\ Asks(a, op).at = "guard"
    BY AsksRequest DEF Ops
  <2>2. [Asks(a, op) EXCEPT !.group = g, !.users = us, !.keys = ks, !.fields = f] \in Request
        /\ [Asks(a, op) EXCEPT !.group = g, !.users = us, !.keys = ks, !.fields = f].at = "guard"
    BY <2>1, Zenon DEF Request
  <2>3. QED
    BY <1>7, <2>2, ArriveKeeps, Zenon
<1>8. ASSUME NEW g \in Groups, Arrive(r, [Asks(a, "deleteGroup") EXCEPT !.group = g])
      PROVE  IInv'
  <2>1. Asks(a, "deleteGroup") \in Request /\ Asks(a, "deleteGroup").at = "guard"
    BY AsksRequest DEF Ops
  <2>2. [Asks(a, "deleteGroup") EXCEPT !.group = g] \in Request
        /\ [Asks(a, "deleteGroup") EXCEPT !.group = g].at = "guard"
    BY <2>1 DEF Request
  <2>3. QED
    BY <1>8, <2>2, ArriveKeeps, Zenon
<1>9. ASSUME NEW u \in Users, NEW gs \in SUBSET Groups, NEW ks \in SUBSET Keys, NEW f \in SUBSET Parts,
              Arrive(r, [Asks(a, "patchUser") EXCEPT !.user = u, !.groups = gs, !.keys = ks, !.fields = f])
       PROVE  IInv'
  <2>1. Asks(a, "patchUser") \in Request /\ Asks(a, "patchUser").at = "guard"
    BY AsksRequest DEF Ops
  <2>2. [Asks(a, "patchUser") EXCEPT !.user = u, !.groups = gs, !.keys = ks, !.fields = f] \in Request
        /\ [Asks(a, "patchUser") EXCEPT !.user = u, !.groups = gs, !.keys = ks, !.fields = f].at = "guard"
    BY <2>1, Zenon DEF Request
  <2>3. QED
    BY <1>9, <2>2, ArriveKeeps, Zenon
<1>10. ASSUME NEW u \in Users, Arrive(r, [Asks(a, "deleteUser") EXCEPT !.user = u])
       PROVE  IInv'
  <2>1. Asks(a, "deleteUser") \in Request /\ Asks(a, "deleteUser").at = "guard"
    BY AsksRequest DEF Ops
  <2>2. [Asks(a, "deleteUser") EXCEPT !.user = u] \in Request
        /\ [Asks(a, "deleteUser") EXCEPT !.user = u].at = "guard"
    BY <2>1 DEF Request
  <2>3. QED
    BY <1>10, <2>2, ArriveKeeps
<1>11. {"perms", "conns"} \in SUBSET Parts
  BY DEF Parts
<1>12. ASSUME NEW g \in Groups, NEW us \in UserSets, NEW ks \in KeySets,
              Arrive(r, [Asks(a, "createGroup") EXCEPT !.group = g, !.users = us, !.keys = ks,
                                                       !.fields = {"perms", "conns"}])
       PROVE  IInv'
  BY <1>2, <1>7, <1>11, <1>12, Zenon
<1>13. ASSUME NEW g \in Groups, NEW f \in GroupFields, NEW us \in Given(f, "users", UserSets),
              NEW ks \in Given(f, "perms", KeySets) \cup Given(f, "conns", KeySets),
              Arrive(r, [Asks(a, "patchGroup") EXCEPT !.group = g, !.users = us, !.keys = ks, !.fields = f])
       PROVE  IInv'
  <2>1. us \in SUBSET Users /\ ks \in SUBSET Keys /\ f \in SUBSET Parts
    BY <1>2, <1>3
  <2>2. QED
    BY <1>7, <1>13, <2>1, Zenon
<1>14. ASSUME NEW u \in Users, NEW f \in UserFields, NEW gs \in Given(f, "groups", GroupSets),
              NEW ks \in Given(f, "perms", KeySets) \cup Given(f, "conns", KeySets),
              Arrive(r, [Asks(a, "patchUser") EXCEPT !.user = u, !.groups = gs, !.keys = ks, !.fields = f])
       PROVE  IInv'
  <2>1. gs \in SUBSET Groups /\ ks \in SUBSET Keys /\ f \in SUBSET Parts
    BY <1>2, <1>3, Zenon
  <2>2. QED
    BY <1>9, <1>14, <2>1, Zenon
<1>15. QED
  BY <1>1, <1>4, <1>5, <1>6, <1>8, <1>10, <1>12, <1>13, <1>14, Zenon

(* The first part of a PATCH is one that the body has.                     *)
LEMMA FirstPart ==
    ASSUME NEW q \in Request
    PROVE  /\ First(q) \in Stages \cup {"end"} /\ First(q) # "guard"
           /\ First(q) \notin {"groupsWrite", "permsWrite", "connsWrite", "members"}
           /\ First(q) = "perms" => "perms" \in q.fields
           /\ First(q) = "conns" => "conns" \in q.fields
           /\ First(q) = "list" => "users" \in q.fields
  BY Zenon DEF First, AfterPerms, AfterMembers, AfterStatus, Stages

(* The guard of each handler leaves a delegated administrator only what is *)
(* released to give.                                                       *)
LEMMA GuardIsSafe ==
    ASSUME IInv, NEW q \in Request, Guard(q), ~HasAllPermissions(q.actor),
           NEW n, n.at = First(q), n.op = q.op, n.keys = q.keys, n.group = q.group, n.groups = q.groups,
           n.fields = q.fields
    PROVE  Safe(n, contents, released)
<1>1. q.actor \in Users /\ q.keys \in SUBSET Keys /\ q.group \in Groups
  BY Zenon DEF Request
<1>2. /\ RequirePermissionGrantAllowed(q.actor, q.keys) => q.keys \cap Permissions \subseteq released
      /\ RequireDBConnectionGrantAllowed(q.actor, q.keys) => q.keys \cap Connections \subseteq released
      /\ GrantAllowed(q.actor, q.keys) => q.keys \subseteq released
      /\ RequireAuthGroupContentsGrantAllowed(q.actor, q.group) => Open(q.group, contents, released)
  BY <1>1, GrantIsReleased
<1>3. q.op = "addMembership" => Open(q.group, contents, released)
  BY <1>2, Zenon DEF Guard, AddMembershipGuard
<1>4. q.op \in {"addDirect", "addKey", "createGroup"} => q.keys \subseteq released
  BY <1>2, Zenon DEF Guard, AddDirectPermissionGuard, AddDirectDBConnectionGuard, AddPermissionGuard,
              AddDBConnectionGuard, CreateGroupGuard, GrantAllowed
<1>5. q.op = "patchGroup" => PatchGroupGuard(q)
  BY Zenon DEF Guard
<1>6. q.op = "patchGroup" => /\ "perms" \in q.fields => q.keys \cap Permissions \subseteq released
                             /\ "conns" \in q.fields => q.keys \cap Connections \subseteq released
                             /\ "users" \in q.fields => Open(q.group, contents, released)
  BY <1>2, <1>5, Zenon DEF PatchGroupGuard, PatchGroupUsersGuard
<1>7. QED
  BY <1>3, <1>4, <1>6, FirstPart, Zenon DEF Safe

(* The guard of a request, then its first write.                           *)
LEMMA CheckKeeps ==
    ASSUME IInv, NEW r \in Requests, Check(r)
    PROVE  IInv'
<1>1. UNCHANGED <<access, released, admitted>>
  BY DEF Check
<1>2. TablesOK' /\ Keeps /\ UNCHANGED <<contents, released>>
  BY <1>1, Quiet DEF access
<1>3. CASE ~Guard(req[r]) \/ First(req[r]) = "end"
  <2>1. Answers(r)
    BY <1>3 DEF Check, Answers
  <2>2. QED
    BY <2>1, <1>2, AnswerKeeps
<1>4. CASE Guard(req[r]) /\ First(req[r]) # "end"
  <2> DEFINE admin == HasAllPermissions(req[r].actor)
             n == [req[r] EXCEPT !.at = First(req[r]), !.gid = gid[req[r].group], !.admin = admin]
  <2>1. req' = [req EXCEPT ![r] = n]
    BY <1>4 DEF Check
  <2>2. req[r] \in Request /\ req[r].group \in Groups
    BY RequestFields
  <2>3. admin \in BOOLEAN
    BY Zenon DEF HasAllPermissions
  <2>4. First(req[r]) \in Stages /\ gid[req[r].group] \in Nat
    BY <1>4, <2>2, FirstPart DEF IInv, TablesOK
  <2> HIDE DEF admin
  <2>5. n \in Request /\ n.at = First(req[r]) /\ n.op = req[r].op /\ n.keys = req[r].keys
        /\ n.group = req[r].group /\ n.groups = req[r].groups /\ n.fields = req[r].fields /\ n.admin = admin
    BY <2>2, <2>3, <2>4, Zenon DEF Request
  <2> HIDE DEF n
  <2>6. ASSUME ~n.admin PROVE Safe(n, contents, released)
    <3>1. ~HasAllPermissions(req[r].actor)
      BY <2>5, <2>6, Zenon DEF admin
    <3>2. QED
      BY <3>1, <2>2, <2>5, <1>4, GuardIsSafe, Zenon
  <2>7. n.op = "deleteGroup" => n.group \notin AdminGroups
    BY <1>4, <2>5 DEF Guard, DeleteGroupGuard
  <2>8. Becomes(r, n)
    BY <1>2, <2>1, <2>5, <2>6, <2>7 DEF Becomes, Pending
  <2>9. QED
    BY <1>2, <2>8, StepKeepsIInv
<1>5. QED
  BY <1>3, <1>4

-----------------------------------------------------------------------------
(* IInv holds at the start. *)
LEMMA InitIInv == Init => IInv
<1> SUFFICES ASSUME Init PROVE IInv
  OBVIOUS
<1>1. TablesOK
  BY DEF Init, TablesOK
<1>2. Rows
  <2>0. released = contents[Developer] \cup UNION {Held(u) : u \in Users}
    BY DEF Init
  <2>1. \A u \in Users : Held(u) \subseteq released
    BY <2>0
  <2>2. \A u \in Users : \A g \in members[u] : g \in groups /\ g \in Groups
    BY DEF Init
  <2>3. \A u \in Users : direct[u] \subseteq released /\ \A g \in members[u] : contents[g] \subseteq released
    BY <2>1, <2>2, Zenon DEF Held
  <2>4. \A u \in Users : \A g \in members[u] : g \in AdminGroups => u \in admitted
    BY DEF Init
  <2>5. contents[Developer] \subseteq released /\ AdminGroups \subseteq groups
    BY <2>0 DEF Init
  <2>6. \A g \in Groups : g \notin groups => contents[g] = {}
    BY DEF Init
  <2>7. QED
    BY <2>3, <2>4, <2>5, <2>6 DEF Rows
<1>3. AllPending
  BY IdleRequest DEF AllPending, Init
<1>4. QED
  BY <1>1, <1>2, <1>3 DEF IInv

(* Every step keeps IInv. *)
LEMMA NextIInv == IInv /\ [Next]_vars => IInv'
<1> SUFFICES ASSUME IInv, [Next]_vars PROVE IInv'
  BY Zenon
<1>1. ASSUME NEW r \in Requests, Step(r) PROVE IInv'
  BY <1>1, ArrivalKeeps, CheckKeeps, FailsKeeps, AddMembershipKeeps, RemoveMembershipKeeps, AddDirectKeeps,
     RemoveDirectKeeps, AddKeyKeeps, RemoveKeyKeeps, CreateGroupKeeps, DeleteGroupKeeps, PatchGroupListKeeps,
     JoinGroupKeeps, LeaveGroupKeeps, ReplacePermissionKeysKeeps, ReplaceDBConnectionIDsKeeps,
     UpdateActiveKeeps, ChecksKeep, ReplaceMembershipsKeeps, ReplaceDirectPermissionKeysKeeps,
     ReplaceDirectDBConnectionIDsKeeps, DeleteUserKeeps, Zenon
     DEF Step
<1>2. ASSUME UNCHANGED vars PROVE IInv'
  BY <1>2 DEF vars, IInv, TablesOK, Rows, AllPending
<1>3. QED
  BY <1>1, <1>2, ExpireKeeps, CreateDeveloperKeeps DEF Next

(* The inductive invariant: see the head of the module. *)
THEOREM Inductive == Spec => []IInv
  BY InitIInv, NextIInv, PTL DEF Spec

(* Delegated administrators bring no key into circulation that nobody held *)
(* and no administrator with all permissions gave, for any number of       *)
(* requests that interleave (the guards of security_guards.go).            *)
THEOREM NoEscalationHolds == Spec => []NoEscalation
<1>1. IInv => NoEscalation
  BY DEF IInv, Rows, TablesOK, NoEscalation, Held
<1>2. QED
  BY <1>1, Inductive, PTL

(* A member of a protected group was one at the start or was admitted by   *)
(* an administrator with all permissions (requireAuthGroupGrantAllowed).   *)
THEOREM OnlyAdminsMakeAdminsHolds == Spec => []OnlyAdminsMakeAdmins
<1>1. IInv => OnlyAdminsMakeAdmins
  BY DEF IInv, Rows, TablesOK, OnlyAdminsMakeAdmins
<1>2. QED
  BY <1>1, Inductive, PTL
=============================================================================
