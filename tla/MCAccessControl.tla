---------------------------- MODULE MCAccessControl ----------------------------
(* Small instance of AccessControl for TLC. *)
EXTENDS AccessControl

CONSTANTS root, lead, dev, admins, developers, ops, usersWrite, approve, prod

T == INSTANCE TLC
MCUsers == {root, lead, dev}
MCGroups == {admins, developers, ops}

\* root is protected; lead may write users; ops holds what no user holds and has no
\* members; dev has an account or gets one by a login through a provider.
MCInit ==
    /\ groups = MCGroups
    /\ fresh \in {{}, {dev}}
    /\ members = [u \in MCUsers |-> IF u = dev /\ dev \notin fresh THEN {developers} ELSE {}]
    /\ direct = [u \in MCUsers |-> IF u = lead THEN {usersWrite} ELSE {}]
    /\ contents = [g \in MCGroups |-> IF g = ops THEN {approve, prod} ELSE {}]
    /\ Init

MCSpec == MCInit /\ [][Next]_vars
CONSTANTS r1, r2
TwoRequests == {r1, r2}
Symmetric == T!Permutations({r1, r2})
=============================================================================
