CONSTANTS
    root = root
    lead = lead
    dev = dev
    admins = admins
    developers = developers
    ops = ops
    usersWrite = usersWrite
    approve = approve
    prod = prod
    r1 = r1
    r2 = r2
    Users <- MCUsers
    Groups <- MCGroups
    Permissions = {usersWrite, approve}
    Connections = {prod}
    Protected = {root}
    AdminGroups = {admins}
    Developer = developers
    UsersWrite = usersWrite
    GroupFields = {{"users", "perms"}, {"perms", "conns"}}
    UserFields = {{"status", "groups"}, {"perms", "conns"}}
    UserSets = {{dev}, {lead}}
    KeySets = {{usersWrite}, {approve, prod}}
    GroupSets = {{developers}, {ops}}
    Requests <- TwoRequests
    MaxRequests = 2
SYMMETRY Symmetric
SPECIFICATION MCSpec
CHECK_DEADLOCK FALSE
INVARIANTS
    NoEscalation
    OnlyAdminsMakeAdmins
