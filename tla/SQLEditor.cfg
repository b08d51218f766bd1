SPECIFICATION MCSpec
CONSTANTS
    Users = {"u1", "u2"}
    Requests = {1, 2}
    ExecIds = {"e"}
    Queries <- MCQueries
    AccessSets <- MCAccessSets
    Patterns <- MCPatterns
    RuleModes = {"full", "partial"}
    RuleConfigs = {"none", "odd"}
    NoRequest = 0
    Database = "shop"
    MaxTickets = 2
    PendingTTL = 1
    TokenTTL = 2
    GrantTTL = 1
    ExportTTL = 2
    Limit = 2
    Window = 1
    Callers = {1, 2}
    Admins = {1, 2}
    Connections = {"n"}
    Roles = {"readonly"}
    Credentials = {"v1", "v2"}
    Deleted = "deleted"
    MaxCalls = 2
    MaxChanges = 2
INVARIANTS
    
    ReviewerSeesSensitive
    RememberedCancelStops
    DownloadRate
    CachedIsCurrent
    PoolsAreOwned

    
CHECK_DEADLOCK FALSE
