CONSTANTS
    Users <- People
    MemberOf <- Groups3
    Perms <- Rights
    p1 = p1
    p2 = p2
    Procs <- TwoProcs
    PageLists <- SomePages
    Conns = {"c1", "c2"}
    Docs <- AllDocs
    FirstRules <- AllLists
    NewRules <- SavedLists
    Bypasses <- SomeBypasses
    Productions = {TRUE, FALSE}
    MaxRequests = 3
    MaxChanges = 1
    MaxFaults = 1
SYMMETRY Symmetric
SPECIFICATION MCSpec
CHECK_DEADLOCK FALSE
INVARIANTS
    FourEyes
    ProductionIsReviewed
    GrantsFromReview
    NoStrandedApproval
    PreviewShowsWhatSavingDoes
PROPERTIES
    FollowsLifeCycle
