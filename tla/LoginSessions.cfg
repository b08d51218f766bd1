CONSTANTS
    r1 = r1
    r2 = r2
    Requests <- TwoRequests
    FirstAccounts <- Accounts
    FirstTrust = {TRUE}
    Enforced = TRUE
    MaxAttempts = 1
    MaxRequests = 4
    MaxSessions = 2
    MaxChallenges = 1
    MaxLogins = 1
    MaxChanges = 1
SYMMETRY Symmetric
SPECIFICATION Spec
CHECK_DEADLOCK FALSE
INVARIANTS
    OneSessionPerProof
    CodesAreBounded
    DisabledOpensNothing
