CONSTANTS
    q1 = q1
    q2 = q2
    Requests <- TwoRequests
    T = 2
    MaxJobs = 2
    MaxTokens = 2
    MaxPreviews = 1
    MaxChanges = 1
    MaxForeign = 1
    MaxCancels = 1
    MaxErrors = 1
    MaxCrashes = 1
SPECIFICATION Spec
CHECK_DEADLOCK FALSE
INVARIANTS
    MadeAsPreviewed
    CompletedMeansCreated
PROPERTIES
    DependencyOrder
SYMMETRY RequestSymmetry
