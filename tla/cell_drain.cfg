SPECIFICATION Spec
CONSTANTS
    Messages <- MCMessages
    MaxMessages = 4
    MaxItems = 3
    MaxItemBytes = 10
    MaxTotalBytes = 23
    MaxFieldBytes = 3
    MaxFailures = 2
    StreamHead = 2
    BundleHead = 3
    ErrorHead = 3
    PlaceholderHead = 4
    FrameCost = 1
    ReasonLength = 2
INVARIANTS
    TypeOK
    WithinBudget
    NothingLostSilently
    OrderKept
    TraceLeft
    OkIsEarned
    FailureTold
