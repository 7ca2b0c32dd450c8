SPECIFICATION SystemSpec
CONSTANTS
    a1 = a1
    a2 = a2
    b1 = b1
    a = a
    b = b
    t1 = t1
    x = x
    None = None
    Deliveries = {a1, a2, b1}
    Events = {a, b}
    EventOf <- MCEventOf
    Threads = {t1}
    ThreadOf <- MCThreadOf
    Calls = {x}
    RunOf <- MCRunOf
    MaxChunks = 1
    MaxCrashes = 1
    StoreMayFail = TRUE
    HooksMayFail = TRUE
    SlackMayFail = TRUE
INVARIANTS
    TypeOK
    OneRunPerEvent
    AnswerIsAudited
    SnapshotFollowsAnswer
    KernelHasRun
PROPERTIES
    PlaceholderReplaced
    Refines
