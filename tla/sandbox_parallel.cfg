SPECIFICATION Spec
CONSTANTS
    None = None
    c1 = c1
    c2 = c2
    c3 = c3
    f1 = f1
    r1 = r1
    r2 = r2
    s1 = s1
    s2 = s2
    CellCalls = {c1, c2, c3}
    FileCalls = {f1}
    Runs = {r1}
    RunOf <- OneRun
    Slots = {s1, s2}
    FilesPerCall = 2
    Cancellable = {}
    RemovalMayFail = TRUE
    Drained = {r1}
INVARIANTS
    TypeOK
    OneKernel
    OneCellPerLiveKernel
    NoContainerLeftRunning
PROPERTIES
    Refines
