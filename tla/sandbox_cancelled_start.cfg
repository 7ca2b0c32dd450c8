SPECIFICATION Spec
CONSTANTS
    None = None
    c1 = c1
    c2 = c2
    c3 = c3
    f1 = f1
    r1 = r1
    r2 = r2
    s1 = s1
    s2 = s2
    CellCalls = {c1, c2}
    FileCalls = {}
    Runs = {r1}
    RunOf <- OneRun
    Slots = {s1}
    FilesPerCall = 1
    Cancellable = {c1}
    RemovalMayFail = FALSE
    Drained = {r1}
INVARIANTS
    NoContainerLeftRunning
