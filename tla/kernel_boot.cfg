SPECIFICATION Spec
CONSTANTS
    c1 = c1
    c2 = c2
    c3 = c3
    Cells = {c1, c2, c3}
INVARIANTS
    TypeOK
    KernelNotShared
    DeadKernelGivenUp
PROPERTIES
    EverythingSettles
CHECK_DEADLOCK FALSE
