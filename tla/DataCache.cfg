SPECIFICATION Spec
CONSTANTS
    C1 = C1
    C2 = C2
    C3 = C3
    A = A
    B = B
    Client = {C1, C2, C3}
    Address = {A, B}
    FromOf <- MCFromOf
    MaxTime = 1
    MaxVersion = 1
INVARIANTS
    OneSnapshot
    NothingStale
    OnlyFailuresLeak
SYMMETRY MCSymmetry
CHECK_DEADLOCK FALSE
