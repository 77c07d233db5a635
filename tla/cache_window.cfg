SPECIFICATION Spec
CONSTANTS
    N = 2
    Val = {a}
    Reader = {r1}
    Budget = 1
    MaxWrites = 1
    MaxFlushes = 1
    MaxBytes = 3
    Scene = {"read", "insert", "compact"}
INVARIANT GetReturnsTheDocument
SYMMETRY Symmetry
CHECK_DEADLOCK FALSE
