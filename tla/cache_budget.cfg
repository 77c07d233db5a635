SPECIFICATION Spec
CONSTANTS
    N = 3
    Val = {a}
    Reader = {r1, r2}
    Budget = 1
    MaxWrites = 0
    MaxFlushes = 0
    MaxBytes = 3
    Scene = {"read"}
PROPERTY ReadsKeepTheBudget
SYMMETRY Symmetry
CHECK_DEADLOCK FALSE
