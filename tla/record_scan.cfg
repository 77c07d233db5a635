SPECIFICATION Spec
CONSTANTS
    k1 = k1
    k2 = k2
    v1 = v1
    v2 = v2
    Key = {k1, k2}
    Val = {v1}
    NoVal = NoVal
    MaxRecords = 8
    MaxBatches = 3
SYMMETRY Sym
CHECK_DEADLOCK FALSE
INVARIANTS
    ScanMatchesReplay
PROPERTY ShortWritesAreParts
