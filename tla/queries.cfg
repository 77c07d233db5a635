SPECIFICATION Spec
CONSTANTS
    N = 3
    Contents <- MCQueried
    IndexDefs <- MCIndexDefs
    Filters <- MCFilters
    SortField = "f"
    MaxWrites = 4
    MaxFlushes = 1
    MaxOpens = 0
    Scene = {"index"}
INVARIANT FindIsScan
INVARIANT CountIsFind
INVARIANT PagesTile
CHECK_DEADLOCK FALSE
