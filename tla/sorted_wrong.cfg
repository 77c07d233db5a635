SPECIFICATION Spec
CONSTANTS
    N = 3
    Contents <- MCContents
    IndexDefs <- MCIndexDefs
    Filters <- MCFilters
    SortField = "f"
    MaxWrites = 3
    MaxFlushes = 0
    MaxOpens = 0
    Scene = {}
INVARIANT SortedIsInOrder
CHECK_DEADLOCK FALSE
