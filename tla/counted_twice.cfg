SPECIFICATION Spec
CONSTANTS
    N = 1
    Contents <- TwiceContents
    IndexDefs <- TwiceIndexDefs
    Filters <- TwiceFilters
    SortField = "f"
    MaxWrites = 2
    MaxFlushes = 0
    MaxOpens = 0
    Scene = {"index"}
INVARIANT CountsMatching
CHECK_DEADLOCK FALSE
