SPECIFICATION Spec
CONSTANTS
    N = 2
    Contents <- MCContents
    IndexDefs <- MCIndexDefs
    Filters = {}
    SortField = "f"
    MaxWrites = 5
    MaxFlushes = 2
    MaxOpens = 1
    Scene = {"update", "delete", "index"}
PROPERTY ObsoleteRecordsIgnored
CHECK_DEADLOCK FALSE
