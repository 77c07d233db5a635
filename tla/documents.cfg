SPECIFICATION Spec
CONSTANTS
    N = 2
    Contents <- MCContents
    IndexDefs <- MCIndexDefs
    Filters = {}
    SortField = "f"
    MaxWrites = 4
    MaxFlushes = 3
    MaxOpens = 1
    Scene = {"update", "delete", "index", "drop", "repair"}
INVARIANT IndexesHoldTheDocuments
INVARIANT UniqueMeansOneOwner
PROPERTY OpenGivesWhatWasSaved
CHECK_DEADLOCK FALSE
