SPECIFICATION FairSpec
CONSTANTS
    k1 = k1
    k2 = k2
    v1 = v1
    v2 = v2
    Key = {k1}
    Val = {v1, v2}
    NoVal = NoVal
    MaxPendingWrites = 1
    V1Docs = {}
    MaxWrites = 2
    MaxGen = 2
    MaxLog = 2
    MaxRestarts = 0
    Scene = {"close", "sync", "error"}
PROPERTIES
    EventuallyDurable
    CallsReturn
