SPECIFICATION Spec
CONSTANTS
    k1 = k1
    k2 = k2
    v1 = v1
    v2 = v2
    Key = {k1}
    Val = {v1, v2}
    NoVal = NoVal
    MaxPendingWrites = 0
    V1Docs = {}
    MaxWrites = 2
    MaxGen = 3
    MaxLog = 2
    MaxRestarts = 1
    Scene = {"close", "sync"}
INVARIANT AcknowledgedSurvives
