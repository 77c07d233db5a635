SPECIFICATION Spec
CONSTANTS
    k1 = k1
    k2 = k2
    v1 = v1
    Key = {k1, k2}
    Val = {v1}
    NoVal = NoVal
    MaxPendingWrites = 0
    V1Docs = {}
    MaxWrites = 2
    MaxGen = 2
    MaxLog = 2
    MaxRestarts = 1
    Scene = {"short", "power", "sync"}
SYMMETRY Sym
PROPERTY KeepsItsPromise
