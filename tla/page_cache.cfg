SPECIFICATION Spec
CONSTANTS
    N = 2
    Val = {a, b}
    Reader = {r1, r2}
    Budget = 1
    MaxWrites = 2
    MaxFlushes = 1
    MaxBytes = 3
    Scene = {"read", "insert", "update", "delete", "compact", "fail"}
PROPERTY RoomIsMade
INVARIANT ResidentsAreCounted
INVARIANT AnswersAreRight
INVARIANT NothingIsLost
SYMMETRY Symmetry
CHECK_DEADLOCK FALSE
