SPECIFICATION Spec
CONSTANTS
    Conns = {c1, c2}
    IdOrder <- MCIdOrder
    NewIds <- MCNewIds
    Starts <- MCStarts
    MaxBatchBytes = 5
    DefaultBatch = 2
INVARIANT ClosedIsQuiet
INVARIANT OnlyTheProvedAct
INVARIANT BatchesTile
INVARIANT RepliesAreTrue
INVARIANT TakenOnce
PROPERTY OrderIsNoMatter
INVARIANT StagesAgree
PROPERTY OthersFieldsStay
CHECK_DEADLOCK FALSE
