SPECIFICATION FairSpec
CONSTANTS
    Coll = {"a", "b"}
    Value = {1, 2, 3, 4}
    Caller = {c1, c2}
    Calls <- SomeCalls
    Starts <- SomeStarts
    Triggers <- SomeTriggers
    Disabled <- OneDisabled
    MaxHookDepth = 3
    HookQueueSize = 1
    MaxWorkers = 2
INVARIANT WaitMeansDone
INVARIANT TriggersAreHooked
PROPERTY UpdateTakesEffect
PROPERTY JobsRun
PROPERTY CloseEnds
PROPERTY WaitReturns
CHECK_DEADLOCK FALSE
