CONSTANTS
    Workers = {w1, w2}
    Restorers = {r1}
    Deleters = {d1}
    Retention = 1
    MaxFiles = 2
    MaxId = 1
    MaxFaults = 1
SPECIFICATION FairSpec
INVARIANTS
    OneAtATime
    CompletedIsWhole
    HistoryIsBounded
    FailedIsCleanedUp
PROPERTY OperationsEnd
CHECK_DEADLOCK FALSE
