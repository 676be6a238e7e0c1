CONSTANTS
    Runs = {r1}
    Viewers = {}
    Checkers = {k1}
    Clients = {r1, k1}
    Jobs = {j1}
    MaxOut = 1
    MaxFaults = 1
    None = None
SPECIFICATION FairSpec
INVARIANTS
    RecoveryOnlyWhenGone
    UnwatchedOutputIsPrefix
PROPERTY RunsSettle
CHECK_DEADLOCK FALSE
