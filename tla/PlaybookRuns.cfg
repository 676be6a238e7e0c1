CONSTANTS
    Runs = {r1}
    Viewers = {v1}
    Checkers = {}
    Clients = {r1, v1}
    Jobs = {j1, j2}
    MaxOut = 1
    MaxFaults = 2
    None = None
SPECIFICATION Spec
INVARIANTS
    TypeOK
    SuccessIsReal
    NotifiedIsReal
    AtMostOneLaunch
PROPERTY GoneIsFinal
SYMMETRY SameJobs
CHECK_DEADLOCK FALSE
