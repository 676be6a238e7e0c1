CONSTANTS
    Runs = {r1}
    Viewers = {}
    Checkers = {}
    Clients = {r1}
    Jobs = {j1}
    MaxOut = 0
    MaxFaults = 0
    None = None
SPECIFICATION Spec
PROPERTY CancelledNeverStarts
CHECK_DEADLOCK FALSE
