CONSTANTS
    Jobs = {j1}
    Clients = {c1}
    MaxOut = 2
    MaxCrashes = 1
    None = None
SPECIFICATION FairSpec
INVARIANTS
    TypeOK
    NoRunawayProcess
PROPERTIES
    ImplementsContract
    FilesRemoved
    CancelStops
