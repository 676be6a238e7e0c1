CONSTANTS
    VMs = {v1}
    Nodes = {n1}
    Credentials = {c1, c2}
    Syncs = {s1, s2}
    Admins = {a1, a2}
    MaxFaults = 1
SPECIFICATION Spec
INVARIANTS
    OneSync
    SnapshotHolds
PROPERTIES
    DecisionsStand
    SyncedIsKnown
