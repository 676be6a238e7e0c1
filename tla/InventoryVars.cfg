SPECIFICATION VarsSpec
CONSTANTS
    HostStatuses = {1, 2}
    HostTypes = {1}
    Roles = {1, 2}
    Apps = {1}
    Schemas <- DeclaredSchemas
    Values = {v1}
    Toggles = {k1, k2}
    Explicit = {0}
    MaxWrites = 4
INVARIANTS
    ShownIsExported
    AddedInOrder
PROPERTIES
    SavedIsInForce
    RefusedForAReason
SYMMETRY SameToggles
CHECK_DEADLOCK FALSE
