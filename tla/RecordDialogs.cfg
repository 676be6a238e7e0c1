\* Every page, with two records that are there or are to be created.
CONSTANTS
    Records = {1, 2}
    MaxTexts = 2
    MaxIncidents = 2
SPECIFICATION Spec
INVARIANTS
    TypedGoesHome
    ExtraGoesHome
    ListShowsOwnWrites
CHECK_DEADLOCK FALSE
