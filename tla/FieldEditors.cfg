\* Every editor, on two records that it can move between.
CONSTANTS
    Records = {1, 2}
    MaxSaves = 2
    MaxTexts = 2
    MaxIncidents = 3
SPECIFICATION Spec
INVARIANTS
    SavesGoHome
    NotBehindOwnSave
    NothingErasedUnseen
PROPERTIES
    TypingSurvives
CHECK_DEADLOCK FALSE
