\* One conversation to begin with and one to be created, or two; two questions.
CONSTANTS
    Conversations = {c1, c2}
    MaxSends = 2
    MaxIncidents = 1
    Compact = TRUE
SPECIFICATION FairSpec
INVARIANTS
    RunShownIsOfThisQuestion
    ReplyIsOfThisQuestion
    SpinsForAReason
PROPERTIES
    AnswersShow
CHECK_DEADLOCK FALSE
