\* One drawer and two runs, the second of which can take the place of the first.
CONSTANTS
    Runs = {1, 2}
    MaxOut = 1
    MaxIncidents = 1
SPECIFICATION FairSpec
INVARIANT
    EndIsOfThisRun
PROPERTY
    LiveGoesOut
CHECK_DEADLOCK FALSE
