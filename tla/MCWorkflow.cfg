SPECIFICATION FairSpec
CONSTANTS
    NStages = 2
    MaxWidth = 2
    Definitions <- MCDefinitions
    Caller = {c1, c2}
    MaxFailures = 1
    MaxCrashes = 1
    MaxPauses = 1
INVARIANTS TypeOK StagesDone ProgressExact
PROPERTY RunsEnd
\* A finished or failed run is left alone.
CHECK_DEADLOCK FALSE
