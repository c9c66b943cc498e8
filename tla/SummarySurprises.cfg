SPECIFICATION FairSpec
CONSTANTS
    Collections = {c1}
    Requests = {r1}
    Passes = {p1}
    NoPass = NoPass
    MaxEdits = 2
    MaxVersion = 2
    MaxRowId = 1
    MaxTasks = 2
    Faults = {}
    MaxFaults = 0
INVARIANTS
    EveryUpdateTriggers
\* in runs of their own: PROPERTIES EditsAreKept, PROPERTIES SummarySettles
CHECK_DEADLOCK FALSE
