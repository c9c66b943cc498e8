SPECIFICATION FairSpec
CONSTANTS
    Collections = {c1}
    Requests = {r1, r2}
    Passes = {p1, p2}
    NoPass = NoPass
    MaxEdits = 2
    MaxVersion = 2
    MaxRowId = 1
    MaxTasks = 5
    Faults = {"schedule", "pass", "task"}
    MaxFaults = 1
INVARIANTS
    SummaryMatchesConfig
    OneTaskPerVersion
    GeneratingHasTask
PROPERTIES
    BecomesCompleteUpToDate
    GenerationsEnd
CHECK_DEADLOCK FALSE
