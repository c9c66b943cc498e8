SPECIFICATION Spec
CONSTANTS
    Collections = {c1, c2}
    Requests = {r1}
    Passes = {p1}
    NoPass = NoPass
    MaxEdits = 2
    MaxVersion = 1
    MaxRowId = 1
    MaxTasks = 2
    Faults = {"schedule"}
    MaxFaults = 1
INVARIANTS
    GeneratingHasTask
CHECK_DEADLOCK FALSE
