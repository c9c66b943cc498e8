SPECIFICATION Spec
CONSTANTS
    Docs = {d1}
    IndexTypes = {"VECTOR"}
    ConfigTypes = {"VECTOR"}
    Requests = {r1}
    Passes = {p1}
    Ops = {"create", "rebuild"}
    MaxVersion = 2
    MaxRowId = 1
    MaxWorkflows = 3
    MaxRetries = 0
    MaxFaults = 0
    CommitBeforeRun = FALSE
INVARIANTS
    ActiveIsUpToDate
\* in a run of its own: PROPERTIES StaleFailuresIgnored
CHECK_DEADLOCK FALSE
