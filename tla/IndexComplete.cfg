SPECIFICATION Spec
CONSTANTS
    Docs = {d1}
    IndexTypes = {"VECTOR", "FULLTEXT"}
    ConfigTypes = {"VECTOR", "FULLTEXT"}
    Requests = {r1}
    Passes = {p1}
    Ops = {"create"}
    MaxVersion = 2
    MaxRowId = 1
    MaxWorkflows = 3
    MaxRetries = 0
    MaxFaults = 0
    CommitBeforeRun = FALSE
INVARIANTS
    CompleteWhenAllActive
CHECK_DEADLOCK FALSE
