SPECIFICATION Spec
CONSTANTS
    Docs = {d1}
    IndexTypes = {"VECTOR"}
    ConfigTypes = {"VECTOR"}
    Requests = {r1, r2}
    Passes = {p1}
    Ops = {"upload", "confirm", "delete"}
    MaxVersion = 2
    MaxRowId = 1
    MaxWorkflows = 3
    MaxRetries = 0
    MaxFaults = 0
    CommitBeforeRun = FALSE
INVARIANTS
    DeletedStaysDeleted
CHECK_DEADLOCK FALSE
