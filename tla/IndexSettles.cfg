SPECIFICATION FairSpec
CONSTANTS
    Docs = {d1}
    IndexTypes = {"VECTOR"}
    ConfigTypes = {"VECTOR"}
    Requests = {r1, r2}
    Passes = {p1}
    Ops = {"create", "delete"}
    MaxVersion = 2
    MaxRowId = 1
    MaxWorkflows = 4
    MaxRetries = 1
    MaxFaults = 1
    CommitBeforeRun = TRUE
INVARIANTS
    DeletedIsNotSearchable
PROPERTIES
    EveryIndexSettles
CHECK_DEADLOCK FALSE
