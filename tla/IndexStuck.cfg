SPECIFICATION FairSpec
CONSTANTS
    Docs = {d1}
    IndexTypes = {"VECTOR"}
    ConfigTypes = {"VECTOR"}
    Requests = {r1}
    Passes = {p1}
    Ops = {"create"}
    MaxVersion = 2
    MaxRowId = 1
    MaxWorkflows = 3
    MaxRetries = 0
    MaxFaults = 0
    CommitBeforeRun = FALSE
PROPERTIES
    EveryIndexSettles
CHECK_DEADLOCK FALSE
