SPECIFICATION Spec
CONSTANTS
    Docs = {d1}
    IndexTypes = {"VECTOR"}
    ConfigTypes = {"VECTOR"}
    Requests = {r1}
    Passes = {p1, p2}
    Ops = {"create", "upload", "confirm", "delete", "rebuild", "rebuild_failed", "expire"}
    MaxVersion = 3
    MaxRowId = 1
    MaxWorkflows = 3
    MaxRetries = 0
    MaxFaults = 0
    CommitBeforeRun = FALSE
INVARIANTS
    TypeOK
    OneWorkflowPerVersion
    RowsHaveOneWriter
    DeletedStaysDeleted
PROPERTIES
    BecomesActiveUpToDate
SYMMETRY Symmetry
CHECK_DEADLOCK FALSE
