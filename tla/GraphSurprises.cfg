SPECIFICATION Spec
CONSTANTS
    Requests = {q1, q2}
    MaxRetries = 1
    SelfRetries = 2
    MaxRedeliveries = 1
    NoGraph = NoGraph
    Unread = Unread
INVARIANTS
    FailureKeepsGraph
    \* in a run of its own: NoBuildIsForgotten
CHECK_DEADLOCK FALSE
