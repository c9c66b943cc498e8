SPECIFICATION FairSpec
CONSTANTS
    Requests = {q1, q2}
    MaxRetries = 1
    SelfRetries = 2
    MaxRedeliveries = 1
    NoGraph = NoGraph
    Unread = Unread
INVARIANTS
    ServedGraphIsComplete
PROPERTIES
    NewestGraphWins
    DocumentsGetIntoGraph
CONSTRAINT OneThing
CHECK_DEADLOCK FALSE
