SPECIFICATION FairCollectionSpec
CONSTANTS
    Collections = {c1}
    Documents = {d1}
    Deleters = {r1}
    Indexers = {w1}
    Recounts = {}
    Limits = {1}
    MaxTaskRetries = 1
    NoStore = NoStore
    NoCollection = NoCollection
    NoDocument = NoDocument
    Subject = c1
INVARIANTS
    ActiveIsReadyForUse
\* in a run of its own: PROPERTIES NothingIsRevived
CONSTRAINT BeforeRevival
CHECK_DEADLOCK FALSE
