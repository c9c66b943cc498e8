SPECIFICATION FairCollectionSpec
CONSTANTS
    Collections = {c1, c2, c3}
    Documents = {d1}
    Deleters = {r1, r2}
    Indexers = {w1}
    Recounts = {q1, q2}
    Limits = {1, 2}
    MaxTaskRetries = 1
    NoStore = NoStore
    NoCollection = NoCollection
    NoDocument = NoDocument
    Subject = c1
INVARIANTS
    IndexedIsStored
    UsageIsExplained
PROPERTIES
    StoresFollowTheRow
    CreatedWithinLimit
CONSTRAINT OneAtATime
CHECK_DEADLOCK FALSE
