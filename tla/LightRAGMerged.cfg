SPECIFICATION Spec
CONSTANTS
    e1 = e1
    e2 = e2
    r = r
    c1 = c1
    c2 = c2
    t1 = t1
    t2 = t2
    Docs = {d1, d2}
    Entities = {e1, e2}
    Relations = {r}
    Chunks = {c1, c2}
    Texts = {t1, t2}
    Ends <- MCEnds
    ChunksOf <- MCChunksOf
    Answers <- MCAnswers
    MaxUpdates = 1
    MaxRetries = 1
    NoDoc = NoDoc
    NoItem = NoItem
INVARIANTS
    IndexedIsFound
    SourcesAreStored
    EdgesHaveEnds
CHECK_DEADLOCK FALSE
SYMMETRY Symmetry
CONSTRAINT OneRepeat
