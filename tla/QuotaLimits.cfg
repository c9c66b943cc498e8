SPECIFICATION FairSpec
CONSTANTS
    Collections = {c1}
    Names = {n1, n2}
    Requests = {r1, r2}
    NoRequest = NoRequest
    Limits = {1, 2}
    CollectionLimits = {1, 2}
INVARIANTS
    UsageIsAccounted
PROPERTIES
    GrowthIsPaid
    CollectionGrowthHasRoom
    RequestsEnd
CONSTRAINT Separately
