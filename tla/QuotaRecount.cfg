SPECIFICATION Spec
CONSTANTS
    Collections = {c1}
    Names = {n1, n2}
    Requests = {r1, r2}
    NoRequest = NoRequest
    Limits = {1}
    CollectionLimits = {2}
PROPERTIES
    LimitIsKept
