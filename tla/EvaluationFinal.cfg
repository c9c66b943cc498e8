SPECIFICATION Spec
CONSTANTS
    NumEvaluations = 1
    NumQuestions = 2
    Workers = {w1, w2}
    Requests = {r1}
    NoWorker = NoWorker
    MaxRunning = 1
    Slots = 1
    Ops = {"pause", "resume", "delete"}
    MaxOps = 3
    Faults = {"death", "error", "expiry"}
    MaxFaults = 1
INVARIANTS
    CompletedMeansAllCompleted
    ItemClaimedOnce
    ProgressIsReal
SYMMETRY Symmetry
