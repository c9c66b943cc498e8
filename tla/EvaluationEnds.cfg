SPECIFICATION FairSpec
CONSTANTS
    NumEvaluations = 1
    NumQuestions = 1
    Workers = {w1, w2}
    Requests = {r1}
    NoWorker = NoWorker
    MaxRunning = 1
    Slots = 1
    Ops = {"pause", "resume", "retry"}
    MaxOps = 2
    Faults = {"death", "error", "slow", "expiry"}
    MaxFaults = 1
PROPERTIES
    EvaluationsEnd
