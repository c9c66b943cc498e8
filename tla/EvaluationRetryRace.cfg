SPECIFICATION Spec
CONSTANTS
    NumEvaluations = 1
    NumQuestions = 1
    Workers = {w1, w2}
    Requests = {r1}
    NoWorker = NoWorker
    MaxRunning = 1
    Slots = 1
    Ops = {"retry"}
    MaxOps = 1
    Faults = {}
    MaxFaults = 0
INVARIANTS
    CompletedMeansAllCompleted
