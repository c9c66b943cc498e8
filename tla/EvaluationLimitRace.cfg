SPECIFICATION Spec
CONSTANTS
    NumEvaluations = 2
    NumQuestions = 1
    Workers = {w1, w2}
    Requests = {r1}
    NoWorker = NoWorker
    MaxRunning = 1
    Slots = 1
    Ops = {}
    MaxOps = 0
    Faults = {}
    MaxFaults = 0
INVARIANTS
    RunningIsLimited
