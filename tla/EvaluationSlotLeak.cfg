SPECIFICATION FairSpec
CONSTANTS
    NumEvaluations = 2
    NumQuestions = 1
    Workers = {w1}
    Requests = {r1}
    NoWorker = NoWorker
    MaxRunning = 1
    Slots = 1
    Ops = {"delete"}
    MaxOps = 1
    Faults = {}
    MaxFaults = 0
PROPERTIES
    EvaluationsEnd
