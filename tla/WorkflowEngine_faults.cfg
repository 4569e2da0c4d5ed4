CONSTANTS
    w1 = w1
    w2 = w2
    a1 = a1
    a2 = a2
    Workers = {w1, w2}
    ApiProcs = {a1, a2}
    NumSteps = 2
    Inputless = {}
    ExecuteRetries = 1
    AdvanceRetries = 1
    FailureRetries = 1
    OpBudget <- StartPauseCancel
    FaultKinds = {"step_error", "broker_error", "time_limit"}
    MaxFaults = 3
SPECIFICATION Spec
SYMMETRY WorkerSymmetry
CHECK_DEADLOCK FALSE
INVARIANTS
    SingleThread
    ExecutedInOrder
    CompletedMeansExecuted
    ExactlyOnce
