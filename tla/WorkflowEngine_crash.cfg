CONSTANTS
    w1 = w1
    w2 = w2
    a1 = a1
    Workers = {w1, w2}
    ApiProcs = {a1}
    NumSteps = 2
    Inputless = {}
    ExecuteRetries = 1
    AdvanceRetries = 1
    FailureRetries = 1
    OpBudget <- StartCancel
    FaultKinds = {"crash", "step_error"}
    MaxFaults = 2
SPECIFICATION FairSpec
CHECK_DEADLOCK FALSE
INVARIANTS
    RunningIsDriven
PROPERTIES
    Settles
    FailureAnnounced
