CONSTANTS
    w1 = w1
    w2 = w2
    a1 = a1
    Workers = {w1, w2}
    ApiProcs = {a1}
    NumSteps = 2
    Inputless = {1}
    ExecuteRetries = 1
    AdvanceRetries = 1
    FailureRetries = 1
    OpBudget <- AllOps
    FaultKinds = {"step_error", "db_error", "broker_error", "crash", "time_limit", "api_crash", "early_start"}
    MaxFaults = 1
SPECIFICATION Spec
SYMMETRY WorkerSymmetry
CHECK_DEADLOCK FALSE
INVARIANTS
    TypeOK
    PendingUntouched
    RowsLeadExecution
