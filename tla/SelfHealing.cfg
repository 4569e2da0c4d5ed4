\* Four calls of the breaker; a caller beside the monitoring loop, and two faults.
SPECIFICATION MCSpec
CONSTANTS
    \* CircuitBreaker
    Calls = {c1, c2, c3, c4}
    FailureThreshold = 2
    SuccessThreshold = 2
    Timeout = 2
    HalfOpenMaxCalls = 3
    WindowSize = 3
    RateNum = 3
    RateDen = 4
    Resets = TRUE
    \* SelfHealing
    Components <- MCComponents
    Strategies = {"api", "database"}
    Escalating = {"api"}
    Callers = {caller}
    Monitor = monitor
    Actions = 2
    MaxAttempts = 2
    Cooldown = 1
    Outcomes = {"repaired", "ineffective", "failed", "skipped"}
    MaxFaults = 2
INVARIANTS
    TypeOK
    TrialAccounting
    ProbesBounded
    NotWedged
    OpenHasDeadline
    HealTypeOK
    RecoveriesBounded
PROPERTIES
    GateSpec
    ClosesAfterRecovery
    KeepsTrying
CHECK_DEADLOCK FALSE
