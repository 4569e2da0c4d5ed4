CONSTANTS
    c1 = c1
    c2 = c2
    c3 = c3
    Calls = {c1, c2, c3}
    FailureThreshold = 2
    SuccessThreshold = 2
    Timeout = 2
    HalfOpenMaxCalls = 3
    WindowSize = 3
    RateNum = 3
    RateDen = 4
    Resets = FALSE
SPECIFICATION Spec
SYMMETRY CallSymmetry
PROPERTY
    ClosesOnTrialSuccesses
