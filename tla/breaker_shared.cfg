\* Three concurrent calls on one circuit breaker.
SPECIFICATION CBFairSpec
CONSTANTS
    c1 = c1
    c2 = c2
    c3 = c3
    Calls <- ThreeCalls
    CallRetries = 1
    FailureThreshold = 2
    SuccessThreshold = 2
    ResetTimeout = 2
INVARIANTS
    CountsMatchState
    HalfOpenIsQuiet
PROPERTY Recovers
