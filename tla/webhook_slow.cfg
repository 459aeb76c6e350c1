\* Two sends to a receiver that is slow, busy or away, at the limit of MaxAge.
SPECIFICATION FairSpec
CONSTANTS
    Sends = {a, b}
    Timeout = 1
    MaxRetries = 2
    RetryDelay = 2
    MaxDelay = 2
    MaxAge = 8
    Skew = 1
    MaxTime = 1
INVARIANTS
    StaysFresh
    SuccessInOrder
PROPERTIES
    SendReturns
CHECK_DEADLOCK FALSE
