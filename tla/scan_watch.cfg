\* One cycle after the other, two receipts, everything may go wrong.
SPECIFICATION FairSpec
CONSTANTS
    r1 = r1
    r2 = r2
    s1 = s1
    s2 = s2
    Receipts <- TwoReceipts
    Scans <- OneScan
    MaxActions = 1
    Lookback = 1
    Window = 0
    MinAge = 1
    Faults <- FaultKinds
    MaxBlock = 4
    MaxSent = 2
INVARIANTS
    LedgerSound
    DisputedOnlyWhenStale
    SubmissionsBounded
    NoFindingForDisputed
PROPERTIES
    CursorFileMonotone
    ImplementsOnce
    StaleIsDisputed
