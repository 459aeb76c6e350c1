\* Two overlapping cycles, nothing goes wrong.
SPECIFICATION Spec
CONSTANTS
    r1 = r1
    r2 = r2
    s1 = s1
    s2 = s2
    Receipts <- TwoReceipts
    Scans <- TwoScans
    MaxActions = 1
    Lookback = 2
    Window = 0
    MinAge = 1
    Faults <- NoFaults
    MaxBlock = 4
    MaxSent = 3
INVARIANT NeverActsTwice
