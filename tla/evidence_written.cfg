\* Two processes on one directory over midnight; writes fail and are cut off.
SPECIFICATION Spec
CONSTANTS
    w1 = w1
    w2 = w2
    Writers <- TwoWriters
    MaxFileSize = 1
    MaxDay = 2
    MaxWrites = 3
SYMMETRY Symmetric
INVARIANTS
    SizeBounded
    AckedIsKept
PROPERTIES
    PastIsStable
    ImplementsAppendOnly
CHECK_DEADLOCK FALSE
