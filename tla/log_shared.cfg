\* Two commands at a time, in a time zone west of UTC, over the end of a day.
SPECIFICATION LogSpec
CONSTANTS
    p1 = p1
    p2 = p2
    Procs <- TwoProcs
    Zone <- Behind
    DayLength = 2
    MaxTime = 4
    MaxLeaves = 2
    MaxForced = 1
SYMMETRY Symmetric
INVARIANTS
    KeysAreFew
    AcknowledgedIsAccounted
    LeafHasOneDate
PROPERTY LogIsAppendOnly
CHECK_DEADLOCK FALSE
