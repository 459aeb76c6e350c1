\* One check at a time of a run directory that changes under it.
SPECIFICATION RCSpec
CONSTANTS
    pa = pa
    pb = pb
    up = up
    empty = empty
    small = small
    other = other
    large = large
    NoFile = NoFile
    Paths <- MCPaths
    Unsafe <- MCUnsafe
    Contents <- MCContents
    Size <- MCSize
    Claims <- MCClaims
    MaxBytes = 1
    MaxChanges = 2
INVARIANTS
    VerifiedWasThere
    VerdictIsExact
    ReadTwiceAlike
    FailureIsSignalled
