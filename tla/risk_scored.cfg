\* Two runs at a time, crashes, snapshots from files; runs score again and again.
SPECIFICATION FairSpec
CONSTANTS
    r1 = r1
    r2 = r2
    Runs <- TwoRuns
    Signals <- MCSignals
    Critical <- MCCritical
    Points <- MCPoints
    Observations <- TwoKinds
    Keep = 2
    Confident = 2
    HighRisk = 80
    AlertRefs = 2
    MaxTime = 2
    MaxRows = 3
INVARIANTS
    ReportIsStored
    AlertsAreRaised
PROPERTY ScoredInTheEnd
