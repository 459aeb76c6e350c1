\* Two polls on one database; reorgs within the confirmations.
SPECIFICATION FairSpec
CONSTANTS
    p1 = p1
    p2 = p2
    e1 = e1
    e2 = e2
    Pollers <- TwoPollers
    Events <- TwoEvents
    StartBlock = 1
    BatchSize = 3
    Confirmations = 1
    OverlapBlocks = 1
    MaxReorg = 1
    MaxHeight = 5
INVARIANTS
    NoGap
    StoredIsFinal
PROPERTY ConfirmedIsStored
