\* Two syncs of one agent on a growing chain.
SPECIFICATION Spec
CONSTANTS
    s1 = s1
    s2 = s2
    x1 = x1
    x2 = x2
    Syncs <- TwoSyncs
    Txs <- TwoTxs
    Number <- OneAndTwo
    Peer <- Senders
    Inbound <- TwoTxs
    FromContract <- OnlySecond
    AllowTag <- KnownSender
    DenyTag <- NoTags
    MaxBlocks = 1
    MinTxForConcentration = 2
    BurstMinTx = 1
    BurstMultiplier = 1
    DormancyThreshold = 2
    Share = 1
    OfShare = 2
    MaxReorg = 1
    MaxHeight = 3
    MaxReorgs = 1
    MaxOverrides = 1
SYMMETRY Symmetric
INVARIANTS
    NothingIsSkipped
    SnapshotsAreSound
