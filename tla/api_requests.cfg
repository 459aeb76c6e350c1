\* Two requests at a time for one receipt; every call may fail.
SPECIFICATION FairSpec
CONSTANTS
    r1 = r1
    r2 = r2
    q1 = q1
    q2 = q2
    Requests <- TwoRequests
    Receipts <- OneReceipt
    SignerType = "gcp-kms"
    Window = 1
    Soon = 3
    Lookback = 1
    MaxBlock = 2
INVARIANTS
    SignersAreFew
    NoLateDispute
    RepliesAreTrue
PROPERTY AskedIsDisputed
