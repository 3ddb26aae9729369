SPECIFICATION Spec
CONSTANTS
    b1 = b1
    b2 = b2
    bad = bad
    None = None
    Sweeper = sweeper
    Asset = {a1}
    NewAsset = {n1, n2}
    Bytes = {b1, bad}
    Worker = {w1}
    Content <- MCContent
    EncodedFrom <- MCEncodedFrom
    Configs <- AllModes
    Limit <- RestartOperator
    MaxAttempts = 2
    Payloads = {"ok", "guarded", "bad"}
SYMMETRY ReplacementSymmetry
INVARIANTS
    TypeOK
    NothingLost
    CarriedOver
    RemovalIsRemembered
    FreedMeansGone
    PendingHasReplacement
PROPERTIES
    NoUploadOnceRecorded
CHECK_DEADLOCK FALSE
