SPECIFICATION Spec
CONSTANTS
    b1 = b1
    b2 = b2
    bad = bad
    None = None
    Sweeper = sweeper
    Asset = {a1}
    NewAsset = {n1, n2}
    Bytes = {b1}
    Worker = {w1}
    Content <- MCContent
    EncodedFrom <- MCEncodedFrom
    Configs <- LaterOnly
    Limit <- OneRestart
    MaxAttempts = 1
    Payloads = {"ok"}
INVARIANTS
    ReplayPassesOwnMarker
CHECK_DEADLOCK FALSE
