SPECIFICATION Spec
CONSTANTS
    b1 = b1
    b2 = b2
    bad = bad
    None = None
    Sweeper = sweeper
    Asset = {a1}
    NewAsset = {n1, n2}
    Bytes = {b1, b2}
    Worker = {w1, w2}
    Content <- MCContent
    EncodedFrom <- MCEncodedFrom
    Configs <- Deleting
    Limit <- ReclaimOutside
    MaxAttempts = 1
    Payloads = {"ok"}
SYMMETRY Symmetry
INVARIANTS
    IInv
    NothingLost
    CarriedOver
PROPERTIES
    KeepsPromise
CHECK_DEADLOCK FALSE
