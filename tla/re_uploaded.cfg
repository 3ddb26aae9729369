SPECIFICATION Spec
CONSTANTS
    b1 = b1
    b2 = b2
    bad = bad
    None = None
    Sweeper = sweeper
    Asset = {a1, a2}
    NewAsset = {n1, n2}
    Bytes = {b1, b2}
    Worker = {w1}
    Content <- MCContent
    EncodedFrom <- MCEncodedFrom
    Configs <- ForeverOnly
    Limit <- OneOutside
    MaxAttempts = 1
    Payloads = {"ok"}
SYMMETRY ReplacementSymmetry
PROPERTIES
    NoSecondGeneration
CHECK_DEADLOCK FALSE
