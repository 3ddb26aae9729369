SPECIFICATION FairSpec
CONSTANTS
    b1 = b1
    b2 = b2
    bad = bad
    None = None
    Sweeper = sweeper
    Asset = {a1}
    NewAsset = {n1}
    Bytes = {b1}
    Worker = {w1}
    Content <- MCContent
    EncodedFrom <- MCEncodedFrom
    Configs <- Deleting
    Limit <- RestartSurge
    MaxAttempts = 2
    Payloads = {"ok"}
PROPERTIES
    JobSettles
    DeletionSettles
    PauseBringsRest
CHECK_DEADLOCK FALSE
