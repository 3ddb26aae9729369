SPECIFICATION FairSpec
CONSTANTS
    o = o
    n = n
    None = None
    Asset = {o, c}
    NewAsset = {n}
    Bytes = {b}
    Content <- MCContent
    EncodedFrom <- MCEncodedFrom
    MaxAttempts = 1
    Payloads = {"ok"}
    Device = {d1}
    Request = {r1}
    ReplacedBy <- MCReplacedBy
    Permanent = FALSE
    Allowed = {"drop", "edit"}
    Limit = 2
PROPERTIES
    RowComesBack
    SyncProgresses
    GateDelivers
