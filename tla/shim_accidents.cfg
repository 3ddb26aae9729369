SPECIFICATION Spec
CONSTANTS
    o = o
    n = n
    None = None
    Asset = {o, c}
    NewAsset = {n}
    Bytes = {b}
    Content <- MCContent
    EncodedFrom <- MCEncodedFrom
    MaxAttempts = 1
    Payloads = {"ok"}
    Device = {d1}
    Request = {r1}
    ReplacedBy <- MCReplacedBy
    Permanent = TRUE
    Allowed = {"cut", "read_fails", "requeue", "restart", "touch_fails"}
    Limit = 2
INVARIANTS
    TypeOK
    ShimInv
    TranslatedOnlyAfterPurge
PROPERTIES
    SightingsAreRespected
