SPECIFICATION Spec
CONSTANTS
    u1 = u1
    u2 = u2
    u3 = u3
    u4 = u4
    undated = undated
    foreign = foreign
    None = None
    Asset = {u1, u2, u3, u4, undated, foreign}
    Enabled = {u1, u2, u3, u4, undated}
    Created <- MCCreated
    Request = {r1, r2}
    MaxAge = 2
    Thresholds = {1, None}
    Window = 1
    MaxTime = 3
    MaxRestarts = 1
SYMMETRY UploadSymmetry
INVARIANTS
    TypeOK
    SurgeBounded
    LateBounded
PROPERTIES
    TripIsDeserved
CHECK_DEADLOCK FALSE
