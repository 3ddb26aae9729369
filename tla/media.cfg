SPECIFICATION Spec
CONSTANTS
    None = None
    Absent = Absent
    Given <- MCGiven
    MaxThreads = 16
    MaxHarmless = 2
    Ignored = {"Orientation"}
    Precision = 1000000
    Sources <- MCSources
    Alterations <- MCAlterations
    Carried <- MCCarried
INVARIANTS
    TypeOK
    BestWorkingEncoder
    WrittenIsKept
    AttachedMediaIsKept
    AcceptedIsFaithful
    RightWayUp
CHECK_DEADLOCK FALSE
