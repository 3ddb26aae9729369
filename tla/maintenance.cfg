SPECIFICATION RestoreSpec
CONSTANTS
    live = live
    binned = binned
    film = film
    lost1 = lost1
    lost2 = lost2
    refused = refused
    None = None
    Session = {s1, s2}
    Scanners = {s1}
    Asset = {live, binned, film, lost1, lost2, refused}
    Foreign = {film}
    Refused = {refused}
    Library <- MCLibrary
    InTrash = {binned}
    Uploads = {refused}
    PageSizes = {1, 2}
    DefaultPageSize = 1
    MaxPages = 2
    Rank <- MCRank
    Limits = {2}
    PickBatch = 2
    Budget <- MCBudget
    Ids <- MCIds
    ChunkSize = 3
INVARIANTS
    TypeOK
    RestoreTypeOK
    WalkCovers
    MarkHasJob
    EveryIdAnswered
    RestoreCost
PROPERTIES
    LimitIsReached
    InventoryDrains
CHECK_DEADLOCK FALSE
