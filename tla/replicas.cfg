SPECIFICATION Spec
CONSTANTS
    f1 = f1
    f2 = f2
    T = T
    S = S
    Nil = Nil
    Origin = Origin
    Follower = {f1, f2}
    Tx = {T, S}
    Seal = S
    ChunkCount <- TwoChunks
    Deployments <- AllDeployments
    CacheLimit = 1
    MaxHeight = 2
    MaxLosses = 1
    MaxCrashes = 1
    MaxOriginCrashes = 1
INVARIANTS
    TypeOK
    ChunksOfOneCheckpoint
    FinalizedUnlessTorn
PROPERTIES
    FinalizedViewSpec
