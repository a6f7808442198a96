SPECIFICATION FairSpec
CONSTANTS
    f1 = f1
    f2 = f2
    T = T
    S = S
    Nil = Nil
    Origin = Origin
    Follower = {f1, f2}
    Tx = {T, S}
    Seal = S
    ChunkCount <- TwoChunks
    Deployments <- OnlySeveral
    CacheLimit = 1
    MaxHeight = 2
    MaxLosses = 0
    MaxCrashes = 0
    MaxOriginCrashes = 0
PROPERTIES
    SeveralSourcesCatchUp
