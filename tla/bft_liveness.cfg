SPECIFICATION FairSpec
CONSTANTS
    v1 = v1
    v2 = v2
    v3 = v3
    v4 = v4
    A = A
    B = B
    Nil = Nil
    BadRoot = BadRoot
    Validator = {v1, v2, v3, v4}
    VotingPower <- OnePower
    CanonicalOrder <- Order
    Draw <- RotatingDraw
    Tx = {A, B}
    FaultyRoot = {v4}
    Unreliable = {v4}
    MaxHeight = 2
    PendingLimit = 1
    MaxAttempts = 2
    MaxView = 5
    MaxLosses = 0
    MaxLate = 0
    MaxCrashes = 0
    MaxRestarts = 0
    MaxFaults = 0
INVARIANTS
    CertifiedWasPrepared
PROPERTIES
    EveryApplyAnswered
    ChainGrows
