SPECIFICATION FairSpec
CONSTANTS
    v1 = v1
    v2 = v2
    v3 = v3
    v4 = v4
    A = A
    B = B
    Nil = Nil
    BadRoot = BadRoot
    Validator = {v1, v2, v3, v4}
    VotingPower <- OnePower
    CanonicalOrder <- Order
    Draw <- RotatingDraw
    Tx = {A}
    FaultyRoot = {}
    Unreliable = {}
    MaxHeight = 1
    PendingLimit = 3
    MaxAttempts = 2
    MaxView = 5
    MaxLosses = 1
    MaxLate = 0
    MaxCrashes = 0
    MaxRestarts = 1
    MaxFaults = 2
PROPERTIES
    ChainGrows
