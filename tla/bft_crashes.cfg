SPECIFICATION Spec
CONSTANTS
    v1 = v1
    v2 = v2
    v3 = v3
    v4 = v4
    A = A
    B = B
    Nil = Nil
    BadRoot = BadRoot
    Validator = {v1, v2, v3, v4}
    VotingPower <- OnePower
    CanonicalOrder <- Order
    Draw <- FixedDraw
    Tx = {A, B}
    FaultyRoot = {}
    Unreliable = {}
    MaxHeight = 2
    PendingLimit = 3
    MaxAttempts = 2
    MaxView = 3
    MaxLosses = 1
    MaxLate = 0
    MaxCrashes = 1
    MaxRestarts = 1
    MaxFaults = 2
SYMMETRY Symmetry
INVARIANTS
    TypeOK
    LockInv
    CertifiedValueHeld
    NoDoubleSign
    StoreFollowsDisk
PROPERTIES
    DurableChainGrows
