SPECIFICATION Spec
CONSTANTS
    v1 = v1
    v2 = v2
    v3 = v3
    v4 = v4
    A = A
    B = B
    Nil = Nil
    BadRoot = BadRoot
    Validator = {v1, v2, v3, v4}
    VotingPower <- DoublePower
    CanonicalOrder <- Order
    Draw <- FixedDraw
    Tx = {A, B}
    FaultyRoot = {}
    Unreliable = {}
    MaxHeight = 1
    PendingLimit = 3
    MaxAttempts = 2
    MaxView = 3
    MaxLosses = 1
    MaxLate = 1
    MaxCrashes = 0
    MaxRestarts = 1
    MaxFaults = 2
SYMMETRY Symmetry
INVARIANTS
    CertificatesAgreeUnlessRolledBack
    ReplicasAgree
    SafeBelowAThird
    EnginesCertified
    CheckpointsRepeatFinality
