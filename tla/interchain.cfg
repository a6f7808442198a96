SPECIFICATION Spec
CONSTANTS
    real = real
    fixture = fixture
    o1 = o1
    o2 = o2
    o3 = o3
    g1 = g1
    g2 = g2
    e1 = e1
    e2 = e2
    p1 = p1
    p2 = p2
    l1 = l1
    l2 = l2
    a1 = a1
    x1 = x1
    None = None
    Route = {real, fixture}
    Observer = {o1, o2, o3}
    Proof = {p1, p2}
    Evidence = {e1, e2}
    Lineage = {l1, l2}
    Agent = {a1}
    Receipt = {x1}
    Terms <- TwoRoutes
    Group <- TwoGroups
    Watches <- AllWatch
    ProvedOn <- ProvedOnReal
    Paid <- TwoPaid
    MaxPause = 2
    MaxNative = 1
SYMMETRY Symmetry
INVARIANTS
    TypeOK
    ReserveBacked
    CapHeld
    EvidenceUsedOnce
    Witnessed
    NothingRestsOnFraud
PROPERTIES
    QuarantineIsFinal
