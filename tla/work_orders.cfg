SPECIFICATION Spec
CONSTANTS
    a1 = a1
    a2 = a2
    o1 = o1
    o2 = o2
    o3 = o3
    v1 = v1
    v2 = v2
    v3 = v3
    pay1 = pay1
    pay2 = pay2
    rec1 = rec1
    rec2 = rec2
    None = None
    Root = {a1, a2}
    Agent = {a1, a2}
    Order = {o1}
    Verifier = {v1, v2, v3}
    ReceiptId = {rec1, rec2}
    PaymentId = {pay1, pay2}
    DisputeId = {"dispute1"}
    Group <- OwnGroup
    Related <- RelatedToA2
    Rank <- V3First
    Sampled <- V1Sampled
    Strict = FALSE
    RequiredAccepts = 2
    MinGroups = 2
    CommitteeSize = 2
    Referred = {a1}
    AgentStatus = {"ACTIVE", "SUSPENDED"}
    MaxAmount = 2
    FaucetOnce = 1
    FaucetTotal = 1
SYMMETRY Symmetry
INVARIANTS
    TypeOK
    UnitsConserved
    SettledOnce
    VotesIndependent
    ReferralEarned
PROPERTIES
    LedgerSpec
