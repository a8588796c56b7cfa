SPECIFICATION Spec
CONSTANTS
    Proc = {p1, p2}
    Client = {c1}
    Code = {k1, k2}
    Grant = {g1, g2}
    Operations <- GrantOperations
    Grace = 0
    MaxTime = 1
    MaxIssued = 2
    MaxGeneration = 1
SYMMETRY Interchangeable
INVARIANTS
    OneConnectionPerClient
    ConnectedClientsStay
    NoGrantOutlivesReclaim
    CodeBuysOneGrant
    AccessDiesWithItsGrant
    EveryIssuedTokenIsKnown
    ReuseEndsTheGrant
PROPERTIES
    OnlyReuseEndsTheGrant
