CONSTANTS
    Proc = {p1, p2}
    Token = {t1}
    Code = {c1}
    Email = {e1, e2}
    Operations <- RequestOperations
    MaxGeneration = 2
SPECIFICATION FairSpec
INVARIANTS
    RequestedChangeIsFenced
PROPERTIES
    ResetTakesItsCode
    ConfirmTakesItsGrant
    EveryRequestEnds
