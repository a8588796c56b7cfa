CONSTANTS
    Proc = {p1, p2}
    Token = {t1}
    Code = {c1, c2}
    Email = {e1, e2}
    Operations <- RequestOperations
    MaxGeneration = 1
SPECIFICATION Spec
SYMMETRY Interchangeable
INVARIANTS
    PendingChangeIsFenced
