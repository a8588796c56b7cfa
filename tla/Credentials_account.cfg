CONSTANTS
    Proc = {p1, p2}
    Token = {t1, t2}
    Code = {c1}
    Email = {e1}
    Operations <- AccountOperations
    MaxGeneration = 2
SPECIFICATION Spec
SYMMETRY Interchangeable
INVARIANTS
    NoCredentialOutlivesEviction
    AtMostOneSurvivor
    InactiveHoldsNoToken
    PasswordIsTheLatestSet
PROPERTIES
    AccountIsFenced
