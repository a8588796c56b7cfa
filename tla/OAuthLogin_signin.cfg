SPECIFICATION Spec
CONSTANTS
    Proc = {p1, p2}
    google = google
    oidc = oidc
    sub1 = sub1
    sub2 = sub2
    Provider = {google, oidc}
    Subject = {sub1, sub2}
    Settings <- Mixes
    Email = {e1, e2}
    Identity = {i1, i2, i3}
    Code = {c1, c2}
    MaxGeneration = 1
    MaxStarted = 1
SYMMETRY Interchangeable
INVARIANTS NoWayInOutlivesReclaim
PROPERTIES RedeemedOnlyWhileLinked LastWayInStays
