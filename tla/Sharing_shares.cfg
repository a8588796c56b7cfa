SPECIFICATION Spec
CONSTANTS
    ann = ann
    bob = bob
    eve = eve
    checking = checking
    wallet = wallet
    home = home
    User = {ann, bob, eve}
    Account = {checking, wallet}
    Budget = {home}
    Owner <- Owners
    Code = {"c1", "c2"}
    None = None
    Settings <- Explored
INVARIANTS OneUserPerCode PlacedOnlyWhereShared
PROPERTIES AcceptedAfterOffer DisconnectEndsSharing CountedAccountsBelong OldPlansStayGone
