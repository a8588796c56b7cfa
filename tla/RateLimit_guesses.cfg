SPECIFICATION FairSpec
CONSTANTS
    Address = {"ann", "nobody"}
    Known = {"ann"}
    IP = {"ip1", "ip2"}
    Request = {r1, r2}
    Owners = {r1}
    Window = 4
    IPWindow = 1
    OwnLimit = 1
    CeilingLimit = 2
    IPLimit = 2
    Duration = 1
    MaxKeys = {2}
INVARIANTS GuessesAreBounded
PROPERTIES HeldIsLetGo
