SPECIFICATION Spec
CONSTANTS
    Account = {1, 2}
    Amount = {1}
    Day = {1, 2}
    Today = 1
    Request = {p1, p2}
    Operation <- Operations
    Legacy = {1}
    Engine = "sqlite"
    MaxWrites = 2
    MaxRows = 5
SYMMETRY Symmetry
INVARIANTS PinnedAtZero
PROPERTIES RemovedFlowIsOffsetOnItsDay StaysDeleted
