SPECIFICATION Spec
CONSTANTS
    Account = {1, 2}
    Txn = {1, 2}
    Own = {}
    Other = {o1}
    Mixes = {{o1}}
    Shapes <- PlainAndTransfers
    MayMove = FALSE
    Engine = "sqlite"
    MaxWrites = 2
INVARIANTS UpToDateIsTrue
