SPECIFICATION FairSpec
CONSTANTS
    Account = {1, 2}
    Txn = {1, 2}
    Own = {w1}
    Other = {o1}
    Mixes = {{w1}, {o1}}
    Shapes <- Plain
    MayMove = FALSE
    Engine = "sqlite"
    MaxWrites = 3
INVARIANTS UpToDateIsTrue
PROPERTIES Converges ChangedAccountsMove
