SPECIFICATION Spec
CONSTANTS
    wallet = wallet
    bank = bank
    coffee = coffee
    lunch = lunch
    Source = {wallet, bank}
    Push = {wallet}
    Payment = {coffee, lunch}
    Says <- Reported
    Tip = 1
    Payload <- Payloads
    Account = {a1}
    Amount = {1, 2}
    Txn = {t1, t2}
    Operation = {o1}
    Request = {r1, r2}
    Mixes <- Busy
    MaxNext = 1
SYMMETRY Interchangeable
INVARIANTS MadeOnce OneLinkPerSource QueuedCanBeConverted
PROPERTIES PostedTogether OnlyUnlinkingForgets OnlyTapsAreCorrected
CHECK_DEADLOCK FALSE
