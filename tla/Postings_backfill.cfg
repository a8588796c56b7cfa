SPECIFICATION Spec
CONSTANTS
    wallet = wallet
    bank = bank
    coffee = coffee
    lunch = lunch
    Source = {wallet, bank}
    Push = {wallet}
    Payment = {coffee, lunch}
    Says <- Reported
    Tip = 1
    Payload <- Payloads
    Account = {a1}
    Amount = {1, 2}
    Txn = {t1}
    Operation = {o1}
    Request = {r1}
    Mixes <- Backfilled
    MaxNext = 0
PROPERTIES RuleOnlyClassifies
CHECK_DEADLOCK FALSE
