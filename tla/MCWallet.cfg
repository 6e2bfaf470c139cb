CONSTANTS
    u1 = u1
    Users = {u1}
    TopUps = {t1}
    Orders = {o1}
    Sessions = {s1, s2}
    Depositor <- MCDepositor
    DepositAmount <- MCDepositAmount
    Buyer <- MCBuyer
    Price <- MCPrice
    TopUpSize = 2
    PriceOfAll = 1
    Amounts = {1}
    AllowNegative = TRUE
    MinTopup = 1
    MaxTopup = 2
    MaxEntries = 2
    None = None
SPECIFICATION FairSpec
INVARIANTS
    BalanceIsLedgerHead
    AdjustmentsLoseNothing
    OnlyDebitsOverdraw
    SettledOnce
    PaidIffCharged
PROPERTIES
    KeepsBook
    RequestsFinish
CHECK_DEADLOCK FALSE
