\* The two subscribers of wallet-worker on their one session.
SPECIFICATION WSpec
CONSTANTS
    u1 = u1
    u2 = u2
    buy = buy
    grant = grant
    gift = gift
    tip = tip
    tipAgain = tipAgain
    giveBack = giveBack
    kBuy = kBuy
    kTip = kTip
    kBack = kBack
    none = none
    worker = worker
    NoKey = none
    Users <- ApiUsers
    Calls <- WorkerCalls
    request <- WorkerRequests
    Sessions <- WorkerSessions
    session <- WorkerSession
INVARIANT
    BalanceIsLedgerSum
\* Every call has returned: nothing is left to do.
CHECK_DEADLOCK FALSE
