\* One session per call, as for HTTP requests.
SPECIFICATION FairSpec
CONSTANTS
    u1 = u1
    u2 = u2
    buy = buy
    grant = grant
    gift = gift
    tip = tip
    tipAgain = tipAgain
    giveBack = giveBack
    kBuy = kBuy
    kTip = kTip
    kBack = kBack
    none = none
    worker = worker
    NoKey = none
    Users <- ApiUsers
    Calls <- ApiCalls
    request <- ApiRequests
    Sessions <- ApiCalls
    session <- ApiSession
INVARIANTS
    BalanceIsLedgerSum
    KeyAppliedOnce
    DonationIffDebit
    AnswerMatchesLedger
PROPERTIES
    RefinesAccount
    EveryCallReturns
\* Every call has returned: nothing is left to do.
CHECK_DEADLOCK FALSE
