\* Every kind of failure, once each; workers and relay go on.
SPECIFICATION TwoBuyersSpec
CONSTANTS
    h1 = h1
    h2 = h2
    h3 = h3
    o1 = o1
    o2 = o2
    u1 = u1
    u2 = u2
    Orders <- TwoOrders
    Handlers <- ThreeHandlers
    Users = {u1, u2}
    buyer <- TwoBuyers
    BatchSize = 2
    MaxDeliveries = 2
    MaxSpends = 1
    MaxFailures = 1
    MaxDbFailures = 1
INVARIANTS
    StatusHasItsFact
    PurchaseIsSentFirst
    RepublishWidthIsOne
    AckedIsAccountedFor
    AppliedOnce
    CreditIsBackedByMoney
PROPERTY EveryPurchaseIsCredited
\* Every request has ended and every message is acknowledged.
CHECK_DEADLOCK FALSE
