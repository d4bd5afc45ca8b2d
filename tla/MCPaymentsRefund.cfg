\* Nothing fails and nothing is spent; a third request refunds while another confirms.
SPECIFICATION PipelineSpec
CONSTANTS
    h1 = h1
    h2 = h2
    h3 = h3
    o1 = o1
    o2 = o2
    u1 = u1
    u2 = u2
    Orders <- TwoOrders
    Handlers <- ThreeHandlers
    Users = {u1}
    buyer <- OneBuyer
    BatchSize = 2
    MaxDeliveries = 2
    MaxSpends = 0
    MaxFailures = 0
    MaxDbFailures = 0
PROPERTY
    RefundedIsFinal
CHECK_DEADLOCK FALSE
