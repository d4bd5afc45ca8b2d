\* Nothing fails; the model takes longer than the TTL of the slot.
SPECIFICATION WorkerSpec
CONSTANTS
    tip = tip
    tip2 = tip2
    chat = chat
    NoOne = NoOne
    Requests <- Three
    topicOf <- ThreeTopics
    Deliveries = 2
    Attempts <- Twice
    priority <- Priorities
    HasFallback = TRUE
    MaxFailures = 0
INVARIANT
    PreemptedByHigher
CHECK_DEADLOCK FALSE
