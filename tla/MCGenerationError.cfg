\* One failure.
SPECIFICATION WorkerSpec
CONSTANTS
    tip = tip
    tip2 = tip2
    chat = chat
    NoOne = NoOne
    Requests <- Three
    topicOf <- ThreeTopics
    Deliveries = 2
    Attempts <- Twice
    priority <- Priorities
    HasFallback = TRUE
    MaxFailures = 1
INVARIANT
    EveryErrorIsParked
CHECK_DEADLOCK FALSE
