\* One failure at any point; everything that can go on goes on.
SPECIFICATION FairWorkerSpec
CONSTANTS
    tip = tip
    tip2 = tip2
    chat = chat
    NoOne = NoOne
    Requests <- Three
    topicOf <- ThreeTopics
    Deliveries = 2
    Attempts <- Twice
    priority <- Priorities
    HasFallback = TRUE
    MaxFailures = 1
INVARIANTS
    OneReplyPerRequest
    OvertakenIsSilent
    SuperchatIsAnswered
    ErrorIsTold
PROPERTIES
    QueuesDrain
\* Every request has been handled, or delivered as often as the bound allows.
CHECK_DEADLOCK FALSE
