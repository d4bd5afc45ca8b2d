SPECIFICATION ConversationSpec
CONSTANTS
    v = v
    p = p
    r = r
    hello = hello
    tip = tip
    empty = empty
    why = why
    NoFrame = NoFrame
    Sockets <- OneSocket
    Posts <- OnePost
    Readers <- OneReader
    Frames <- ThreeFrames
    sender <- Senders
    kind <- KindOf
    fit <- Fits
    content <- Contents
    Batches <- SmallBatches
    Limits = {0, 2}
    MaxPageSize = 2
    MaxFailures = 1
INVARIANTS
    PagesAreGapless
    HeardIsReadable
    ReplyPointsBack
    OrderIsKept
    ChargedIsShown
    EchoReaches
    ChoiceIsJust
CHECK_DEADLOCK FALSE
