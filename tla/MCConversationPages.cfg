SPECIFICATION ConversationSpec
CONSTANTS
    v = v
    p = p
    r = r
    hello = hello
    tip = tip
    empty = empty
    why = why
    NoFrame = NoFrame
    Sockets <- OneSocket
    Posts <- NoPost
    Readers <- OneReader
    Frames <- TwoFrames
    sender <- Senders
    kind <- KindOf
    fit <- Fits
    content <- Contents
    Batches <- SmallBatches
    Limits = {2, 3}
    MaxPageSize = 2
    MaxFailures = 0
INVARIANT
    ShortPageIsTheEnd
CHECK_DEADLOCK FALSE
