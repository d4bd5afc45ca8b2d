SPECIFICATION ConversationSpec
CONSTANTS
    v = v
    p = p
    r = r
    hello = hello
    tip = tip
    empty = empty
    why = why
    NoFrame = NoFrame
    Sockets <- OneSocket
    Posts <- NoPost
    Readers <- NoReader
    Frames <- TwoFrames
    sender <- Senders
    kind <- KindOf
    fit <- Fits
    content <- Contents
    Batches <- SmallBatches
    Limits = {2}
    MaxPageSize = 2
    MaxFailures = 1
INVARIANT
    RecordNeverBlocksPay
CHECK_DEADLOCK FALSE
