SPECIFICATION FairProgressSpec
CONSTANTS
    w1 = w1
    w2 = w2
    c1 = c1
    c2 = c2
    s1 = s1
    s2 = s2
    NoWorker = NoWorker
    Workers <- TwoWorkers
    Comments <- OneComment
    Stories <- OneStory
    MaxCandidates = 1
    MaxTrouble = 1
    MaxCrashes = 0
    MaxDbErrors = 0
INVARIANT ProgressTypeOK
PROPERTY EveryStoryIsRead
CHECK_DEADLOCK FALSE
