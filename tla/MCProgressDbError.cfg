SPECIFICATION FairProgressSpec
CONSTANTS
    w1 = w1
    w2 = w2
    c1 = c1
    c2 = c2
    s1 = s1
    s2 = s2
    NoWorker = NoWorker
    Workers <- OneWorker
    Comments <- OneComment
    Stories <- OneStory
    MaxCandidates = 1
    MaxTrouble = 0
    MaxCrashes = 0
    MaxDbErrors = 1
PROPERTY EveryStoryIsRead
CHECK_DEADLOCK FALSE
