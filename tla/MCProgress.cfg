SPECIFICATION ProgressSpec
CONSTANTS
    w1 = w1
    w2 = w2
    c1 = c1
    c2 = c2
    NoWorker = NoWorker
    Workers <- TwoWorkers
    Comments <- TwoComments
    Stories <- OneStory
    s1 = s1
    s2 = s2
    MaxCandidates = 1
    MaxTrouble = 1
    MaxCrashes = 1
    MaxDbErrors = 1
SYMMETRY Alike
INVARIANTS
    StoryHasOneReader
    AskedOnceUnlessUnclear
    TakenIsWeighed
    LockExcludes
    VoicesAreBounded
CHECK_DEADLOCK FALSE
