SPECIFICATION FairStationSpec
CONSTANTS
    r1 = r1
    r2 = r2
    r3 = r3
    u1 = u1
    u2 = u2
    x = x
    y = y
    None = None
    Damaged = Damaged
    Requests <- Three
    Workloads <- Mixes
    Past <- OneGift
    Keys <- CacheKeys
    Users <- TwoUsers
    Axes = {"style"}
    Versions = {"old", "new"}
    Lists <- TwoLists
    MaxFailures = 1
INVARIANTS
    NothingTwice
    StaleOnlyIfExcused
PROPERTIES
    KnownWordsReplaceAtOnce
    CacheHeals
    EveryRequestEnds
\* Every request has ended and every key has expired.
CHECK_DEADLOCK FALSE
