\* A list with a word nobody had is not replaced at once.
SPECIFICATION StationSpec
CONSTANTS
    r1 = r1
    r2 = r2
    r3 = r3
    u1 = u1
    u2 = u2
    x = x
    y = y
    None = None
    Damaged = Damaged
    Requests <- Three
    Workloads <- Mixes
    Past <- OneGift
    Keys <- CacheKeys
    Users <- TwoUsers
    Axes = {"style"}
    Versions = {"old", "new"}
    Lists <- TwoLists
    MaxFailures = 1
PROPERTY ListReplacedAtOnce
CHECK_DEADLOCK FALSE
