\* Two registrations of one address, and a login; nothing fails.
SPECIFICATION StationSpec
CONSTANTS
    r1 = r1
    r2 = r2
    r3 = r3
    u1 = u1
    u2 = u2
    x = x
    y = y
    None = None
    Damaged = Damaged
    Requests <- Three
    Workloads <- Registrations
    Past <- OneGift
    Keys <- CacheKeys
    Users <- TwoUsers
    Axes = {"style"}
    Versions = {"old", "new"}
    Lists <- TwoLists
    MaxFailures = 0
INVARIANT DuplicateIsConflict
CHECK_DEADLOCK FALSE
