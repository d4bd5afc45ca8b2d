SPECIFICATION FairRedisSpec
CONSTANTS
    superchat = superchat
    superchat2 = superchat2
    chat = chat
    NoOne = NoOne
    Attempts <- Three
    priority <- ThreePriorities
PROPERTIES
    RefinesSlot
    RoomIsNotMuted
\* Every attempt has ended.
CHECK_DEADLOCK FALSE
