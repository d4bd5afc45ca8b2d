SPECIFICATION FairRoomsSpec
CONSTANTS
    r1 = r1
    r2 = r2
    a = a
    b = b
    Closer = Closer
    Nobody = Nobody
    Rooms <- TwoRooms
    personaOf <- SamePersona
    Staff <- TwoStaff
    RoomsPerTick = 2
INVARIANTS
    OneLiveRoom
PROPERTIES
    ViewersKeepRoomOpen
    AbandonedRoomCloses
CHECK_DEADLOCK FALSE
