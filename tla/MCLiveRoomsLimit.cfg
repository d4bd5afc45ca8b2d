SPECIFICATION FairRoomsSpec
CONSTANTS
    r1 = r1
    r2 = r2
    a = a
    b = b
    Closer = Closer
    Nobody = Nobody
    Rooms <- TwoRooms
    personaOf <- OwnPersona
    Staff <- OneStaff
    RoomsPerTick = 1
PROPERTY EveryAbandonedRoomCloses
CHECK_DEADLOCK FALSE
