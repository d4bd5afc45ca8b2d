SPECIFICATION RoomsSpec
CONSTANTS
    r1 = r1
    r2 = r2
    a = a
    b = b
    Closer = Closer
    Nobody = Nobody
    Rooms <- OneRoom
    personaOf <- SamePersona
    Staff <- TwoStaff
    RoomsPerTick = 1
PROPERTY FinishedIsFinal
CHECK_DEADLOCK FALSE
