SPECIFICATION FairSpec
CONSTANTS
    Rooms = {r1, r2}
    Calls = {c1}
    None = None
    MaxSockets = 5
    MaxGen = 2
    Modes <- AllModes
CHECK_DEADLOCK FALSE
INVARIANTS
    TypeOK
    LiveRoomsAreJoined
    OneSocket
    ClosedRoomsAreReleased
PROPERTIES
    CallsEnd
