SPECIFICATION FairSpec
CONSTANTS
    Host = {h1, h2}
    Player = {p1}
    Observer = {o1}
    Nobody = Nobody
    NoSocket = NoSocket
    Casts = {{h1, p1}, {h1, h2}, {h1, o1}}
    Kinds = {"quiz", "matching", "cloud"}
    Questions = 1
    MaxWords = 1
    MaxRooms = 2
    MaxConns = 2
    MaxDials = 3
    MaxSessions = 2
INVARIANTS
    TypeOK
    ReaperFollowsOccupancy
    SeatsAreBacked
    TalliesAddUp
PROPERTIES
    HostKeepsItsRoom
    RoomsEnd
CHECK_DEADLOCK FALSE
