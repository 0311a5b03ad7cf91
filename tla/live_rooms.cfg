SPECIFICATION Spec
CONSTANTS
    Presenter = {p1, p2}
    Speaker = {s1}
    Viewer = {v1}
    Deck = {d1, d2}
    Nobody = Nobody
    NoDeck = NoDeck
    Workloads = {"clock", "decks"}
    MaxControls = 3
INVARIANTS
    TypeOK
    ReaperFollowsOccupancy
    MembersShowTheDeck
    RunningClockIsArmed
CHECK_DEADLOCK FALSE
