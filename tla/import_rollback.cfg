CONSTANTS
    Deck = {d1}
    Body = {b1}
    Snapshot = {s1}
    NoHead = NoHead
    Nobody = Nobody
    Caller <- Callers
    FaultPoints = {}
    MaxFaults = 0
    MaxRunning = 1
    MaxCrashes = 0
SPECIFICATION Spec
CHECK_DEADLOCK FALSE
INVARIANT
    RolledBackLeavesNothing
