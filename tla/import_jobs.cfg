CONSTANTS
    Deck = {d1, d2}
    Body = {b1}
    Snapshot = {s1}
    NoHead = NoHead
    Nobody = Nobody
    Caller <- Callers
    FaultPoints = {"commit", "rollback", "apply", "acknowledge"}
    MaxFaults = 1
    MaxRunning = 1
    MaxCrashes = 1
SPECIFICATION Spec
CHECK_DEADLOCK FALSE
INVARIANTS
    TypeOK
    LimitCoversLateWork
    AbandonedLeavesNoHead
    PublishedIsListable
    ReconciledLeavesNothing
