CONSTANTS
    Deck = {d1, d2}
    Body = {b1}
    Snapshot = {s1, s2}
    NoHead = NoHead
    Nobody = Nobody
    NoSnapshot = NoSnapshot
    Caller <- Callers
    FaultPoints = {}
    MaxFaults = 1
    SnapshotCap = 1
    Workloads = {{"pair", "snapshot", "restore", "delete"}}
    MaxPairGen = 2
    MaxGen = 2
    MaxCrashes = 0
SPECIFICATION Spec
INVARIANTS
    RollbackStaysRecoverable
