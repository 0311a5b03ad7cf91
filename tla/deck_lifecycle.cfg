CONSTANTS
    Deck = {d1, d2}
    Body = {b1, b2}
    Snapshot = {s1, s2}
    NoHead = NoHead
    Nobody = Nobody
    NoSnapshot = NoSnapshot
    Caller <- Callers
    FaultPoints = {"commit", "quarantine", "splice", "release", "file", "apply",
                   "acknowledge"}
    MaxFaults = 1
    SnapshotCap = 1
    Workloads = {{"save", "export", "delete", "crash", "commit", "quarantine", "splice",
                  "apply", "acknowledge"},
                 {"save", "snapshot", "restore", "remove", "delete", "file",
                  "release", "acknowledge"},
                 {"save", "snapshot", "restore", "remove", "delete", "crash"},
                 {"snapshot", "restore", "remove", "delete", "crash", "file", "release"},
                 {"save", "export", "snapshot", "restore", "delete", "commit"},
                 {"pair", "single", "snapshot", "restore", "delete", "splice"}}
    MaxPairGen = 2
    MaxGen = 3
    MaxCrashes = 1
SPECIFICATION FairSpec
INVARIANTS
    TypeOK
    RowsMatchHeads
    NoCommitIsOverwritten
    HeadsAreServable
    SnapshotsAreRestorable
    DeletedLeavesNothing
PROPERTIES
    RowsNeverGoBack
    RowsCatchUp
