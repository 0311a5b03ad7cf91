SPECIFICATION FairSpec
CONSTANTS
    Mutation = {m1, m2}
    NoRoot = NoRoot
    Truncated = Truncated
    Origins = {"fresh", "legacy"}
    MaxFence = 3
    MaxTx = 2
    MaxAuthority = 2
    FaultPoints = {"fillHighWater", "prepare", "root", "install", "complete"}
    MaxFaults = 2
INVARIANTS
    TypeOK
    NoLostCommit
    PublishedRootIsVerified
    MemoryMatchesDisk
PROPERTIES
    RootAdvances
    AtomicSpec
    ComesBack
CHECK_DEADLOCK FALSE
