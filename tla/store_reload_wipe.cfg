SPECIFICATION Spec
CONSTANTS
    Mutation = {m1, m2}
    NoRoot = NoRoot
    Truncated = Truncated
    Origins = {"fresh"}
    MaxFence = 2
    MaxTx = 3
    MaxAuthority = 1
    FaultPoints = {"reload"}
    MaxFaults = 1
INVARIANT NoLostCommit
CHECK_DEADLOCK FALSE
