SPECIFICATION Spec
CONSTANTS
    Edit = {e1, e2}
    Large = {e2}
    RemoteEdit = {r1}
    NoEntry = NoEntry
    Workloads = {{"remote", "export"}}
    MaxSaves = 3
    MaxLoss = 1
    MaxLeave = 1
    MaxExport = 1
INVARIANT NoSilentOverwrite
CHECK_DEADLOCK FALSE
