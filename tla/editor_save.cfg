SPECIFICATION FairSpec
CONSTANTS
    Edit = {e1, e2}
    Large = {e2}
    RemoteEdit = {r1}
    NoEntry = NoEntry
    Workloads = {{"remote", "switch"}, {"remote", "unmount"}, {"remote", "close"}, {"defer", "close"}, {"export"}}
    MaxSaves = 3
    MaxLoss = 1
    MaxLeave = 1
    MaxExport = 1
INVARIANTS
    TypeOK
    NoEditVanishes
    NoSilentOverwrite
PROPERTIES
    OlderNeverOverNewer
    SavingSettles
CHECK_DEADLOCK FALSE
