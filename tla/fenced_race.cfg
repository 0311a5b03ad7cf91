SPECIFICATION FencedSpec
CONSTANTS
    Process = {p1, p2}
    NoFile = NoFile
    Truncated = Truncated
    NotLoaded = NotLoaded
    MaxClaims = 5
    MaxIncarnation = 2
    MaxIoErrors = 0
    OneStarterAtATime = FALSE
    MaxCommits = 1
PROPERTY LoserNeverPublishes
CHECK_DEADLOCK FALSE
