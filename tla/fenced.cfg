SPECIFICATION FencedFairSpec
CONSTANTS
    Process = {p1, p2}
    NoFile = NoFile
    Truncated = Truncated
    NotLoaded = NotLoaded
    MaxClaims = 4
    MaxIncarnation = 2
    MaxIoErrors = 1
    OneStarterAtATime = TRUE
    MaxCommits = 2
INVARIANTS TypeOK MutualExclusion
PROPERTIES FencingEpochAdvances CommitsSurvive ReadableLockIsReclaimed
CHECK_DEADLOCK FALSE
