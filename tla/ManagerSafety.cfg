CONSTANTS
    Ports = {p1, p2}
    NoPort = NoPort
    PollIntervals <- OneInterval
    LeaseTicks = 2
    DebugTicks <- ShortPause
    ResumeRetryTicks = 1
    RetryDelay <- MCRetryDelay
    ElapsedCap = 2
    MaxInbox = 1
    MaxDumps = 2
    MaxUpsets = 1
    MaxMoves = 2
    LateFaults = FALSE
    ScanMayFail = TRUE
    MayStop = TRUE
SPECIFICATION Spec
SYMMETRY SymmetricPorts
INVARIANTS DumpIsCurrent PauseAccounted DetachedIsClean PauseRecordIsTrue
PROPERTY ImplementsPauseSteps
CHECK_DEADLOCK FALSE
