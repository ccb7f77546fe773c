CONSTANTS
    Ports = {p1}
    NoPort = NoPort
    PollIntervals <- OneInterval
    LeaseTicks = 2
    DebugTicks <- ShortPause
    ResumeRetryTicks = 1
    RetryDelay <- MCRetryDelay
    ElapsedCap = 2
    MaxInbox = 1
    MaxDumps = 1
    MaxUpsets = 1
    MaxMoves = 0
    LateFaults = FALSE
    ScanMayFail = FALSE
    MayStop = FALSE
SPECIFICATION Spec
PROPERTY CleanupNeverSpins
CHECK_DEADLOCK FALSE
