CONSTANTS
    Ports = {p1}
    NoPort = NoPort
    PollIntervals <- TwoIntervals
    LeaseTicks = 2
    DebugTicks <- ShortPause
    ResumeRetryTicks = 1
    RetryDelay <- MCRetryDelay
    ElapsedCap = 4
    MaxInbox = 1
    MaxDumps = 1
    MaxUpsets = 1
    MaxMoves = 1
    LateFaults = FALSE
    ScanMayFail = FALSE
    MayStop = TRUE
SPECIFICATION FairSpec
PROPERTIES ImplementsDisplayPause AbandonedDumpCloses StableDeviceIsServed ShutdownCompletes
CHECK_DEADLOCK FALSE
