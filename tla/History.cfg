CONSTANTS
    Clients = {c1, c2}
    Nobody = Nobody
    Mortal = {c1}
    NumChunks = 1
    NumPages = 1
    MaxAttempts = 2
    LeaseTicks = 1
    MaxBegins = 2
    MaxUpsets = 1
    MaxMoves = 2
    MaxMishaps = 2
    MayStop = TRUE
SPECIFICATION FairSpec
INVARIANTS CancelledForAReason
PROPERTIES ImplementsDumpLending EndedDumpIsQuiet ShutdownIsQuiet EndIsAnswered AbandonedDumpIsClosed
CHECK_DEADLOCK FALSE
