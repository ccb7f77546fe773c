CONSTANTS
    Slots = {"orange", "dark", "fan"}
    First <- MCFirst
    Size <- MCSize
    NumCells = 8
    SectorCells = 4
    PageCells = 2
    MaxAttempts = 2
    MaxCalls = 2
    MaxUpsets = 2
    MaxMoves = 1
    LateAnswers = FALSE
SPECIFICATION FairSpec
INVARIANTS WriteIsWhole FailureIsClean
PROPERTIES ErasedOnlyWhenSaved ImplementsThemeStore CallsEnd
CHECK_DEADLOCK FALSE
