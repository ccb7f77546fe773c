CONSTANTS
    Slots = {"orange", "dark", "fan"}
    First <- MCFirst
    Size <- MCSize
    NumCells = 8
    SectorCells = 4
    PageCells = 2
    MaxAttempts = 2
    MaxCalls = 1
    MaxUpsets = 1
    MaxMoves = 0
    LateAnswers = TRUE
SPECIFICATION Spec
INVARIANT WriteIsWhole
CHECK_DEADLOCK FALSE
