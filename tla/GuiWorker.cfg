CONSTANTS
    NumChunks = 1
    MaxCommands = 2
    MaxUpsets = 1
    MaxMoves = 1
SPECIFICATION FairSpec
INVARIANTS CurrentDataOnly OneReadAtATime DrainedReadIsWhole
PROPERTIES StatusIsItsOwn ReadEnds ViewCatchesUp
CHECK_DEADLOCK FALSE
