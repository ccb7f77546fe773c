CONSTANTS
    Clients = {c1}
    NumParts = 2
    Values <- MCValues
    Defaults <- MCDefaults
    Blank = Blank
    Odd = Odd
    NoCall = NoCall
    Nobody = Nobody
    MaxCalls = 3
    MaxUpsets = 1
    MaxMoves = 0
    MayCrash = FALSE
SPECIFICATION Spec
PROPERTY SavedSurvivesRollback
CHECK_DEADLOCK FALSE
