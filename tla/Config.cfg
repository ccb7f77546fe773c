CONSTANTS
    Clients = {c1, c2}
    NumParts = 2
    Values <- MCValues
    Defaults <- MCDefaults
    Blank = Blank
    Odd = Odd
    NoCall = NoCall
    Nobody = Nobody
    MaxCalls = 3
    MaxUpsets = 1
    MaxMoves = 1
    MayCrash = TRUE
SPECIFICATION Spec
SYMMETRY SymmetricClients
PROPERTIES WritesOverWhatWasShown MutationsSpaced ImplementsConfigStore
CHECK_DEADLOCK FALSE
