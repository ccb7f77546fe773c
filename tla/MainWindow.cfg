CONSTANTS
    SAMPLE_LIMIT = 2
    Views = {"short", "long"}
    WindowTicks <- MCWindowTicks
    ThemeSlots = {dark, orange}
    NoSlot = NoSlot
    MaxTime = 1
    MaxSamples = 3
    MaxEvents = 2
    MaxUses = 1
    MaxMoves = 1
SPECIFICATION Spec
SYMMETRY SymmetricSlots
INVARIANTS GraphIsCurrent SamplesAreNew FormIsTrue RunningEnds
