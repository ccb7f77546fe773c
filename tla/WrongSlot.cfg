CONSTANTS
    SAMPLE_LIMIT = 2
    Views = {"short"}
    WindowTicks <- MCWindowTicks
    ThemeSlots = {dark, orange}
    NoSlot = NoSlot
    MaxTime = 1
    MaxSamples = 0
    MaxEvents = 3
    MaxUses = 3
    MaxMoves = 0
SPECIFICATION Spec
PROPERTY WritesChosenSlot
