CONSTANTS
    Capacity = 2
    Pending = 1
    MaxSequence = 5
    NumSectors = 3
    SectorSize = 10
    PageSize = 5
    EntrySize = 3
    EmptyRunEnd = 2
    MaxTries = 2
    MaxUpsets = 2
    Flashes <- AllFlashes
    Samples <- OneFlash
SPECIFICATION Spec
INVARIANTS DecodesTheLog DestinationIsWhole FailureChangesNothing SuccessIsDurable
INVARIANTS LossIsSeen EventsFollowState
PROPERTY WatchCatchesUp
CHECK_DEADLOCK FALSE
