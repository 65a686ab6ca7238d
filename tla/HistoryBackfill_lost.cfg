CONSTANTS
    NumChunks = 2
    NumDates = 1
    Frames = {f1, f2}
    EmptyFrame = empty
    None = none
    MaxAttempts = 3
    MaxRuns = 2
    MaxFaults = 1
    MaxTampers = 1
SPECIFICATION Spec
PROPERTIES
    LostStagingBlocksItsChunk
CHECK_DEADLOCK FALSE
