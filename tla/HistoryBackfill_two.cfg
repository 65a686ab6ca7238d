CONSTANTS
    NumChunks = 2
    NumDates = 1
    Frames = {f1}
    EmptyFrame = empty
    None = none
    MaxAttempts = 6
    MaxRuns = 1
    MaxFaults = 2
    MaxTampers = 0
SPECIFICATION FairSpec
PROPERTIES
    RunsEnd
    ConvergesOrIsWedged
    ImplementsLedger
