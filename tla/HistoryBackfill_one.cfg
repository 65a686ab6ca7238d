CONSTANTS
    NumChunks = 1
    NumDates = 2
    Frames = {f1, f2, empty}
    EmptyFrame = empty
    None = none
    MaxAttempts = 3
    MaxRuns = 2
    MaxFaults = 2
    MaxTampers = 1
SPECIFICATION Spec
SYMMETRY FrameSymmetry
INVARIANTS
    TypeOK
    CompletedIsMaterialised
    SettledIsReported
    ReadyIsRecoverableUnlessRelabelled
    CanonicalIsStaged
    SlotsAheadAreFree
PROPERTIES
    EvidenceIsImmutable
    FinishedWorkIsNotRedone
    CanonicalIsWrittenAhead
CHECK_DEADLOCK FALSE
