SPECIFICATION FairSpec
CONSTANTS
    early = early
    late = late
    Runs = {early, late}
    LastDate = 2
    DatesOf <- OverlappingDates
    OutputCount = 2
    None = None
    MaxAttempts = 4
    MaxFree = 1
    MaxFaults = 1
    MaxTampers = 1
INVARIANTS
    TypeOK
    CommittedIsComplete
    ClosedManifestIsBacked
PROPERTIES
    ResumeReplacesNothing
    DryRunPublishesNothing
    ImplementsEvidence
    Converges
CHECK_DEADLOCK FALSE
