SPECIFICATION Spec
CONSTANTS
    wide = wide
    narrow = narrow
    early = early
    late = late
    Runs = {wide, narrow}
    LastDate = 1
    Dates <- MCDates
    DatesOf <- MCDatesOf
    FactorRuns = {early, late}
    CatalogOf <- BothCatalogs
    TargetsOf <- AllTargets
    None = None
    Open = Open
    MaxAttempts = 1
    MaxFactorAttempts = 2
    MaxFree = 1
    MaxFaults = 1
    MaxTampers = 1
INVARIANTS
    TypeOK
    CommittedIsComplete
PROPERTIES
    ImplementsEvidence
CHECK_DEADLOCK FALSE
