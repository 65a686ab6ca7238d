SPECIFICATION Spec
CONSTANTS
    wide = wide
    narrow = narrow
    early = early
    late = late
    Runs = {wide, narrow}
    LastDate = 2
    Dates <- MCDates
    DatesOf <- MCDatesOf
    FactorRuns = {early}
    CatalogOf <- WideCatalog
    TargetsOf <- AllTargets
    None = None
    Open = Open
    MaxAttempts = 1
    MaxFactorAttempts = 2
    MaxFree = 0
    MaxFaults = 0
    MaxTampers = 0
INVARIANTS
    ChangedHistoryBlocks
CHECK_DEADLOCK FALSE
