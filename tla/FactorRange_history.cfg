SPECIFICATION FairSpec
CONSTANTS
    wide = wide
    narrow = narrow
    early = early
    late = late
    Runs = {wide}
    LastDate = 2
    Dates <- MCDates
    DatesOf <- MCDatesOf
    FactorRuns = {early}
    CatalogOf <- WideCatalog
    TargetsOf <- AllTargets
    None = None
    Open = Open
    MaxAttempts = 2
    MaxFactorAttempts = 4
    MaxFree = 0
    MaxFaults = 2
    MaxTampers = 0
INVARIANTS
    HistoryIsOfThePlan
PROPERTIES
    CompletesUnlessDrifted
CHECK_DEADLOCK FALSE
