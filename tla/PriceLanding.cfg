SPECIFICATION FairSpec
CONSTANTS
    Codes = {"c1"}
    Dates = {1, 2}
    Interfaces <- MCInterfaces
    ByDate <- MCByDate
    MaxVintage = 2
    Quotes <- MCQuotes
    Paused <- MCPaused
    Requests <- MCRequests
    Goal <- Wide
    None = None
    Other = Other
    MaxEdits = 2
    MaxFaults = 2
    MaxTroubles = 3
INVARIANTS
    TypeOK
    PromotedIsTrue
PROPERTIES
    Completes
CHECK_DEADLOCK FALSE
