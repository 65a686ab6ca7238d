SPECIFICATION FairSpec
CONSTANTS
    c1 = c1
    c2 = c2
    x = x
    Codes = {c1, c2}
    LastDate = 1
    Dates <- MCDates
    Vintages = {1, 2}
    Answers <- MCAnswers
    Datasets = {"daily_basic", "adj_factor", "st_history"}
    Batches = {x}
    ScopeOf <- NarrowScope
    DatesOf <- AllDates
    Goal13 <- MCGoal13
    Upstream <- MCUpstream
    Rewrites <- MCRewrites
    Corrections <- MCCorrections
    None = None
    RunIds = {1, 2, 3, 4}
    MaxLands = 1
    MaxEdits = 1
    MaxFaults = 1
INVARIANTS
    TypeOK
PROPERTIES
    AcceptedWasAudited
    Converges
CHECK_DEADLOCK FALSE
