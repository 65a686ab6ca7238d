SPECIFICATION FairSpec
CONSTANTS
    LastDay = 5
    WindowDays = 2
    Open = {1, 3}
    Keys = {"seed", "q1", "q2", "q3"}
    DayOf <- MCDayOf
    MaxVintage = 2
    Announced <- MCAnnounced
    None = None
    MaxEdits = 1
    MaxFaults = 2
INVARIANTS
    TypeOK
    CompletedRunLanded
PROPERTIES
    Completes
CHECK_DEADLOCK FALSE
