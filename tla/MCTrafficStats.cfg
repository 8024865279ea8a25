CONSTANTS
    capped = capped
    free = free
    Users = {capped, free}
    Limit <- Limits
    StatsInterval = 1
    SaveInterval = 2
    ClockSlip = 1
    MaxTraffic = 2
    MaxOpen = 1
    MaxTime = 10
    MaxStarts = 2
SPECIFICATION Spec
INVARIANTS TypeOK CleanMeansSaved SavedInTime
PROPERTIES QuotaDurable NeverRollsBack
CHECK_DEADLOCK FALSE
