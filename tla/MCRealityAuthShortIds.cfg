CONSTANTS
    a = a
    b = b
    c = c
    Sids = {a, b}
    ShortIds = {"server", "other"}
    ConfigShortId = "server"
    MaxTimeDiff = 1
    ReplayTtl = 4
    CacheMax = 1
    ClockSlip = 1
    MaxSec = 2
    MaxFrac = 0
SPECIFICATION Spec
INVARIANTS OwnShortIdWorks
