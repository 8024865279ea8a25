CONSTANTS
    a = a
    b = b
    c = c
    Sids = {a, b, c}
    ShortIds = {"server", "other"}
    ConfigShortId = "server"
    MaxTimeDiff = 1
    ReplayTtl = 4
    CacheMax = 2
    ClockSlip = 1
    MaxSec = 6
    MaxFrac = 0
SYMMETRY SidSymmetry
SPECIFICATION Spec
INVARIANTS TypeOK NoReplay NoFalseReplay
PROPERTIES BoundedAge
