CONSTANTS
    Conns <- Pair
    MaxChunks = 1
    BackupCount = 3
    MaxBytes = 4
    Every = 2
    LineSizes <- Short
    MaxGens = 7
    MaxStarts = 3
    MaxFaults = 2
    Uuids <- Three
    Owns <- TwoOwns
    Procs <- Twins
    SameDir = TRUE
    Alone = TRUE
    Launches <- AllLaunches
    MaxRuns = 6
    Keys <- SomeKeys
    Tables <- SmallTables
    Names <- AllNames
    Dests <- ManyDests
    Portless <- Bare
    Default = "mask"
SPECIFICATION AllSpec
INVARIANTS AllTypesOK SavedAtLast NewestKept UsersAsTold MostSpecific
PROPERTIES StopsCleanly AddedIsServed
CHECK_DEADLOCK FALSE
