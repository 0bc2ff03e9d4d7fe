SPECIFICATION LiveSpec
CONSTANTS
    Process = {p1, p2, p3}
    NoPid = NoPid
    Absent = Absent
    MaxCrashes = 2
    Pull = {pr1}
    NoPull = NoPull
    Attempts = 2
    Rewritable = TRUE
    HeadsReturn = FALSE
    MaxHeads = 1
    MaxIntents = 1
    MaxMade = 2
    MaxReceives = 1
    MaxWork = 2
    MaxDeaths = 1
    RangeLen = 2
    MaxReplays = 1
    MaxReplayCrashes = 1
INVARIANTS LiveTypeOK ExclusiveUntilCrash StopReadable
PROPERTIES ReplayLandsWhole StaleLockIsBroken MergesSettle
