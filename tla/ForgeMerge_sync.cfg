SPECIFICATION MergeSpec
CONSTANTS
    Pull = {p1}
    NoPull = NoPull
    Attempts = 1
    Rewritable = FALSE
    HeadsReturn = FALSE
    MaxHeads = 2
    MaxIntents = 1
    MaxMade = 0
    MaxReceives = 2
    MaxWork = 2
    MaxDeaths = 0
PROPERTY SyncKeepsNewerHead
CHECK_DEADLOCK FALSE
