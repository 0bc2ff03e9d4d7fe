SPECIFICATION ReplaySpec
CONSTANTS
    RangeLen = 2
    MaxReplays = 1
    MaxReplayCrashes = 1
INVARIANT StoppedRebaseCanEnd
