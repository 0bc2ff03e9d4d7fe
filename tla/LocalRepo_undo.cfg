SPECIFICATION Spec
CONSTANTS
    Snapshot = {s1, s2, s3}
    Tree = {t1}
    Main = main
    Branch = {main, dev}
    Pusher = {p1}
    None = None
    Torn = Torn
    Mixed = Mixed
    Marked = Marked
    MaxCommands = 6
    MaxPushes = 0
    MaxCrashes = 1
    MaxWindows = 0
    Environment = {"timely", "spared"}
INVARIANT UndoLaysCurrentBranch
CHECK_DEADLOCK FALSE
