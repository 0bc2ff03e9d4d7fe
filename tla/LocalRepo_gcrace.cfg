SPECIFICATION Spec
CONSTANTS
    Snapshot = {s1, s2, s3}
    Tree = {t1}
    Main = main
    Branch = {main, dev}
    Pusher = {p1}
    None = None
    Torn = Torn
    Mixed = Mixed
    Marked = Marked
    MaxCommands = 2
    MaxPushes = 2
    MaxCrashes = 0
    MaxWindows = 1
    Environment = {"timely", "brisk"}
INVARIANT TipsReadable
CHECK_DEADLOCK FALSE
