SPECIFICATION RepositoriesSpec
CONSTANTS
    Snapshot = {s1, s2, s3, s4}
    s1 = s1
    s2 = s2
    s3 = s3
    s4 = s4
    dev = dev
    Tree = {t1}
    Main = main
    Branch = {main, dev}
    Pusher = {p1}
    None = None
    Torn = Torn
    Mixed = Mixed
    Marked = Marked
    MaxCommands = 3
    MaxPushes = 1
    MaxCrashes = 1
    MaxWindows = 1
    Environment = {"spared"}
    Ws = {1, 2}
    Path = {f, g}
    MaxHostEdits = 2
    MaxEdits = 1
    MaxChanges = 2
    MaxCommits = 4
    MaxKills = 1
    Thread = {w1, w2, w3}
    MaxIds = 2
    MaxRequests = 4
    MaxOutages = 1
INVARIANTS
    RepositoriesTypeOK
    TipsReadable UndoNeverDangles LastOperationIsLogged
    StoppedMergeCanFinish CompletionExtendsStop
    SessionReadable HarvestOnlyEdits EditsStay ResumeNeverStuck
    LiveHasDirectory NoUseAfterDelete NoRequestDeadlock
PROPERTIES OnlyEditingRewinds HarvestKeepsEdits StartsClean
SYMMETRY FileSymmetry
CHECK_DEADLOCK FALSE
