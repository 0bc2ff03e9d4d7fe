SPECIFICATION SeededSpec
CONSTANTS
    Client = {c1, c2}
    Pusher = {c1}
    Compactor = {c2}
    main = main
    Branch = {main}
    s1 = s1
    s2 = s2
    s3 = s3
    Snapshot = {s1, s2, s3}
    Ancestors <- LinearHistory
    None = None
    MaxSeq = 4
    CheckpointInterval = 0
    MaxList = 5
    MaxCasRetries = 2
    MaxRestarts = 1
    Uploads = {"put_pack"}
    MaxLost = 0
    MaxCalls = 3
    MaxAttempts = 2
    PackDeleteBatch = 1
    MaxWindows = 1
    Environment = {"timely"}
INVARIANT RefsReadable
