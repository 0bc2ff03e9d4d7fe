SPECIFICATION FairSpec
CONSTANTS
    Client = {c1, c2}
    Branch = {main, dev}
    s1 = s1
    s2 = s2
    s3 = s3
    Snapshot = {s1, s2}
    Ancestors <- LinearHistory
    None = None
    MaxSeq = 3
    CheckpointInterval = 0
    MaxList = 5
    MaxCasRetries = 2
    MaxRestarts = 1
    Uploads = {"put_pack"}
    MaxLost = 0
    MaxCalls = 2
PROPERTY CallsReturn
