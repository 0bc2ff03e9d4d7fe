SPECIFICATION Spec
CONSTANTS
    Client = {c1, c2}
    Branch = {main, dev}
    s1 = s1
    s2 = s2
    s3 = s3
    Snapshot = {s1, s2, s3}
    Ancestors <- ForkedHistory
    None = None
    MaxSeq = 3
    CheckpointInterval = 0
    MaxList = 5
    MaxCasRetries = 2
    MaxRestarts = 1
    Uploads = {"put_pack", "put_object"}
    MaxLost = 1
    MaxCalls = 2
INVARIANTS TypeOK ViewIsTruth RefsReadable AckedIsDurable
PROPERTIES ManifestAdvances ImplementsRemote
SYMMETRY Symmetry
