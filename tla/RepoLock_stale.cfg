SPECIFICATION LockSpec
CONSTANTS
    Process = {p1, p2, p3}
    NoPid = NoPid
    Absent = Absent
    MaxCrashes = 1
INVARIANT MutualExclusion
