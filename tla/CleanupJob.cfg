SPECIFICATION FairSpec
CONSTANTS
    Jobs = {p1, p2}
    Interval = 5
    LockTTL = 2
    JobTimeout = 5
INVARIANTS
    ExclusionUnlessOverrun
    EarlyJobIsOld
PROPERTY CleanupRecurs
