SPECIFICATION FairSpec
CONSTANTS
    Senders = {s1, s2}
    Drainers = {d1}
    Sizes = {"fits", "gap", "big"}
    PendingMax = 1
    StreamMax = 1
    DrainBatch = 2
    MaxMsgs = 3
PROPERTY PendingDrains
CHECK_DEADLOCK FALSE
