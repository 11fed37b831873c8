SPECIFICATION Spec
CONSTANTS
    Senders = {s1, s2}
    Drainers = {d1, d2}
    Sizes = {"fits", "gap", "big"}
    PendingMax = 1
    StreamMax = 2
    DrainBatch = 2
    MaxMsgs = 4
INVARIANTS
    PendingBound
    NoMessageLost
    SeqsDistinct
CHECK_DEADLOCK FALSE
