SPECIFICATION MCSpec
CONSTANTS
    NoVideo = NoVideo
    NoState = NoState
    NoRead = NoRead
    a = a
    b = b
    c = c
    Reqs = {q1, q2}
    Msgs <- PlayMsgs
    MaxVersion = 3
    MaxNow = 4
INVARIANTS
    ProjectionComposes
    NextPlaysAll
    ViewsHonest
    VersionsInOrder
PROPERTY PassedIsCurrent
SYMMETRY ReqSymmetry
CHECK_DEADLOCK FALSE
