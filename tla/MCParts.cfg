SPECIFICATION MCSpec
CONSTANTS
    DefaultPage = 2
    MaxPage = 3
    Limits = {0, 1, 2, 3, 4}
    MaxId = 7
    Calls = {c1, c2}
    PerSecond = 2
    Second = 3
    MaxWait = 1
    MaxTime = 10
    MaxIncrs = 7
    Limit = 2
    Win = 3
    Interval = 2
    MaxLimitTime = 8
    MaxCalls = 5
    Rooms = {r1, r2}
    Users = {u1, u2}
    NoRoom = NoRoom
    Reqs = {q1, q2}
    Visitors = {u1}
    Slots = {q1}
    MemberTTL = 2
    GlobalTTL = 3
    Requests = {w1, w2}
    Tasks = {t1}
    Absent = Absent
    Blank = Blank
    Bad = Bad
    Numbers <- Given
    Standard = 4
    Day = 6
INVARIANTS
    PagesFit
    RateKept
    CandidatesKept
    OneRoomUnlessLapsed
    ClosesInOrder
    ConfigSound
PROPERTIES
    LimitKept
    Ends
CHECK_DEADLOCK FALSE
