SPECIFICATION MCSpec
CONSTANTS
    Rooms = {r1, r2, r3}
    Users = {u1, u2, u3}
    NoRoom = NoRoom
    Subs = {s1, s2}
    Msgs = {m1, m2}
    Cap = 1
    Granted = {g1}
    SessionTTLs = {0, 2}
    StateTTL = 1
    AccessTTL = 2
    LockTTL = 2
    MaxTime = 4
INVARIANTS
    PresenceInv
    SurvivesUnlessCrossed
    ExactlyOnce
    DoublesAgree
PROPERTY ImplementsContract
CHECK_DEADLOCK FALSE
