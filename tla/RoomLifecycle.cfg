SPECIFICATION LFairSpec
CONSTANTS
    Rooms = {1, 2}
    Visited = {2}
    Users = {u1}
    NoRoom = NoRoom
    Reqs = {q1, job}
    Job = job
    ListAsked = 3
    PageMax = 2
    PageDefault = 1
INVARIANT TeardownComplete
PROPERTY EmptyRoomIsClosed
