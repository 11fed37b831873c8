SPECIFICATION Spec
CONSTANTS
    Rooms = {r1, r2}
    Users = {u1, u2}
    Reqs = {q1, q2}
    NoRoom = NoRoom
INVARIANT AtMostOneRoom
