-------------------------- MODULE PresenceContract --------------------------
(***************************************************************************)
(* What the interface cache.RoomPresence promises, without its candidate   *)
(* sets: every user is in at most one room, joining moves the user,        *)
(* leaving and kicking act on the named user and room only, closing a room *)
(* empties it.  The two implementations (MemoryPresence, RedisPresence)    *)
(* are compared with this module.                                          *)
(***************************************************************************)
CONSTANTS Rooms, Users, NoRoom

VARIABLES
    occupants,      \* occupants[r]: the users ListMembers shows in room r
    home            \* home[u]: the room GetUserRoom gives, NoRoom when none

contractVars == <<occupants, home>>

Init ==
    /\ occupants = [r \in Rooms |-> {}]
    /\ home = [u \in Users |-> NoRoom]

\* JoinRoom: "atomically leaves the previous room (if any), then joins".
Join(r, u) ==
    /\ occupants' = [s \in Rooms |-> IF s = r THEN occupants[s] \union {u}
                                              ELSE occupants[s] \ {u}]
    /\ home' = [home EXCEPT ![u] = r]

\* LeaveRoom and RemoveMember.
Leave(r, u) ==
    /\ occupants' = [occupants EXCEPT ![r] = @ \ {u}]
    /\ home' = IF home[u] = r THEN [home EXCEPT ![u] = NoRoom] ELSE home

\* DeleteRoomPresence.
Clear(r) ==
    /\ occupants' = [occupants EXCEPT ![r] = {}]
    /\ home' = [u \in Users |-> IF home[u] = r THEN NoRoom ELSE home[u]]

Move == \E r \in Rooms, u \in Users : Join(r, u) \/ Leave(r, u)

Next == Move \/ \E r \in Rooms : Clear(r)

Spec == Init /\ [][Next]_contractVars

\* While no room is deleted: nobody disappears from a room but by a join or a leave
\* of his own.
OpenSpec == Init /\ [][Move]_contractVars
=============================================================================
