---------------------------- MODULE PresenceMoves ---------------------------
(***************************************************************************)
(* RedisPresence where users leave, and are kicked from, the room their    *)
(* index entry names, and no room is deleted: how far the store then keeps *)
(* the interface contract.  Requests interleave and every command may      *)
(* fail.                                                                   *)
(***************************************************************************)
EXTENDS RedisPresence

VARIABLES
    crossed,    \* history: crossed[q], users who joined the room of the leave in
                \* slot q after it counted no members and before it deletes the hash
    evicted     \* history: evicted[r], users of r whose entry such a DEL deleted

mvars == <<vars, crossed, evicted>>

MInit ==
    /\ Init
    /\ crossed = [q \in Reqs |-> {}]
    /\ evicted = [r \in Rooms |-> {}]

Deleting == {"srem", "del"}

MJoin(r, u) ==
    /\ JoinRoom(r, u)
    /\ crossed' = [q \in Reqs |-> IF req[q].room = r /\ req[q].pc \in Deleting
                                  THEN crossed[q] \union {u} ELSE crossed[q]]
    /\ evicted' = [s \in Rooms |-> evicted[s] \ {u}]

MRemove(q, r, u) ==
    /\ userRoom[u] = r
    /\ RemoveMember(q, r, u)
    /\ evicted' = [evicted EXCEPT ![r] = @ \ {u}]
    /\ UNCHANGED crossed

\* crossed[q] is kept as long as the DEL is still to come.
MStep(q) ==
    /\ RemoveStep(q) \/ CommandFails(q)
    /\ crossed' = [crossed EXCEPT ![q] = IF req'[q].pc \in Deleting THEN @ ELSE {}]
    /\ evicted' = [r \in Rooms |->
          evicted[r] \union ((members[r] \ members'[r]) \intersect crossed[q])]

\* The cleanup's ClearPendingEmpty, at any moment.
MClear(r) == ClearPendingEmpty(r) /\ UNCHANGED <<req, crossed, evicted>>

OwnRoomNext ==
    \/ \E r \in Rooms, u \in Users : MJoin(r, u)
    \/ \E q \in Reqs, r \in Rooms, u \in Users : MRemove(q, r, u)
    \/ \E q \in Reqs : MStep(q)
    \/ \E r \in Rooms : MClear(r)

OwnRoomSpec == MInit /\ [][OwnRoomNext]_mvars

----------------------------------------------------------------------------
\* The members, with those whose entry a leave's DEL deleted behind their back.
Present == [r \in Rooms |-> members[r] \union evicted[r]]

\* The script finds the room to leave through user:room alone: the entry names every
\* room that lists the user, and a user it names a room for is listed there, unless a
\* leave counted the room empty before he joined and deleted its hash afterwards.
IndexNamesRoom ==
    /\ \A r \in Rooms, u \in Users : u \in members[r] => userRoom[u] = r
    /\ \A u \in Users : userRoom[u] # NoRoom => u \in Present[userRoom[u]]

Contract == INSTANCE PresenceContract WITH occupants <- Present, home <- userRoom

\* With own-room leaves every Redis command sequence is a behaviour of the interface
\* contract without Clear, but for joins that fall between HLEN and DEL of a leave of
\* the same room (room_presence.go:109-115): these users, and nobody else, may
\* disappear from a room without a join or a leave of their own.
ImplementsContract == Contract!OpenSpec
=============================================================================
