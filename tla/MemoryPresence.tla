--------------------------- MODULE MemoryPresence ---------------------------
(***************************************************************************)
(* internal/cache/memory/room_presence.go: presence under one mutex, so    *)
(* every method is one atomic step.  An absent entry of the Go map         *)
(* `members` is the empty set: an entry is created together with its first *)
(* user and deleted with its last one.                                     *)
(***************************************************************************)
CONSTANTS Rooms, Users, NoRoom

ASSUME NoRoomAssumption == NoRoom \notin Rooms

VARIABLES
    members,        \* roomID -> its users
    userRoom,       \* userID -> roomID, NoRoom where the map has no entry
    activeRooms,    \* rooms with at least one member
    pendingEmpty    \* rooms that became empty and await teardown

vars == <<members, userRoom, activeRooms, pendingEmpty>>

Init ==
    /\ members = [r \in Rooms |-> {}]
    /\ userRoom = [u \in Users |-> NoRoom]
    /\ activeRooms = {}
    /\ pendingEmpty = {}

----------------------------------------------------------------------------
(* removeMemberLocked, as the value each map has afterwards.               *)

WithoutMember(r, u) == [members EXCEPT ![r] = @ \ {u}]

\* The room loses its last member: it leaves activeRooms for pendingEmpty.
Empties(r, u) == members[r] # {} /\ members[r] \ {u} = {}

\* Plausible slip: forget that the user may by now be in another room.
UserRoomWithoutUnconditional(r, u) == [userRoom EXCEPT ![u] = NoRoom]
UserRoomWithout(r, u) ==
    IF members[r] # {} /\ userRoom[u] = r
    THEN [userRoom EXCEPT ![u] = NoRoom]
    ELSE userRoom

JoinRoom(r, u) ==
    LET prev  == userRoom[u]
        moves == prev # NoRoom /\ prev # r
        left  == IF moves THEN WithoutMember(prev, u) ELSE members
        gone  == IF moves /\ Empties(prev, u) THEN {prev} ELSE {}
    IN  /\ members' = [left EXCEPT ![r] = @ \union {u}]
        /\ userRoom' = [userRoom EXCEPT ![u] = r]
        /\ activeRooms' = (activeRooms \ gone) \union {r}
        /\ pendingEmpty' = (pendingEmpty \union gone) \ {r}

\* LeaveRoom; RemoveMember calls it.
LeaveRoom(r, u) ==
    LET gone == IF Empties(r, u) THEN {r} ELSE {}
    IN  /\ members' = WithoutMember(r, u)
        /\ userRoom' = UserRoomWithout(r, u)
        /\ activeRooms' = activeRooms \ gone
        /\ pendingEmpty' = pendingEmpty \union gone

DeleteRoomPresence(r) ==
    IF members[r] = {} THEN UNCHANGED vars
    ELSE /\ members' = [members EXCEPT ![r] = {}]
         /\ userRoom' = [u \in Users |->
               IF u \in members[r] /\ userRoom[u] = r THEN NoRoom ELSE userRoom[u]]
         /\ activeRooms' = activeRooms \ {r}
         /\ pendingEmpty' = pendingEmpty \ {r}

ClearPendingEmpty(r) ==
    /\ pendingEmpty' = pendingEmpty \ {r}
    /\ UNCHANGED <<members, userRoom, activeRooms>>

Next ==
    \E r \in Rooms :
        \/ DeleteRoomPresence(r)
        \/ ClearPendingEmpty(r)
        \/ \E u \in Users : JoinRoom(r, u) \/ LeaveRoom(r, u)

Spec == Init /\ [][Next]_vars

----------------------------------------------------------------------------
TypeOK ==
    /\ members \in [Rooms -> SUBSET Users]
    /\ userRoom \in [Users -> Rooms \union {NoRoom}]
    /\ activeRooms \subseteq Rooms
    /\ pendingEmpty \subseteq Rooms

\* The reverse index and the member maps describe the same relation.  JoinRoom
\* finds the room to leave through userRoom alone, so this is what makes a move
\* complete.
IndexAgrees == \A r \in Rooms, u \in Users : u \in members[r] <=> userRoom[u] = r

\* internal/cache/room_presence.go: "A user may appear in at most one room at a
\* time (enforced by JoinRoom)."
AtMostOneRoom ==
    \A u \in Users, r, s \in Rooms :
        u \in members[r] /\ u \in members[s] => r = s

\* Rooms the cleanup finds: occupied rooms are exactly the active ones, and a
\* room marked for teardown has nobody in it.
CandidatesAgree ==
    /\ activeRooms = {r \in Rooms : members[r] # {}}
    /\ pendingEmpty \intersect activeRooms = {}

\* The inductive strengthening of the three.
PresenceInv == TypeOK /\ IndexAgrees /\ CandidatesAgree

Contract == INSTANCE PresenceContract WITH occupants <- members, home <- userRoom

\* Every step of the mutex-protected store is a step of the interface contract:
\* a join takes the user out of every other room, a leave touches one user of one
\* room, and the index follows.
ImplementsContract == Contract!Spec
=============================================================================
