---------------------------- MODULE RedisPresence ---------------------------
(***************************************************************************)
(* internal/cache/redis/room_presence.go: the same store on Redis.  A join *)
(* is one Lua script, hence atomic.  removeMember (LeaveRoom, RemoveMember)*)
(* is a transaction followed by up to four separate commands, and          *)
(* DeleteRoomPresence reads the members before the transaction that uses   *)
(* them: requests interleave between those commands.  An empty Redis hash  *)
(* does not exist, so members[r] = {} is the absent key.                   *)
(*                                                                         *)
(* This module has the commands.  PresenceCandidates, PresenceMoves and    *)
(* PresenceExpiry put them together to specifications, RoomLifecycle to    *)
(* the handlers that issue them.                                           *)
(***************************************************************************)
CONSTANTS Rooms, Users, NoRoom,
          Reqs          \* slots for requests that are between two commands

ASSUME NoRoomAssumption == NoRoom \notin Rooms

VARIABLES
    members,        \* hash room:members:<r>
    userRoom,       \* string user:room:<u>, NoRoom when the key is absent
    active,         \* set room:active
    pending,        \* set room:pending_empty
    req,            \* req[q]: the request in slot q and its next command
    joined          \* history: rooms joined since their presence was last deleted

keys == <<members, userRoom, active, pending>>
vars == <<keys, req, joined>>

Idle == [pc |-> "idle", room |-> NoRoom, seen |-> {}]
At(pc, r, seen) == [pc |-> pc, room |-> r, seen |-> seen]

Init ==
    /\ members = [r \in Rooms |-> {}]
    /\ userRoom = [u \in Users |-> NoRoom]
    /\ active = {}
    /\ pending = {}
    /\ req = [q \in Reqs |-> Idle]
    /\ joined = {}

Goto(q, label) == req' = [req EXCEPT ![q].pc = label]
Done(q) == req' = [req EXCEPT ![q] = Idle]

----------------------------------------------------------------------------
(* JoinRoom: joinScriptMigrate.                                            *)

\* Slip: the script marks the old room but does not take the user out of it.
JoinRoomKeepsOld(r, u) ==
    /\ members' = [members EXCEPT ![r] = @ \union {u}]
    /\ userRoom' = [userRoom EXCEPT ![u] = r]
    /\ active' = active \union {r}
    /\ pending' = pending \ {r}
    /\ joined' = joined \union {r}
    /\ UNCHANGED req
JoinRoom(r, u) ==
    LET old   == userRoom[u]
        moves == old # NoRoom /\ old # r
        left  == IF moves THEN [members EXCEPT ![old] = @ \ {u}] ELSE members
        gone  == IF moves /\ left[old] = {} THEN {old} ELSE {}
    IN  /\ members' = [left EXCEPT ![r] = @ \union {u}]
        /\ userRoom' = [userRoom EXCEPT ![u] = r]
        /\ active' = (active \ gone) \union {r}
        /\ pending' = (pending \union gone) \ {r}
        /\ joined' = joined \union {r}
        /\ UNCHANGED req

----------------------------------------------------------------------------
(* removeMember.                                                           *)

\* Slip: without MULTI the second command can be the only one that takes effect.
RemoveIndexOnly(q, r, u) ==
    /\ req[q] = Idle
    /\ userRoom' = [userRoom EXCEPT ![u] = NoRoom]
    /\ req' = [req EXCEPT ![q] = At("hlen", r, {})]
    /\ UNCHANGED <<members, active, pending, joined>>
\* MULTI: HDEL of the member, DEL of user:room whatever room it names.
RemoveMember(q, r, u) ==
    /\ req[q] = Idle
    /\ members' = [members EXCEPT ![r] = @ \ {u}]
    /\ userRoom' = [userRoom EXCEPT ![u] = NoRoom]
    /\ req' = [req EXCEPT ![q] = At("hlen", r, {})]
    /\ UNCHANGED <<active, pending, joined>>

\* Slip: the room is given up whoever is left in it.
RemoveCountAnyway(q) ==
    /\ req[q].pc = "hlen"
    /\ Goto(q, "srem")
    /\ UNCHANGED <<keys, joined>>
\* HLEN decides whether the empty-room commands follow.
RemoveCount(q) ==
    /\ req[q].pc = "hlen"
    /\ IF members[req[q].room] = {} THEN Goto(q, "srem") ELSE Done(q)
    /\ UNCHANGED <<keys, joined>>

RemoveDeactivate(q) ==
    /\ req[q].pc = "srem"
    /\ active' = active \ {req[q].room}
    /\ Goto(q, "del")
    /\ UNCHANGED <<members, userRoom, pending, joined>>

\* Slip: spare a hash that has members again, after room:active lost the room.
RemoveKeyIfEmpty(q) ==
    /\ req[q].pc = "del"
    /\ Goto(q, "sadd")
    /\ UNCHANGED <<keys, joined>>
\* DEL of the hash, which may have members again by now.
RemoveKey(q) ==
    /\ req[q].pc = "del"
    /\ members' = [members EXCEPT ![req[q].room] = {}]
    /\ Goto(q, "sadd")
    /\ UNCHANGED <<userRoom, active, pending, joined>>

\* Slip: mark the room only while room:active still lists it.
RemoveMarkIfActive(q) ==
    /\ req[q].pc = "sadd"
    /\ pending' = pending \union ({req[q].room} \intersect active)
    /\ Done(q)
    /\ UNCHANGED <<members, userRoom, active, joined>>
RemoveMark(q) ==
    /\ req[q].pc = "sadd"
    /\ pending' = pending \union {req[q].room}
    /\ Done(q)
    /\ UNCHANGED <<members, userRoom, active, joined>>

----------------------------------------------------------------------------
(* DeleteRoomPresence: HGETALL, then MULTI over the members it returned.   *)

DeleteRead(q, r) ==
    /\ req[q] = Idle
    /\ req' = [req EXCEPT ![q] = At("exec", r, members[r])]
    /\ UNCHANGED <<keys, joined>>

DeleteExec(q) ==
    LET r == req[q].room
    IN  /\ req[q].pc = "exec"
        /\ members' = [members EXCEPT ![r] = {}]
        /\ userRoom' = [u \in Users |-> IF u \in req[q].seen THEN NoRoom
                                                             ELSE userRoom[u]]
        /\ active' = active \ {r}
        /\ pending' = pending \ {r}
        /\ joined' = joined \ {r}

----------------------------------------------------------------------------
(* RunEmptyRoomCleanup's use of the store: MemberCount of a candidate, and *)
(* a later ClearPendingEmpty when it was not 0.                            *)

\* MemberCount finds the room occupied.  One that it finds empty is closed.
CountMembers(q, r) ==
    /\ req[q] = Idle
    /\ members[r] # {}
    /\ req' = [req EXCEPT ![q] = At("clear", r, {})]
    /\ UNCHANGED <<keys, joined>>

ClearPendingEmpty(r) ==
    /\ pending' = pending \ {r}
    /\ UNCHANGED <<members, userRoom, active, joined>>

----------------------------------------------------------------------------
\* A command fails.  removeMember returns the error of HLEN and ignores those of SREM,
\* DEL and SADD: the next one is tried all the same.  When a client hangs up, all the
\* commands its request has left fail.
CommandFails(q) ==
    /\ req[q] # Idle
    /\ CASE req[q].pc = "srem" -> Goto(q, "del")
         [] req[q].pc = "del"  -> Goto(q, "sadd")
         [] OTHER              -> Done(q)
    /\ UNCHANGED <<keys, joined>>

----------------------------------------------------------------------------
RemoveStep(q) ==
    RemoveCount(q) \/ RemoveDeactivate(q) \/ RemoveKey(q) \/ RemoveMark(q)

TypeOK ==
    /\ members \in [Rooms -> SUBSET Users]
    /\ userRoom \in [Users -> Rooms \union {NoRoom}]
    /\ active \subseteq Rooms
    /\ pending \subseteq Rooms
    /\ joined \subseteq Rooms
    /\ req \in [Reqs -> {Idle} \union
                [pc : {"hlen", "srem", "del", "sadd", "exec", "clear"},
                 room : Rooms, seen : SUBSET Users]]

InFlight(r, labels) == \E q \in Reqs : req[q].room = r /\ req[q].pc \in labels
=============================================================================
