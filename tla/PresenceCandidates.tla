------------------------- MODULE PresenceCandidates -------------------------
(***************************************************************************)
(* The commands of RedisPresence by any number of requests and cleanups at *)
(* once, and the two sets a cleanup finds its rooms in: room:active and    *)
(* room:pending_empty.  Every command may fail.  Leaves and kicks may name *)
(* any room.                                                               *)
(***************************************************************************)
EXTENDS RedisPresence

\* History: rooms that, since they were last joined, were left with a SADD that failed
\* or a DEL that spared members, or were cleared on the strength of a count that no
\* longer held.
VARIABLE missed

cvars == <<vars, missed>>

CInit == Init /\ missed = {}

CJoin(r, u) == JoinRoom(r, u) /\ missed' = missed \ {r}

CRemove(q, r, u) == RemoveMember(q, r, u) /\ UNCHANGED missed

CStep(q) == RemoveStep(q) /\ UNCHANGED missed

\* A failed DEL matters when there are members, a failed SADD always; neither does
\* when a join has made the room active again.
CFails(q) ==
    LET r == req[q].room
    IN  /\ CommandFails(q)
        /\ missed' = IF \/ req[q].pc = "sadd"
                        \/ req[q].pc = "del" /\ members[r] # {}
                     THEN missed \union ({r} \ active)
                     ELSE missed

CDeleteRead(q, r) == DeleteRead(q, r) /\ UNCHANGED missed

\* The transaction, of a handler, or of closeEmptyRoom: the cleanup then clears the
\* mark once more.
CDelete(q) ==
    /\ DeleteExec(q)
    /\ Done(q) \/ req' = [req EXCEPT ![q] = At("clear", req[q].room, {})]
    /\ missed' = missed \ {req[q].room}

CCount(q, r) == CountMembers(q, r) /\ UNCHANGED missed

CClear(q) ==
    LET r == req[q].room
    IN  /\ req[q].pc = "clear"
        /\ ClearPendingEmpty(r)
        /\ Done(q)
        /\ missed' = IF members[r] = {} /\ r \in pending THEN missed \union ({r} \ active)
                                                         ELSE missed

Next ==
    \/ \E r \in Rooms, u \in Users : CJoin(r, u)
    \/ \E q \in Reqs, r \in Rooms, u \in Users : CRemove(q, r, u)
    \/ \E q \in Reqs, r \in Rooms : CDeleteRead(q, r) \/ CCount(q, r)
    \/ \E q \in Reqs : CStep(q) \/ CFails(q) \/ CDelete(q) \/ CClear(q)

Spec == CInit /\ [][Next]_cvars

----------------------------------------------------------------------------
\* Whatever the interleaving, a room with members is in room:active unless a leave
\* has just taken it out and is about to delete the hash, or that DEL failed.
OccupiedIsActive ==
    \A r \in Rooms :
        members[r] # {} => r \in active \/ r \in missed \/ InFlight(r, {"del"})

\* The cleanup finds rooms through room:active and room:pending_empty.  Between a
\* room's first join and the deletion of its presence it is always in one of them,
\* or the leave that moves it from one to the other is still running, unless a
\* command of that leave failed or a cleanup took the mark away that was set after
\* its count.  No interleaving of joins with SREM, DEL and SADD loses the room.
JoinedRoomIsCandidate ==
    \A r \in joined :
        \/ r \in active \union pending \union missed
        \/ InFlight(r, {"del", "sadd"})

\* The inductive form of the two.
CandidateInv == TypeOK /\ OccupiedIsActive /\ JoinedRoomIsCandidate

\* internal/cache/room_presence.go: "A user may appear in at most one room at a
\* time (enforced by JoinRoom)."
AtMostOneRoom ==
    \A u \in Users, r, s \in Rooms :
        u \in members[r] /\ u \in members[s] => r = s
=============================================================================
