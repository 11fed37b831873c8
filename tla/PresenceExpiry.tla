--------------------------- MODULE PresenceExpiry ---------------------------
(***************************************************************************)
(* PresenceCandidates with the TTLs of its four kinds of keys.  A join     *)
(* renews the room's members, the user's index entry and room:active for   *)
(* seven days; nothing else does, so entries written by one join can       *)
(* expire at different times: another user's join prolongs the hash but    *)
(* not the index.  There is no notice of an expiry.  No heartbeat exists.  *)
(***************************************************************************)
EXTENDS PresenceCandidates, Naturals

CONSTANTS
    MemberTTL,   \* roomMemberTTL (7 days)
    GlobalTTL    \* globalKeyTTL (30 days)

ExpiryAssumption == {MemberTTL, GlobalTTL} \subseteq Nat \ {0}

VARIABLES
    roomTTL,     \* roomTTL[r]: what is left to room:members:<r>, 0: no such key
    userTTL,     \* userTTL[u]: what is left to user:room:<u>
    activeTTL,   \* what is left to room:active
    pendingTTL,  \* what is left to room:pending_empty
    lapsed,      \* history: users whose index expired while a room listed them
    forgotten    \* history: rooms that an expiring room:active or
                 \* room:pending_empty took with it

ttls == <<roomTTL, userTTL, activeTTL, pendingTTL>>
evars == <<cvars, ttls, lapsed, forgotten>>

EInit ==
    /\ CInit
    /\ roomTTL = [r \in Rooms |-> 0] /\ userTTL = [u \in Users |-> 0]
    /\ activeTTL = 0 /\ pendingTTL = 0
    /\ lapsed = {} /\ forgotten = {}

\* Redis drops a hash or a set with its last element, and the TTL with it.
KeepTTLs ==
    /\ roomTTL' = [r \in Rooms |-> IF members'[r] = {} THEN 0 ELSE roomTTL[r]]
    /\ userTTL' = [u \in Users |-> IF userRoom'[u] = NoRoom THEN 0 ELSE userTTL[u]]
    /\ activeTTL' = IF active' = {} THEN 0 ELSE activeTTL
    /\ forgotten' = forgotten \ (active' \union pending')
    /\ UNCHANGED lapsed

\* Slip: the script puts a TTL on room:active when it creates the set, not again.
EJoinActiveOnce(r, u) ==
    LET old == userRoom[u]
    IN  /\ CJoin(r, u)
        /\ roomTTL' = [s \in Rooms |->
              IF s = r THEN MemberTTL ELSE IF members'[s] = {} THEN 0 ELSE roomTTL[s]]
        /\ userTTL' = [userTTL EXCEPT ![u] = MemberTTL]
        /\ activeTTL' = IF activeTTL = 0 THEN MemberTTL ELSE activeTTL
        /\ pendingTTL' = IF pending' = {} THEN 0
                         ELSE IF old \notin {NoRoom, r} /\ members'[old] = {} THEN GlobalTTL
                         ELSE pendingTTL
        /\ forgotten' = forgotten \ (active' \union pending')
        /\ UNCHANGED lapsed
\* joinScriptMigrate with its four EXPIREs.
EJoin(r, u) ==
    LET old == userRoom[u]
    IN  /\ CJoin(r, u)
        /\ roomTTL' = [s \in Rooms |->
              IF s = r THEN MemberTTL ELSE IF members'[s] = {} THEN 0 ELSE roomTTL[s]]
        /\ userTTL' = [userTTL EXCEPT ![u] = MemberTTL]
        /\ activeTTL' = MemberTTL
        /\ pendingTTL' = IF pending' = {} THEN 0
                         ELSE IF old \notin {NoRoom, r} /\ members'[old] = {} THEN GlobalTTL
                         ELSE pendingTTL
        /\ forgotten' = forgotten \ (active' \union pending')
        /\ UNCHANGED lapsed

\* The steps that leave room:pending_empty's TTL alone.
EStep(A) == A /\ KeepTTLs /\ pendingTTL' = (IF pending' = {} THEN 0 ELSE pendingTTL)

\* removeMember after its transaction.  The last two commands are SADD, and EXPIRE,
\* whose error is ignored.
ERemoveStep(q) ==
    \/ req[q].pc # "sadd" /\ EStep(CStep(q))
    \/ req[q].pc = "sadd" /\ CStep(q) /\ KeepTTLs /\ pendingTTL' \in {GlobalTTL, pendingTTL}

Left(ttl) == IF ttl > 0 THEN ttl - 1 ELSE 0
Expires(ttl) == ttl = 1

\* A day passes; Redis drops what has no time left.
Tick ==
    LET dropped == (IF Expires(activeTTL) THEN active ELSE {}) \union
                   (IF Expires(pendingTTL) THEN pending ELSE {})
    IN  /\ members' = [r \in Rooms |-> IF Expires(roomTTL[r]) THEN {} ELSE members[r]]
        /\ userRoom' = [u \in Users |-> IF Expires(userTTL[u]) THEN NoRoom ELSE userRoom[u]]
        /\ active' = IF Expires(activeTTL) THEN {} ELSE active
        /\ pending' = IF Expires(pendingTTL) THEN {} ELSE pending
        /\ roomTTL' = [r \in Rooms |-> Left(roomTTL[r])]
        /\ userTTL' = [u \in Users |-> Left(userTTL[u])]
        /\ activeTTL' = Left(activeTTL)
        /\ pendingTTL' = Left(pendingTTL)
        /\ lapsed' = lapsed \union
              {u \in Users : Expires(userTTL[u]) /\ \E r \in Rooms : u \in members'[r]}
        /\ forgotten' = forgotten \union (dropped \ (active' \union pending'))
        /\ UNCHANGED <<req, joined, missed>>

ENext ==
    \/ Tick
    \/ \E r \in Rooms, u \in Users : EJoin(r, u)
    \/ \E q \in Reqs, r \in Rooms, u \in Users : EStep(CRemove(q, r, u))
    \/ \E q \in Reqs, r \in Rooms : EStep(CDeleteRead(q, r)) \/ EStep(CCount(q, r))
    \/ \E q \in Reqs :
        ERemoveStep(q) \/ EStep(CFails(q)) \/ EStep(CDelete(q)) \/ EStep(CClear(q))

ESpec == EInit /\ [][ENext]_evars

\* Members only leave, or are kicked from, the room their index entry names, and no
\* room is deleted, as in PresenceMoves.
EOwnNext ==
    \/ Tick
    \/ \E r \in Rooms, u \in Users : EJoin(r, u)
    \/ \E q \in Reqs, r \in Rooms, u \in Users :
            userRoom[u] = r /\ EStep(CRemove(q, r, u))
    \/ \E q \in Reqs, r \in Rooms : EStep(CCount(q, r))
    \/ \E q \in Reqs : ERemoveStep(q) \/ EStep(CFails(q)) \/ EStep(CClear(q))

EOwnSpec == EInit /\ [][EOwnNext]_evars

----------------------------------------------------------------------------
(* Properties.  OccupiedIsActive is that of PresenceCandidates.            *)

\* The cleanup's candidates under expiry: a room joined since its presence was last
\* deleted is lost to both sets only when one of them expired as a whole, never
\* because a key of its own did, or in one of the ways it is lost without TTLs.
CandidateUnlessForgotten ==
    \A r \in joined :
        \/ r \in active \union pending \union missed \union forgotten
        \/ InFlight(r, {"del", "sadd"})

\* Rooms with members stay in room:active, and rooms without stay candidates.
CandidatesKept == OccupiedIsActive /\ CandidateUnlessForgotten

\* With own-room leaves a user is in two rooms only if the index entry expired
\* before the room that lists the user did.
OneRoomUnlessLapsed ==
    \A u \in Users, r, s \in Rooms :
        u \in members[r] /\ u \in members[s] /\ r # s => u \in lapsed
============================================================================
