------------------------ MODULE RedisPresence_proofs ------------------------
(***************************************************************************)
(* The Redis presence store and the life of the rooms on it, for every set *)
(* of rooms, users and concurrent requests.  Under all interleavings the   *)
(* cleanup's candidate sets lose a joined room only to a failed command of *)
(* a leave or to an outdated count.  Where leaves and kicks name the room  *)
(* of the index entry, the contract is kept but for joins between the HLEN *)
(* and the DEL of a leave.  And a teardown leaves no key of its room       *)
(* behind.                                                                 *)
(***************************************************************************)
EXTENDS RoomLifecycle, PresenceCandidates, PresenceMoves, TLAPS

Labels == {"hlen", "srem", "del", "sadd", "exec", "clear"}

USE NoRoomAssumption

\* JoinRoom changes no set outside its domain.
LEMMA JoinType ==
  ASSUME TypeOK, NEW r \in Rooms, NEW u \in Users, JoinRoom(r, u)
  PROVE  TypeOK'
<1> DEFINE old   == userRoom[u]
           moves == old # NoRoom /\ old # r
           left  == IF moves THEN [members EXCEPT ![old] = @ \ {u}] ELSE members
           gone  == IF moves /\ left[old] = {} THEN {old} ELSE {}
<1>1. left \in [Rooms -> SUBSET Users]
  BY DEF TypeOK
<1>2. gone \subseteq Rooms
  BY DEF TypeOK
<1>3. /\ members' = [left EXCEPT ![r] = @ \union {u}]
      /\ userRoom' = [userRoom EXCEPT ![u] = r]
      /\ active' = (active \ gone) \union {r}
      /\ pending' = (pending \union gone) \ {r}
      /\ joined' = joined \union {r}
      /\ req' = req
  BY DEF JoinRoom
<1> HIDE DEF left, gone
<1> QED BY <1>1, <1>2, <1>3 DEF TypeOK

\* removeMember's first pipeline keeps the types.
LEMMA RemoveMemberType ==
  ASSUME TypeOK, NEW q \in Reqs, NEW r \in Rooms, NEW u \in Users, RemoveMember(q, r, u)
  PROVE  TypeOK'
  BY DEF TypeOK, RemoveMember, At

\* A request that is not idle names a room.
LEMMA BusyHasRoom ==
  ASSUME TypeOK, NEW q \in Reqs, req[q] # Idle
  PROVE  req[q] \in [pc : Labels, room : Rooms, seen : SUBSET Users]
  BY DEF TypeOK, Labels

\* The commands of removeMember after it do.
LEMMA RemoveStepType ==
  ASSUME TypeOK, NEW q \in Reqs, RemoveStep(q)
  PROVE  TypeOK'
<1>1. req[q] # Idle
  BY DEF RemoveStep, RemoveCount, RemoveDeactivate, RemoveKey, RemoveMark, Idle
<1>2. req[q] \in [pc : Labels, room : Rooms, seen : SUBSET Users]
  BY <1>1, BusyHasRoom
<1>3. CASE RemoveCount(q)
  BY <1>2, <1>3 DEF TypeOK, RemoveCount, Goto, Done, keys, Labels
<1>4. CASE RemoveDeactivate(q)
  BY <1>2, <1>4 DEF TypeOK, RemoveDeactivate, Goto, Labels
<1>5. CASE RemoveKey(q)
  BY <1>2, <1>5 DEF TypeOK, RemoveKey, Goto, Labels
<1>6. CASE RemoveMark(q)
  BY <1>2, <1>6 DEF TypeOK, RemoveMark, Done, Labels
<1> QED BY <1>3, <1>4, <1>5, <1>6 DEF RemoveStep

\* So do those of DeleteRoomPresence, and a count.
LEMMA DeleteType ==
  ASSUME TypeOK, NEW q \in Reqs,
         \/ \E r \in Rooms : DeleteRead(q, r) \/ CountMembers(q, r)
         \/ DeleteExec(q) /\ Done(q)
         \/ DeleteExec(q) /\ req' = [req EXCEPT ![q] = At("clear", req[q].room, {})]
  PROVE  TypeOK'
<1>1. ASSUME NEW r \in Rooms, DeleteRead(q, r) \/ CountMembers(q, r) PROVE TypeOK'
  BY <1>1 DEF TypeOK, DeleteRead, CountMembers, At, keys
<1>2. CASE DeleteExec(q) /\ Done(q)
  <2>1. req[q].room \in Rooms
    BY <1>2, BusyHasRoom DEF DeleteExec, Idle
  <2> QED BY <1>2, <2>1 DEF TypeOK, DeleteExec, Done
<1>3. CASE DeleteExec(q) /\ req' = [req EXCEPT ![q] = At("clear", req[q].room, {})]
  <2>1. req[q].room \in Rooms
    BY <1>3, BusyHasRoom DEF DeleteExec, Idle
  <2> QED BY <1>3, <2>1 DEF TypeOK, DeleteExec, At
<1> QED BY <1>1, <1>2, <1>3

\* A command that fails changes the slot of its request only.
LEMMA FailsType ==
  ASSUME TypeOK, NEW q \in Reqs, CommandFails(q)
  PROVE  TypeOK' /\ UNCHANGED <<members, userRoom, active, pending, joined>>
<1>1. req[q] \in [pc : Labels, room : Rooms, seen : SUBSET Users]
  BY BusyHasRoom DEF CommandFails
<1>2. Goto(q, "del") \/ Goto(q, "sadd") \/ Done(q)
  BY DEF CommandFails
<1>3. req' \in [Reqs -> {Idle} \union [pc : Labels, room : Rooms, seen : SUBSET Users]]
  BY <1>1, <1>2 DEF TypeOK, Goto, Done, Labels
<1> QED BY <1>3 DEF TypeOK, CommandFails, keys, Labels

----------------------------------------------------------------------------
(* The candidate sets.                                                     *)

\* Requests in other slots stay where they are, so "a leave of s is in flight"
\* survives a step of slot q on another room.
LEMMA JoinCandidates ==
  ASSUME CandidateInv, NEW r \in Rooms, NEW u \in Users, CJoin(r, u)
  PROVE  OccupiedIsActive' /\ JoinedRoomIsCandidate'
<1> DEFINE old   == userRoom[u]
           moves == old # NoRoom /\ old # r
           left  == IF moves THEN [members EXCEPT ![old] = @ \ {u}] ELSE members
           gone  == IF moves /\ left[old] = {} THEN {old} ELSE {}
<1>1. /\ members' = [left EXCEPT ![r] = @ \union {u}]
      /\ active' = (active \ gone) \union {r}
      /\ pending' = (pending \union gone) \ {r}
      /\ joined' = joined \union {r}
      /\ req' = req
      /\ missed' = missed \ {r}
  BY DEF CJoin, JoinRoom
<1>2. left \in [Rooms -> SUBSET Users] /\ gone \subseteq Rooms
  BY DEF CandidateInv, TypeOK
<1>3. \A s \in Rooms : left[s] \subseteq members[s] /\ (s \in gone => left[s] = {})
  BY DEF CandidateInv, TypeOK
<1>4. \A s \in Rooms, L \in SUBSET {"del", "sadd"} : InFlight(s, L)' <=> InFlight(s, L)
  BY <1>1 DEF InFlight
<1> HIDE DEF left, gone
<1>5. OccupiedIsActive'
  BY <1>1, <1>2, <1>3, <1>4 DEF CandidateInv, OccupiedIsActive
<1>6. JoinedRoomIsCandidate'
  BY <1>1, <1>2, <1>4 DEF CandidateInv, TypeOK, JoinedRoomIsCandidate
<1> QED BY <1>5, <1>6

\* A slot that starts a request gives no room up.
LEMMA StartCandidates ==
  ASSUME CandidateInv, NEW q \in Reqs, NEW r \in Rooms,
         (\E u \in Users : CRemove(q, r, u)) \/ CDeleteRead(q, r) \/ CCount(q, r)
  PROVE  OccupiedIsActive' /\ JoinedRoomIsCandidate'
<1> USE DEF CRemove, CDeleteRead, CCount
<1>1. /\ req[q].pc = "idle"
      /\ \A p \in Reqs : p # q => req'[p] = req[p]
  BY DEF RemoveMember, DeleteRead, CountMembers, Idle, CandidateInv, TypeOK
<1>2. \A s \in Rooms, L \in SUBSET {"del", "sadd"} : InFlight(s, L) => InFlight(s, L)'
  BY <1>1 DEF InFlight
<1>3. \A s \in Rooms : members'[s] \subseteq members[s]
  BY DEF RemoveMember, DeleteRead, CountMembers, keys, CandidateInv, TypeOK
<1>4. UNCHANGED <<active, pending, joined, missed>>
  BY DEF RemoveMember, DeleteRead, CountMembers, keys
<1> QED BY <1>2, <1>3, <1>4
        DEF CandidateInv, OccupiedIsActive, JoinedRoomIsCandidate, TypeOK

\* The commands of removeMember after the pipeline keep every joined room a candidate.
LEMMA RemoveStepCandidates ==
  ASSUME CandidateInv, NEW q \in Reqs, CStep(q)
  PROVE  OccupiedIsActive' /\ JoinedRoomIsCandidate'
<1>0. RemoveStep(q) /\ missed' = missed
  BY DEF CStep
<1>1. PICK r \in Rooms : r = req[q].room
  BY <1>0, BusyHasRoom
     DEF CandidateInv, RemoveStep, RemoveCount, RemoveDeactivate, RemoveKey, RemoveMark, Idle
<1>2. \A p \in Reqs : p # q => req'[p] = req[p]
  BY <1>0 DEF RemoveStep, RemoveCount, RemoveDeactivate, RemoveKey, RemoveMark,
         Goto, Done, CandidateInv, TypeOK
<1>3. \A s \in Rooms, L \in SUBSET {"del", "sadd"} : s # r /\ InFlight(s, L) => InFlight(s, L)'
  BY <1>1, <1>2 DEF InFlight
<1>4. joined' = joined /\ missed' = missed
  BY <1>0 DEF RemoveStep, RemoveCount, RemoveDeactivate, RemoveKey, RemoveMark
<1>5. CASE RemoveCount(q)
  <2>1. \A s \in Rooms, L \in SUBSET {"del", "sadd"} : InFlight(s, L) => InFlight(s, L)'
    BY <1>2, <1>5 DEF InFlight, RemoveCount
  <2> QED BY <1>4, <1>5, <2>1
          DEF RemoveCount, keys, CandidateInv, OccupiedIsActive, JoinedRoomIsCandidate, TypeOK
<1>6. CASE RemoveDeactivate(q)
  <2>1. InFlight(r, {"del"})' /\ InFlight(r, {"del", "sadd"})'
    BY <1>1, <1>6 DEF InFlight, RemoveDeactivate, Goto, CandidateInv, TypeOK
  <2> QED BY <1>1, <1>3, <1>4, <1>6, <2>1
          DEF RemoveDeactivate, CandidateInv, OccupiedIsActive, JoinedRoomIsCandidate, TypeOK
<1>7. CASE RemoveKey(q)
  <2>1. InFlight(r, {"del", "sadd"})' /\ members'[r] = {}
    BY <1>1, <1>7 DEF InFlight, RemoveKey, Goto, CandidateInv, TypeOK
  <2>2. \A s \in Rooms : s # r => members'[s] = members[s]
    BY <1>1, <1>7 DEF RemoveKey, CandidateInv, TypeOK
  <2> QED BY <1>1, <1>3, <1>4, <1>7, <2>1, <2>2
          DEF RemoveKey, CandidateInv, OccupiedIsActive, JoinedRoomIsCandidate, TypeOK
<1>8. CASE RemoveMark(q)
  <2>1. \A s \in Rooms : InFlight(s, {"del"}) => InFlight(s, {"del"})'
    BY <1>2, <1>8 DEF InFlight, RemoveMark
  <2> QED BY <1>1, <1>3, <1>4, <1>8, <2>1
          DEF RemoveMark, CandidateInv, OccupiedIsActive, JoinedRoomIsCandidate, TypeOK
<1> QED BY <1>0, <1>5, <1>6, <1>7, <1>8 DEF RemoveStep

\* A failing command gives a room up only when it is recorded as missed.
LEMMA FailsCandidates ==
  ASSUME CandidateInv, NEW q \in Reqs, CFails(q)
  PROVE  OccupiedIsActive' /\ JoinedRoomIsCandidate'
<1>1. CommandFails(q) /\ req[q] # Idle
  BY DEF CFails, CommandFails
<1>2. PICK r \in Rooms : r = req[q].room /\ req[q].pc \in Labels
  BY <1>1, BusyHasRoom DEF CandidateInv
<1>3. UNCHANGED <<members, active, pending, joined>>
  BY <1>1, FailsType DEF CandidateInv
<1>4. \A p \in Reqs : p # q => req'[p] = req[p]
  BY <1>1 DEF CommandFails, Goto, Done, CandidateInv, TypeOK
<1>5. \A s \in Rooms, L \in SUBSET {"del", "sadd"} :
        (s # r \/ req[q].pc \notin L) /\ InFlight(s, L) => InFlight(s, L)'
  BY <1>2, <1>4 DEF InFlight
<1>6. missed \subseteq missed'
  BY DEF CFails
<1>7. ASSUME members[r] # {}, r \notin active PROVE r \in missed' \/ InFlight(r, {"del"})'
  <2>1. CASE req[q].pc = "del"
    BY <1>2, <1>7, <2>1 DEF CFails
  <2>2. CASE req[q].pc # "del"
    BY <1>2, <1>5, <1>6, <1>7, <2>2 DEF CandidateInv, OccupiedIsActive
  <2> QED BY <2>1, <2>2
<1>8. ASSUME r \in joined, r \notin active \union pending
      PROVE  r \in missed' \/ InFlight(r, {"del", "sadd"})'
  <2>1. CASE req[q].pc = "sadd"
    BY <1>2, <1>8, <2>1 DEF CFails
  <2>2. CASE req[q].pc = "del"
    <3>1. req'[q].room = r /\ req'[q].pc = "sadd"
      BY <1>1, <1>2, <2>2 DEF CommandFails, Goto, CandidateInv, TypeOK, Idle, Labels
    <3> QED BY <1>2, <3>1 DEF InFlight
  <2>3. CASE req[q].pc \notin {"del", "sadd"}
    BY <1>2, <1>5, <1>6, <1>8, <2>3 DEF CandidateInv, JoinedRoomIsCandidate
  <2> QED BY <2>1, <2>2, <2>3
<1>9. OccupiedIsActive'
  <2> SUFFICES ASSUME NEW s \in Rooms, members[s] # {}, s \notin active
               PROVE  s \in missed' \/ InFlight(s, {"del"})'
    BY <1>3 DEF OccupiedIsActive
  <2>1. CASE s = r
    BY <1>7, <2>1
  <2>2. CASE s # r
    BY <1>5, <1>6, <2>2 DEF CandidateInv, OccupiedIsActive
  <2> QED BY <2>1, <2>2
<1>10. JoinedRoomIsCandidate'
  <2> SUFFICES ASSUME NEW s \in joined, s \notin active \union pending
               PROVE  s \in missed' \/ InFlight(s, {"del", "sadd"})'
    BY <1>3 DEF JoinedRoomIsCandidate
  <2>0. s \in Rooms
    BY DEF CandidateInv, TypeOK
  <2>1. CASE s = r
    BY <1>8, <2>1
  <2>2. CASE s # r
    BY <1>5, <1>6, <2>0, <2>2 DEF CandidateInv, JoinedRoomIsCandidate
  <2> QED BY <2>1, <2>2
<1> QED BY <1>9, <1>10

\* DeleteRoomPresence gives up its own room only.
LEMMA DeleteExecCandidates ==
  ASSUME CandidateInv, NEW q \in Reqs, CDelete(q)
  PROVE  OccupiedIsActive' /\ JoinedRoomIsCandidate'
<1> DEFINE r == req[q].room
<1>0. DeleteExec(q) /\ missed' = missed \ {r}
  BY DEF CDelete
<1>1. r \in Rooms
  BY <1>0, BusyHasRoom DEF CandidateInv, DeleteExec, Idle
<1>2. \A p \in Reqs : p # q => req'[p] = req[p]
  BY DEF CDelete, Done, CandidateInv, TypeOK
<1>3. \A s \in Rooms, L \in SUBSET {"del", "sadd"} : InFlight(s, L) => InFlight(s, L)'
  BY <1>0, <1>2 DEF InFlight, DeleteExec
<1>4. /\ members'[r] = {}
      /\ \A s \in Rooms : s # r => members'[s] = members[s]
  BY <1>0, <1>1 DEF DeleteExec, CandidateInv, TypeOK
<1> QED BY <1>0, <1>1, <1>3, <1>4
        DEF DeleteExec, CandidateInv, OccupiedIsActive, JoinedRoomIsCandidate, TypeOK

\* The cleanup's ClearPendingEmpty: a room with members is active, or about to be
\* marked; one without is recorded when the mark was all it had.
LEMMA ClearCandidates ==
  ASSUME CandidateInv, NEW q \in Reqs, CClear(q)
  PROVE  TypeOK' /\ OccupiedIsActive' /\ JoinedRoomIsCandidate'
<1> DEFINE r == req[q].room
<1>1. r \in Rooms
  BY BusyHasRoom DEF CandidateInv, CClear, Idle
<1>2. /\ UNCHANGED <<members, userRoom, active, joined>>
      /\ pending' = pending \ {r} /\ Done(q) /\ req[q].pc = "clear"
      /\ missed \subseteq missed'
  BY DEF CClear, ClearPendingEmpty
<1>3. TypeOK'
  BY <1>2 DEF CandidateInv, TypeOK, Done
<1>4. \A s \in Rooms, L \in SUBSET {"del", "sadd"} : InFlight(s, L) => InFlight(s, L)'
  BY <1>2 DEF InFlight, Done, CandidateInv, TypeOK
<1>5. OccupiedIsActive'
  BY <1>2, <1>4 DEF CandidateInv, OccupiedIsActive
<1>6. ASSUME NEW s \in joined PROVE s \in active \union pending' \union missed'
                                     \/ InFlight(s, {"del", "sadd"})'
  <2>0. s \in Rooms
    BY DEF CandidateInv, TypeOK
  <2>1. CASE s = r /\ members[r] # {} /\ r \notin active \union missed
    <3>1. InFlight(r, {"del"})
      BY <1>1, <2>1 DEF CandidateInv, OccupiedIsActive
    <3>2. InFlight(r, {"del", "sadd"})
      BY <3>1 DEF InFlight
    <3> QED BY <1>1, <1>4, <2>1, <3>2
  <2>2. CASE s = r /\ members[r] = {} /\ r \in pending \ active
    BY <2>2 DEF CClear
  <2>3. CASE s # r \/ r \notin pending \/ r \in active \union missed
    BY <1>2, <1>4, <2>0, <2>3 DEF CandidateInv, JoinedRoomIsCandidate
  <2> QED BY <2>1, <2>2, <2>3
<1> HIDE DEF r
<1> QED BY <1>2, <1>3, <1>5, <1>6 DEF JoinedRoomIsCandidate

\* Every step keeps types and candidates.
LEMMA CandidateStep == CandidateInv /\ [Next]_cvars => CandidateInv'
<1> SUFFICES ASSUME CandidateInv, [Next]_cvars PROVE CandidateInv'
  OBVIOUS
<1> USE DEF CandidateInv
<1>1. ASSUME NEW r \in Rooms, NEW u \in Users, CJoin(r, u) PROVE CandidateInv'
  BY <1>1, JoinType, JoinCandidates DEF CJoin
<1>2. ASSUME NEW q \in Reqs, NEW r \in Rooms, NEW u \in Users, CRemove(q, r, u)
      PROVE  CandidateInv'
  BY <1>2, RemoveMemberType, StartCandidates DEF CRemove
<1>3. ASSUME NEW q \in Reqs, NEW r \in Rooms, CDeleteRead(q, r) \/ CCount(q, r)
      PROVE  CandidateInv'
  <2>1. TypeOK'
    BY <1>3, DeleteType DEF CDeleteRead, CCount
  <2> QED BY <1>3, <2>1, StartCandidates
<1>4. ASSUME NEW q \in Reqs, CStep(q) PROVE CandidateInv'
  BY <1>4, RemoveStepType, RemoveStepCandidates DEF CStep
<1>5. ASSUME NEW q \in Reqs, CDelete(q) PROVE CandidateInv'
  <2>1. TypeOK'
    BY <1>5, DeleteType DEF CDelete
  <2> QED BY <1>5, <2>1, DeleteExecCandidates
<1>6. ASSUME NEW q \in Reqs, CFails(q) PROVE CandidateInv'
  BY <1>6, FailsType, FailsCandidates DEF CFails
<1>7. ASSUME NEW q \in Reqs, CClear(q) PROVE CandidateInv'
  BY <1>7, ClearCandidates
<1>8. CASE UNCHANGED cvars
  BY <1>8 DEF cvars, vars, keys, TypeOK, OccupiedIsActive, JoinedRoomIsCandidate, InFlight
<1> QED BY <1>1, <1>2, <1>3, <1>4, <1>5, <1>6, <1>7, <1>8 DEF Next

\* The empty keyspace has both.
LEMMA CandidateInit == CInit => CandidateInv
  BY DEF CInit, Init, CandidateInv, TypeOK, OccupiedIsActive, JoinedRoomIsCandidate

\* Types, and both properties of the candidate sets, in every interleaving of
\* requests and cleanups.
THEOREM CandidateInvariant == Spec => []CandidateInv
  BY CandidateInit, CandidateStep, PTL DEF Spec

\* A joined room stays visible to the cleanup until its presence is deleted, a command
\* of a leave fails or an outdated count clears its mark.
THEOREM JoinedRoomStaysCandidate == Spec => []JoinedRoomIsCandidate
  BY CandidateInvariant, PTL DEF CandidateInv

\* A room with members is active unless a leave is about to delete its hash, or
\* failed to.
THEOREM OccupiedRoomIsActive == Spec => []OccupiedIsActive
  BY CandidateInvariant, PTL DEF CandidateInv

----------------------------------------------------------------------------
(* Own-room leaves.                                                        *)

MTypes ==
    /\ TypeOK
    /\ crossed \in [Reqs -> SUBSET Users]
    /\ evicted \in [Rooms -> SUBSET Users]

\* A leave that has counted no members will delete only those who came since.
OnlyCrossed ==
    \A q \in Reqs : req[q].pc \in Deleting => members[req[q].room] \subseteq crossed[q]

\* An evicted user still has the index entry of his join.
EvictedNamed == \A r \in Rooms, u \in Users : u \in evicted[r] => userRoom[u] = r

IndexInv == MTypes /\ IndexNamesRoom /\ OnlyCrossed /\ EvictedNamed

\* With the index naming every room that lists the user, the script's single HDEL
\* takes the user out of all other rooms.
LEMMA JoinMoves ==
  ASSUME IndexInv, NEW r \in Rooms, NEW u \in Users, JoinRoom(r, u)
  PROVE  members' = [s \in Rooms |-> IF s = r THEN members[s] \union {u}
                                              ELSE members[s] \ {u}]
<1> DEFINE old   == userRoom[u]
           moves == old # NoRoom /\ old # r
           left  == IF moves THEN [members EXCEPT ![old] = @ \ {u}] ELSE members
<1>1. members' = [left EXCEPT ![r] = @ \union {u}]
  BY DEF JoinRoom
<1>2. left \in [Rooms -> SUBSET Users] /\ left[r] = members[r]
  BY DEF IndexInv, MTypes, TypeOK
<1>3. ASSUME NEW s \in Rooms, s # r PROVE left[s] = members[s] \ {u}
  <2>1. CASE s = old
    BY <1>3, <2>1 DEF IndexInv, MTypes, TypeOK
  <2>2. CASE s # old
    <3>1. u \notin members[s]
      BY <2>2 DEF IndexInv, IndexNamesRoom
    <3> QED BY <2>2, <3>1 DEF IndexInv, MTypes, TypeOK
  <2> QED BY <2>1, <2>2
<1> HIDE DEF left
<1> QED BY <1>1, <1>2, <1>3

\* A join keeps the index invariant and is a join of the contract.
LEMMA MJoinStep ==
  ASSUME IndexInv, NEW r \in Rooms, NEW u \in Users, MJoin(r, u)
  PROVE  IndexInv' /\ Contract!Join(r, u)
<1>1. /\ members' = [s \in Rooms |-> IF s = r THEN members[s] \union {u}
                                               ELSE members[s] \ {u}]
      /\ evicted' = [s \in Rooms |-> evicted[s] \ {u}]
      /\ userRoom' = [userRoom EXCEPT ![u] = r]
      /\ req' = req
      /\ crossed' = [q \in Reqs |-> IF req[q].room = r /\ req[q].pc \in Deleting
                                     THEN crossed[q] \union {u} ELSE crossed[q]]
  BY JoinMoves DEF MJoin, JoinRoom
<1>2. TypeOK' /\ TypeOK
  BY JoinType DEF MJoin, IndexInv, MTypes
<1>3. MTypes'
  BY <1>1, <1>2 DEF IndexInv, MTypes
<1>4. IndexNamesRoom'
  <2>1. \A s \in Rooms, v \in Users : v \in members'[s] => userRoom'[v] = s
    BY <1>1, <1>2 DEF IndexInv, IndexNamesRoom, TypeOK
  <2>2. ASSUME NEW v \in Users, userRoom'[v] # NoRoom PROVE v \in Present'[userRoom'[v]]
    <3>1. CASE v = u
      BY <1>1, <1>2, <3>1 DEF Present, TypeOK
    <3>2. CASE v # u
      <4>1. userRoom'[v] = userRoom[v] /\ userRoom[v] \in Rooms
        BY <1>1, <1>2, <2>2, <3>2 DEF TypeOK
      <4>2. v \in members[userRoom[v]] \union evicted[userRoom[v]]
        BY <2>2, <4>1 DEF IndexInv, IndexNamesRoom, Present
      <4> QED BY <1>1, <3>2, <4>1, <4>2 DEF Present
    <3> QED BY <3>1, <3>2
  <2> QED BY <2>1, <2>2 DEF IndexNamesRoom
<1>5. OnlyCrossed'
  <2> SUFFICES ASSUME NEW q \in Reqs, req[q].pc \in Deleting
               PROVE  members'[req[q].room] \subseteq crossed'[q]
    BY <1>1 DEF OnlyCrossed
  <2>1. req[q].room \in Rooms
    BY <1>2, BusyHasRoom DEF Deleting, Idle
  <2>2. members[req[q].room] \subseteq crossed[q]
    BY DEF IndexInv, OnlyCrossed
  <2> QED BY <1>1, <2>1, <2>2
<1>6. EvictedNamed'
  BY <1>1, <1>2 DEF IndexInv, EvictedNamed, MTypes, TypeOK
<1>7. Contract!Join(r, u)
  <2>1. Present' = [s \in Rooms |-> IF s = r THEN Present[s] \union {u} ELSE Present[s] \ {u}]
    BY <1>1 DEF Present, IndexInv, MTypes
  <2> QED BY <1>1, <2>1 DEF Contract!Join
<1> QED BY <1>3, <1>4, <1>5, <1>6, <1>7 DEF IndexInv

\* An own-room leave, or kick, keeps it and is a leave of the contract.
LEMMA MRemoveStep ==
  ASSUME IndexInv, NEW q \in Reqs, NEW r \in Rooms, NEW u \in Users, MRemove(q, r, u)
  PROVE  IndexInv' /\ Contract!Leave(r, u)
<1>1. /\ members' = [members EXCEPT ![r] = @ \ {u}]
      /\ evicted' = [evicted EXCEPT ![r] = @ \ {u}]
      /\ userRoom' = [userRoom EXCEPT ![u] = NoRoom]
      /\ req' = [req EXCEPT ![q] = At("hlen", r, {})]
      /\ crossed' = crossed /\ userRoom[u] = r
  BY DEF MRemove, RemoveMember
<1>2. TypeOK' /\ TypeOK
  BY RemoveMemberType DEF MRemove, IndexInv, MTypes
<1>3. MTypes'
  BY <1>1, <1>2 DEF IndexInv, MTypes
<1>4. IndexNamesRoom'
  <2>1. \A s \in Rooms, v \in Users : v \in members'[s] => userRoom'[v] = s
    BY <1>1, <1>2 DEF IndexInv, IndexNamesRoom, TypeOK
  <2>2. ASSUME NEW v \in Users, userRoom'[v] # NoRoom PROVE v \in Present'[userRoom'[v]]
    <3>1. v # u /\ userRoom'[v] = userRoom[v] /\ userRoom[v] \in Rooms
      BY <1>1, <1>2, <2>2 DEF TypeOK
    <3>2. v \in members[userRoom[v]] \union evicted[userRoom[v]]
      BY <2>2, <3>1 DEF IndexInv, IndexNamesRoom, Present
    <3> QED BY <1>1, <1>2, <3>1, <3>2 DEF Present, TypeOK, IndexInv, MTypes
  <2> QED BY <2>1, <2>2 DEF IndexNamesRoom
<1>5. OnlyCrossed'
  <2> SUFFICES ASSUME NEW p \in Reqs, req'[p].pc \in Deleting
               PROVE  members'[req'[p].room] \subseteq crossed[p]
    BY <1>1 DEF OnlyCrossed
  <2>1. p # q /\ req'[p] = req[p]
    BY <1>1, <1>2 DEF At, Deleting, TypeOK
  <2>2. req[p].room \in Rooms
    BY <1>2, <2>1, BusyHasRoom DEF Deleting, Idle
  <2>3. members[req[p].room] \subseteq crossed[p]
    BY <2>1 DEF IndexInv, OnlyCrossed
  <2> QED BY <1>1, <1>2, <2>1, <2>2, <2>3 DEF TypeOK
<1>6. EvictedNamed'
  BY <1>1, <1>2 DEF IndexInv, EvictedNamed, MTypes, TypeOK
<1>7. Contract!Leave(r, u)
  <2>1. \A s \in Rooms : members'[s] \union evicted'[s] =
            IF s = r THEN (members[s] \union evicted[s]) \ {u} ELSE members[s] \union evicted[s]
    BY <1>1, <1>2 DEF IndexInv, MTypes, TypeOK
  <2>2. Present' = [Present EXCEPT ![r] = @ \ {u}]
    BY <2>1 DEF Present
  <2> QED BY <1>1, <2>2 DEF Contract!Leave
<1> QED BY <1>3, <1>4, <1>5, <1>6, <1>7 DEF IndexInv

\* The later commands of a leave, done or failed, change nobody's whereabouts.
LEMMA MStepStep ==
  ASSUME IndexInv, NEW q \in Reqs, MStep(q)
  PROVE  IndexInv' /\ UNCHANGED <<Present, userRoom>>
<1> DEFINE room == req[q].room
<1>1. RemoveStep(q) \/ CommandFails(q)
  BY DEF MStep
<1>2. TypeOK' /\ TypeOK
  BY <1>1, RemoveStepType, FailsType DEF IndexInv, MTypes
<1>3. room \in Rooms
  BY <1>1, <1>2, BusyHasRoom DEF RemoveStep, RemoveCount, RemoveDeactivate, RemoveKey,
     RemoveMark, CommandFails, Idle
<1>4. /\ userRoom' = userRoom
      /\ \A p \in Reqs : p # q => req'[p] = req[p]
      /\ req'[q].pc \in Deleting => req'[q].room = room
      /\ req'[q].pc = "srem" => members'[room] = {}
      /\ req'[q].pc = "del" => req[q].pc = "srem"
      /\ members' = members \/ (req[q].pc = "del" /\ members' = [members EXCEPT ![room] = {}])
  <2>1. CASE RemoveCount(q)
    BY <1>2, <2>1 DEF RemoveCount, Goto, Done, keys, TypeOK, Deleting, Idle
  <2>2. CASE RemoveDeactivate(q)
    BY <1>2, <2>2 DEF RemoveDeactivate, Goto, TypeOK, Deleting
  <2>3. CASE RemoveKey(q)
    BY <1>2, <2>3 DEF RemoveKey, Goto, TypeOK, Deleting
  <2>4. CASE RemoveMark(q)
    BY <1>2, <2>4 DEF RemoveMark, Done, TypeOK, Deleting, Idle
  <2>5. CASE CommandFails(q)
    <3>1. (req[q].pc = "srem" /\ Goto(q, "del")) \/ Goto(q, "sadd") \/ Done(q)
      BY <2>5 DEF CommandFails
    <3> QED BY <1>2, <2>5, <3>1 DEF CommandFails, Goto, Done, keys, TypeOK, Deleting, Idle
  <2> QED BY <1>1, <2>1, <2>2, <2>3, <2>4, <2>5 DEF RemoveStep
<1>5. /\ crossed' = [crossed EXCEPT ![q] = IF req'[q].pc \in Deleting THEN @ ELSE {}]
      /\ evicted' = [r \in Rooms |->
            evicted[r] \union ((members[r] \ members'[r]) \intersect crossed[q])]
  BY DEF MStep
<1>6. MTypes'
  BY <1>2, <1>5 DEF IndexInv, MTypes, TypeOK
<1>7. \A r \in Rooms : members'[r] \subseteq members[r]
  BY <1>2, <1>3, <1>4 DEF TypeOK
<1>8. Present' = Present
  <2>1. CASE members' = members
    BY <1>5, <2>1 DEF Present, IndexInv, MTypes
  <2>2. CASE req[q].pc = "del" /\ members' = [members EXCEPT ![room] = {}]
    <3>1. members[room] \subseteq crossed[q]
      BY <2>2 DEF IndexInv, OnlyCrossed, Deleting
    <3>2. ASSUME NEW r \in Rooms
          PROVE  members'[r] \union evicted'[r] = members[r] \union evicted[r]
      <4>1. CASE r = room
        BY <1>2, <1>3, <1>5, <2>2, <3>1, <4>1 DEF TypeOK
      <4>2. CASE r # room
        BY <1>2, <1>3, <1>5, <2>2, <4>2 DEF TypeOK
      <4> QED BY <4>1, <4>2
    <3> QED BY <3>2 DEF Present
  <2> QED BY <1>4, <2>1, <2>2
<1>9. IndexNamesRoom'
  BY <1>4, <1>7, <1>8 DEF IndexInv, IndexNamesRoom
<1>10. OnlyCrossed'
  <2> SUFFICES ASSUME NEW p \in Reqs, req'[p].pc \in Deleting
               PROVE  members'[req'[p].room] \subseteq crossed'[p]
    BY DEF OnlyCrossed
  <2>1. CASE p # q
    <3>1. req'[p] = req[p] /\ crossed'[p] = crossed[p]
      BY <1>4, <1>5, <2>1 DEF IndexInv, MTypes
    <3>2. req[p].room \in Rooms
      BY <1>2, <3>1, BusyHasRoom DEF Deleting, Idle
    <3>3. members[req[p].room] \subseteq crossed[p]
      BY <3>1 DEF IndexInv, OnlyCrossed
    <3> QED BY <1>7, <3>1, <3>2, <3>3
  <2>2. CASE p = q /\ req'[q].pc = "srem"
    BY <1>4, <2>2 DEF Deleting
  <2>3. CASE p = q /\ req'[q].pc = "del"
    <3>1. crossed'[q] = crossed[q] /\ req[q].pc = "srem" /\ req'[q].room = room
      BY <1>4, <1>5, <2>3 DEF Deleting, IndexInv, MTypes
    <3>2. members[room] \subseteq crossed[q]
      BY <3>1 DEF IndexInv, OnlyCrossed, Deleting
    <3> QED BY <1>3, <1>7, <2>3, <3>1, <3>2
  <2> QED BY <2>1, <2>2, <2>3 DEF Deleting
<1>11. EvictedNamed'
  BY <1>4, <1>5 DEF IndexInv, EvictedNamed, IndexNamesRoom
<1> QED BY <1>4, <1>6, <1>8, <1>9, <1>10, <1>11 DEF IndexInv

\* Where users leave only the room they are in, every step keeps user:room in agreement
\* with the member hashes, and is a step of the contract.
LEMMA IndexStep ==
  IndexInv /\ [OwnRoomNext]_mvars => IndexInv' /\ [Contract!Move]_(Contract!contractVars)
<1> SUFFICES ASSUME IndexInv, [OwnRoomNext]_mvars
             PROVE  IndexInv' /\ [Contract!Move]_(Contract!contractVars)
  OBVIOUS
<1>1. ASSUME NEW r \in Rooms, NEW u \in Users, MJoin(r, u)
      PROVE  IndexInv' /\ Contract!Move
  BY <1>1, MJoinStep DEF Contract!Move
<1>2. ASSUME NEW q \in Reqs, NEW r \in Rooms, NEW u \in Users, MRemove(q, r, u)
      PROVE  IndexInv' /\ Contract!Move
  BY <1>2, MRemoveStep DEF Contract!Move
<1>3. ASSUME NEW q \in Reqs, MStep(q)
      PROVE  IndexInv' /\ UNCHANGED Contract!contractVars
  BY <1>3, MStepStep DEF Contract!contractVars
<1>4. ASSUME NEW r \in Rooms, MClear(r)
      PROVE  IndexInv' /\ UNCHANGED Contract!contractVars
  <2>1. pending' = pending \ {r}
    BY <1>4 DEF MClear, ClearPendingEmpty
  <2>2. UNCHANGED <<members, userRoom, active, joined, req, crossed, evicted>>
    BY <1>4 DEF MClear, ClearPendingEmpty
  <2>3. MTypes'
    BY <2>1, <2>2 DEF IndexInv, MTypes, TypeOK
  <2>4. IndexNamesRoom' /\ OnlyCrossed' /\ EvictedNamed'
    BY <2>2 DEF IndexInv, IndexNamesRoom, OnlyCrossed, EvictedNamed, Present
  <2>5. UNCHANGED Contract!contractVars
    BY <2>2 DEF Present, Contract!contractVars
  <2> QED BY <2>3, <2>4, <2>5 DEF IndexInv
<1>5. CASE UNCHANGED mvars
  BY <1>5 DEF mvars, vars, keys, IndexInv, MTypes, TypeOK, IndexNamesRoom, OnlyCrossed,
     EvictedNamed, Present, Contract!contractVars
<1> QED BY <1>1, <1>2, <1>3, <1>4, <1>5 DEF OwnRoomNext

\* The empty keyspace is an initial state of the contract.
LEMMA IndexInit == MInit => IndexInv /\ Contract!Init
  BY DEF MInit, Init, IndexInv, MTypes, TypeOK, IndexNamesRoom, OnlyCrossed, EvictedNamed,
     Present, Deleting, Idle, Contract!Init

\* As long as leaves and kicks name the room of the index entry, entry and member
\* hashes agree, but for those who joined between the HLEN and the DEL of a leave.
THEOREM IndexNamesEveryRoom == OwnRoomSpec => []IndexNamesRoom
  BY IndexInit, IndexStep, PTL DEF OwnRoomSpec, IndexInv

\* Then the Redis store implements the contract of open rooms, with the same exception:
\* nobody else disappears without a join or a leave of his own.
THEOREM RedisImplementsContract == OwnRoomSpec => ImplementsContract
  BY IndexInit, IndexStep, PTL DEF OwnRoomSpec, ImplementsContract, Contract!OpenSpec

----------------------------------------------------------------------------
(* Rooms from creation to teardown.                                        *)

CloseLabels == {"close_state", "close_presence", "close_members", "close_access", "close_chat"}
ListLabels  == {"list_active", "list_db", "pick"}
JobLabels   == ListLabels \union {"drop", "clear", "closed"}

Hands == [pc : {"free"} \union Kinds \union CloseLabels \union JobLabels,
          room : Rooms \union {NoRoom}, user : Users \union {NoRoom}]

LTypes ==
    /\ TypeOK
    /\ db \subseteq Rooms
    /\ hand \in [Reqs -> Hands]
    /\ todo \subseteq Rooms

\* A handler that works on a room names it, and is between two commands of the presence
\* store only in DeleteRoomPresence; removeMember goes on after its handler.
HandOK(q) ==
    /\ hand[q].pc \in {"free"} \union ListLabels \/ hand[q].room \in Rooms
    /\ hand[q].pc \in Kinds => hand[q].user \in Users /\ q # Job
    /\ hand[q].pc \in JobLabels => q = Job
    /\ hand[q].pc = "close_members" => req[q].pc = "exec" /\ req[q].room = hand[q].room
    /\ hand[q].pc \in {"free", "close_members"} \/ req[q] = Idle
    /\ q # Job \/ hand[q].pc = "close_members" \/ req[q] = Idle

HandInv == \A q \in Reqs : HandOK(q)

Closing(r, labels) == \E q \in Reqs : hand[q].room = r /\ hand[q].pc \in labels

\* Once the row is gone only teardowns work on the room, and each kind of key that is
\* still there has a teardown that is yet to delete it.
Work(r) ==
    \A q \in Reqs :
        /\ hand[q].room = r => hand[q].pc \in CloseLabels \union {"drop", "clear", "closed"}
        /\ req[q].room = r => hand[q].room = r /\ hand[q].pc = "close_members"

Covered(r) ==
    /\ r \in state => Closing(r, {"close_state"})
    /\ members[r] # {} => Closing(r, {"close_state", "close_presence", "close_members"})
    /\ (\E u \in Users : <<r, u>> \in access) => Closing(r, CloseLabels \ {"close_chat"})
    /\ r \in chat => Closing(r, CloseLabels)

CloseInv == \A r \in Rooms : Closed(r) /\ r \notin tainted => Work(r) /\ Covered(r)

LifeInv == LTypes /\ HandInv /\ CloseInv

Others(q) == \A p \in Reqs \ {q} : hand'[p] = hand[p] /\ req'[p] = req[p]

\* No key of room r appears.
Shrinks(r) ==
    /\ r \in state' => r \in state
    /\ members'[r] \subseteq members[r]
    /\ \A u \in Users : <<r, u>> \in access' => <<r, u>> \in access
    /\ r \in chat' => r \in chat

\* A step of slot q that is no step of a teardown of r leaves r as it was.
LEMMA Aside ==
  ASSUME NEW q \in Reqs, NEW r \in Rooms, Work(r), Covered(r), Others(q), Shrinks(r),
         hand[q].room # r \/ hand[q].pc \notin CloseLabels,
         hand'[q].room = r => hand'[q].pc \in {"drop", "clear", "closed"},
         req'[q].room # r
  PROVE  Work(r)' /\ Covered(r)'
<1>1. Work(r)'
  BY DEF Work, Others
<1>2. ASSUME NEW L \in SUBSET CloseLabels, Closing(r, L) PROVE Closing(r, L)'
  <2>1. PICK p \in Reqs : hand[p].room = r /\ hand[p].pc \in L
    BY <1>2 DEF Closing
  <2>2. p # q
    BY <2>1
  <2> QED
    BY <2>1, <2>2 DEF Closing, Others
<1>3. /\ {"close_state"} \subseteq CloseLabels /\ CloseLabels \ {"close_chat"} \subseteq CloseLabels
      /\ {"close_state", "close_presence", "close_members"} \subseteq CloseLabels
  BY DEF CloseLabels
<1> HIDE DEF CloseLabels
<1>4. Covered(r)'
  <2>1. r \in state' => Closing(r, {"close_state"})'
    BY <1>2, <1>3 DEF Covered, Shrinks
  <2>2. members'[r] # {} => Closing(r, {"close_state", "close_presence", "close_members"})'
    BY <1>2, <1>3 DEF Covered, Shrinks
  <2>3. (\E u \in Users : <<r, u>> \in access') => Closing(r, CloseLabels \ {"close_chat"})'
    BY <1>2, <1>3 DEF Covered, Shrinks
  <2>4. r \in chat' => Closing(r, CloseLabels)'
    BY <1>2 DEF Covered, Shrinks
  <2> QED
    BY <2>1, <2>2, <2>3, <2>4 DEF Covered
<1> QED
  BY <1>1, <1>4

\* The invariant after a step of slot q, from what has to be shown of it.
LEMMA Assemble ==
  ASSUME LifeInv, NEW q \in Reqs, Others(q), TypeOK', hand' \in [Reqs -> Hands],
         db' \subseteq Rooms, todo' \subseteq Rooms, HandOK(q)',
         \A r \in Rooms : Closed(r)' /\ r \notin tainted' => Work(r)' /\ Covered(r)'
  PROVE  LifeInv'
<1>1. \A p \in Reqs \ {q} : HandOK(p)'
  BY DEF LifeInv, HandInv, HandOK, Others
<1> QED
  BY <1>1 DEF LifeInv, LTypes, HandInv, CloseInv

\* The handler in slot q goes on, or ends.
LEMMA DoStep ==
  ASSUME LTypes, NEW q \in Reqs, NEW l \in {"free"} \union Kinds \union CloseLabels \union JobLabels, Do(q, l)
  PROVE  /\ hand' \in [Reqs -> Hands] /\ \A p \in Reqs \ {q} : hand'[p] = hand[p]
         /\ hand'[q].pc = l /\ hand'[q].room = hand[q].room /\ hand'[q].user = hand[q].user
<1>1. hand \in [Reqs -> Hands] /\ hand[q] \in Hands
  BY DEF LTypes
<1>2. hand' = [hand EXCEPT ![q] = [hand[q] EXCEPT !.pc = l]]
  BY DEF Do
<1>3. PICK x : x = [hand[q] EXCEPT !.pc = l]
  OBVIOUS
<1>4. x \in Hands /\ x.pc = l /\ x.room = hand[q].room /\ x.user = hand[q].user
  BY <1>1, <1>3 DEF Hands
<1> QED
  BY <1>1, <1>2, <1>3, <1>4

LEMMA SetStep ==
  ASSUME LTypes, NEW q \in Reqs, NEW x \in Hands, hand' = [hand EXCEPT ![q] = x]
  PROVE  hand' \in [Reqs -> Hands] /\ (\A p \in Reqs \ {q} : hand'[p] = hand[p]) /\ hand'[q] = x
  BY DEF LTypes

LEMMA FreeHand ==
  /\ Free \in Hands /\ Free.pc = "free" /\ Free.room = NoRoom
  /\ \A r \in Rooms : Free.room # r /\ Idle.room # r
  BY DEF Free, Hands, Idle

LEMMA ReturnStep ==
  ASSUME LTypes, NEW q \in Reqs, Return(q)
  PROVE  hand' \in [Reqs -> Hands] /\ (\A p \in Reqs \ {q} : hand'[p] = hand[p]) /\ hand'[q] = Free
  BY SetStep, FreeHand DEF Return

LEMMA DoneStep ==
  ASSUME TypeOK, NEW q \in Reqs, Done(q)
  PROVE  req'[q] = Idle /\ \A p \in Reqs \ {q} : req'[p] = req[p]
  BY DEF TypeOK, Done

\* What the inductive invariant says of a slot and of a closed room.
LEMMA HandFacts ==
  ASSUME LifeInv, NEW q \in Reqs
  PROVE  /\ LTypes /\ TypeOK /\ HandOK(q) /\ hand[q] \in Hands
         /\ db \subseteq Rooms /\ todo \subseteq Rooms
         /\ \A r \in Rooms : Closed(r) /\ r \notin tainted =>
               /\ Work(r) /\ Covered(r)
               /\ hand[q].room = r => hand[q].pc \in CloseLabels \union {"drop", "clear", "closed"}
               /\ req[q].room = r => hand[q].room = r /\ hand[q].pc = "close_members"
  BY DEF LifeInv, LTypes, HandInv, CloseInv, Work

LEMMA JoinShrinks ==
  ASSUME TypeOK, NEW r \in Rooms, NEW u \in Users, JoinRoom(r, u)
  PROVE  req' = req /\ \A s \in Rooms \ {r} : members'[s] \subseteq members[s]
<1> DEFINE old   == userRoom[u]
           moves == old # NoRoom /\ old # r
           left  == IF moves THEN [members EXCEPT ![old] = @ \ {u}] ELSE members
<1>1. left \in [Rooms -> SUBSET Users] /\ \A s \in Rooms : left[s] \subseteq members[s]
  BY DEF TypeOK
<1>2. members' = [left EXCEPT ![r] = @ \union {u}] /\ req' = req
  BY DEF JoinRoom
<1> HIDE DEF left
<1> QED
  BY <1>1, <1>2

LEMMA KindLabels ==
  /\ Kinds \intersect CloseLabels = {} /\ Kinds \intersect JobLabels = {} /\ "free" \notin Kinds
  /\ CloseLabels \intersect JobLabels = {} /\ "free" \notin CloseLabels /\ "free" \notin JobLabels
  /\ ListLabels \subseteq JobLabels
  BY DEF Kinds, CloseLabels, JobLabels, ListLabels

\* Requests that add a key: the room they loaded is not closed, or is tainted.
LEMMA LifeHandler ==
  ASSUME LifeInv, NEW q \in Reqs, Grant(q) \/ Join(q) \/ Leave(q) \/ Control(q) \/ Chat(q)
  PROVE  LifeInv'
<1> DEFINE room == hand[q].room
           user == hand[q].user
<1>0. hand[q].pc \in {"grant", "join", "leave", "control", "chat"}
  BY DEF Grant, Join, Leave, Control, Chat
<1>1. /\ hand[q].pc \in Kinds /\ hand[q].pc \notin CloseLabels /\ room \in Rooms /\ user \in Users /\ q # Job
      /\ req[q] = Idle /\ LTypes /\ TypeOK /\ hand[q] \in Hands
  BY <1>0, HandFacts DEF HandOK, Kinds, CloseLabels, ListLabels
<1>2. \A r \in Rooms : Closed(r) /\ r \notin tainted => r # room /\ Work(r) /\ Covered(r)
  <2>1. hand[q].pc \notin CloseLabels \union {"drop", "clear", "closed"}
    BY <1>0 DEF CloseLabels
  <2> QED
    BY <2>1, HandFacts
<1>3. UNCHANGED <<db, fresh, todo, tainted>>
  BY DEF Grant, Join, Leave, Control, Chat, rows
<1>4. /\ hand' \in [Reqs -> Hands] /\ \A p \in Reqs \ {q} : hand'[p] = hand[p]
      /\ hand'[q] = Free \/ (Grant(q) /\ hand'[q].pc \in {"join", "chat"} /\ hand'[q].room = room /\ hand'[q].user = user)
  <2>1. Return(q) \/ (Grant(q) /\ (Do(q, "join") \/ Do(q, "chat")))
    BY DEF Grant, Join, Leave, Control, Chat
  <2>2. {"join", "chat"} \subseteq {"free"} \union Kinds \union CloseLabels \union JobLabels
    BY DEF Kinds
  <2> QED
    BY <1>1, <2>1, <2>2, DoStep, ReturnStep
<1>5. TypeOK' /\ (\A p \in Reqs \ {q} : req'[p] = req[p]) /\ (Grant(q) => req'[q] = Idle)
      /\ (req'[q] = Idle \/ req'[q].room = room)
  <2>1. CASE Join(q)
    BY <1>1, <2>1, <1>0, JoinType, JoinShrinks DEF Join
  <2>2. CASE Leave(q)
    <3>1. RemoveMember(q, room, user)
      BY <2>2 DEF Leave
    <3>2. req' = [req EXCEPT ![q] = At("hlen", room, {})] /\ hand[q].pc = "leave"
      BY <2>2 DEF Leave, RemoveMember
    <3>3. At("hlen", room, {}).room = room
      BY DEF At
    <3>4. ~Grant(q)
      BY <3>2 DEF Grant
    <3>5. TypeOK'
      BY <1>1, <3>1, RemoveMemberType
    <3> QED
      BY <1>1, <3>2, <3>3, <3>4, <3>5 DEF TypeOK
  <2>3. CASE Grant(q) \/ Control(q) \/ Chat(q)
    <3>1. UNCHANGED vars
      BY <2>3 DEF Grant, Control, Chat
    <3> QED
      BY <1>1, <3>1 DEF vars, keys, TypeOK
  <2> QED
    BY <2>1, <2>2, <2>3
<1>6. \A r \in Rooms \ {room} : Shrinks(r)
  <2>1. CASE Join(q)
    <3>1. UNCHANGED <<state, access, chat>> /\ JoinRoom(room, user)
      BY <2>1 DEF Join, rkeys
    <3> QED
      BY <1>1, <3>1, JoinShrinks DEF Shrinks
  <2>2. CASE Leave(q)
    BY <1>1, <2>2 DEF Leave, RemoveMember, rkeys, Shrinks, TypeOK
  <2>3. CASE Grant(q) \/ Control(q) \/ Chat(q)
    <3>1. members' = members
      BY <2>3 DEF Grant, Control, Chat, vars, keys
    <3>2. /\ state' \subseteq state \union {room} /\ chat' \subseteq chat \union {room}
          /\ access' \subseteq access \union {<<room, user>>}
      BY <2>3 DEF Grant, Control, Chat
    <3> QED
      BY <3>1, <3>2 DEF Shrinks
  <2> QED
    BY <2>1, <2>2, <2>3
<1>7. HandOK(q)'
  <2>1. CASE hand'[q] = Free
    BY <1>1, <2>1, FreeHand DEF HandOK, ListLabels, Kinds, JobLabels
  <2>2. CASE Grant(q) /\ hand'[q].pc \in {"join", "chat"} /\ hand'[q].room = room /\ hand'[q].user = user
    <3>1. hand'[q].pc \notin JobLabels /\ hand'[q].pc # "close_members" /\ req'[q] = Idle
      BY <1>5, <2>2 DEF JobLabels, ListLabels
    <3> QED
      BY <1>1, <2>2, <3>1 DEF HandOK
  <2> QED
    BY <1>4, <2>1, <2>2
<1>8. Others(q)
  BY <1>4, <1>5 DEF Others
<1>9. ASSUME NEW r \in Rooms, Closed(r)', r \notin tainted' PROVE Work(r)' /\ Covered(r)'
  <2>1. r # room /\ Work(r) /\ Covered(r)
    BY <1>2, <1>3, <1>9 DEF Closed
  <2>2. Shrinks(r) /\ hand'[q].room # r /\ req'[q].room # r
    BY <1>4, <1>5, <1>6, <2>1, FreeHand
  <2> QED
    BY <1>1, <1>8, <2>1, <2>2, Aside
<1>10. db' \subseteq Rooms /\ todo' \subseteq Rooms
  BY <1>1, <1>3 DEF LTypes
<1> QED
  BY <1>4, <1>5, <1>7, <1>8, <1>9, <1>10, Assemble

\* A request begins on a room that has its row, removeMember goes on, a client hangs up.
LEMMA LifeRequest ==
  ASSUME LifeInv, NEW q \in Reqs,
         LeaveStep(q) \/ HangUp(q)
         \/ (\E kind \in Kinds, r \in Rooms, u \in Users : Load(q, kind, r, u))
  PROVE  LifeInv'
<1>0. LTypes /\ TypeOK /\ HandOK(q) /\ hand[q] \in Hands /\ db \subseteq Rooms /\ todo \subseteq Rooms
  BY HandFacts
<1>1. UNCHANGED <<db, fresh, todo, tainted, state, access, chat, joined>>
  <2>1. LeaveStep(q) => joined' = joined
    BY DEF LeaveStep, RemoveStep, RemoveCount, RemoveDeactivate, RemoveKey, RemoveMark
  <2> QED
    BY <2>1 DEF LeaveStep, HangUp, Load, rows, rkeys, vars
<1>2. ASSUME NEW kind \in Kinds, NEW room \in Rooms, NEW u \in Users, Load(q, kind, room, u) PROVE LifeInv'
  <2> DEFINE x == [pc |-> kind, room |-> room, user |-> u]
  <2>1. q # Job /\ hand[q] = Free /\ req[q] = Idle /\ room \in db /\ UNCHANGED vars /\ hand' = [hand EXCEPT ![q] = x]
    BY <1>2 DEF Load
  <2>2. x \in Hands /\ x.pc = kind /\ x.room = room /\ x.user = u
    BY DEF Hands
  <2> HIDE DEF x
  <2>3. hand' \in [Reqs -> Hands] /\ (\A p \in Reqs \ {q} : hand'[p] = hand[p]) /\ hand'[q] = x
    BY <1>0, <2>1, <2>2, SetStep
  <2>4. TypeOK' /\ req' = req /\ members' = members
    BY <1>0, <2>1 DEF vars, keys, TypeOK
  <2>5. HandOK(q)'
    BY <2>1, <2>2, <2>3, <2>4, KindLabels DEF HandOK, CloseLabels
  <2>6. Others(q)
    BY <2>3, <2>4 DEF Others
  <2>7. ASSUME NEW r \in Rooms, Closed(r)', r \notin tainted' PROVE Work(r)' /\ Covered(r)'
    <3>1. r # room /\ Work(r) /\ Covered(r)
      BY <1>1, <2>1, <2>7, HandFacts DEF Closed
    <3>2. Shrinks(r) /\ hand'[q].room # r /\ req'[q].room # r /\ hand[q].room # r
      BY <1>1, <2>1, <2>2, <2>3, <2>4, <3>1, FreeHand DEF Shrinks
    <3> QED
      BY <2>6, <3>1, <3>2, Aside
  <2> QED
    BY <1>0, <1>1, <2>3, <2>4, <2>5, <2>6, <2>7, Assemble
<1>3. CASE LeaveStep(q)
  <2>1. RemoveStep(q) /\ hand' = hand
    BY <1>3 DEF LeaveStep
  <2>2. req[q].pc \in {"hlen", "srem", "del", "sadd"}
    BY <2>1 DEF RemoveStep, RemoveCount, RemoveDeactivate, RemoveKey, RemoveMark
  <2>3. hand[q].pc = "free" /\ q # Job
    BY <1>0, <2>2 DEF HandOK, Idle
  <2>4. TypeOK'
    BY <1>0, <2>1, RemoveStepType
  <2>5. /\ \A p \in Reqs \ {q} : req'[p] = req[p]
        /\ req'[q] = Idle \/ req'[q].room = req[q].room
        /\ \A r \in Rooms : members'[r] \subseteq members[r]
    <3>1. \/ \E l \in Labels : Goto(q, l)
          \/ Done(q)
      BY <2>1 DEF RemoveStep, RemoveCount, RemoveDeactivate, RemoveKey, RemoveMark, Labels
    <3>2. req \in [Reqs -> {Idle} \union [pc : Labels, room : Rooms, seen : SUBSET Users]]
      BY <1>0 DEF TypeOK, Labels
    <3>3. ASSUME NEW l \in Labels, Goto(q, l)
          PROVE  req'[q].room = req[q].room /\ \A p \in Reqs \ {q} : req'[p] = req[p]
      BY <3>2, <3>3 DEF Goto, Idle
    <3>4. \A r \in Rooms : members'[r] \subseteq members[r]
      BY <1>0, <2>1 DEF RemoveStep, RemoveCount, RemoveDeactivate, RemoveKey, RemoveMark, TypeOK, keys
    <3> QED
      BY <1>0, <3>1, <3>3, <3>4, DoneStep
  <2>6. HandOK(q)'
    BY <2>1, <2>3, KindLabels DEF HandOK
  <2>7. Others(q)
    BY <2>1, <2>5 DEF Others
  <2>8. ASSUME NEW r \in Rooms, Closed(r)', r \notin tainted' PROVE Work(r)' /\ Covered(r)'
    <3>1. Work(r) /\ Covered(r) /\ hand[q].room # r /\ req[q].room # r
      <4>1. hand[q].pc \notin CloseLabels \union {"drop", "clear", "closed"} /\ hand[q].pc # "close_members"
        BY <2>3 DEF CloseLabels
      <4> QED
        BY <1>1, <2>8, <4>1, HandFacts DEF Closed
    <3>2. Shrinks(r) /\ req'[q].room # r /\ hand'[q].room # r
      BY <1>1, <2>1, <2>5, <3>1, FreeHand DEF Shrinks
    <3> QED
      BY <2>7, <3>1, <3>2, Aside
  <2> QED
    BY <1>0, <1>1, <2>1, <2>4, <2>6, <2>7, <2>8, Assemble DEF LTypes
<1>4. CASE HangUp(q)
  <2>1. UNCHANGED <<members, userRoom, active, pending, joined>>
    BY <1>4 DEF HangUp, keys
  <2>2. \/ hand[q].pc \in Kinds /\ Return(q) /\ req' = req
        \/ hand[q] = Free /\ req[q] # Idle /\ Done(q) /\ hand' = hand
    BY <1>4 DEF HangUp
  <2>3. /\ hand' \in [Reqs -> Hands] /\ \A p \in Reqs \ {q} : hand'[p] = hand[p] /\ req'[p] = req[p]
        /\ hand'[q] = Free /\ req'[q] = Idle
    <3>1. hand[q].pc \in Kinds => req[q] = Idle
      BY <1>0, KindLabels DEF HandOK, CloseLabels
    <3> QED
      BY <1>0, <2>2, <3>1, ReturnStep, DoneStep DEF LTypes
  <2>4. TypeOK'
    BY <1>0, <2>1, <2>2 DEF TypeOK, Done
  <2>5. HandOK(q)'
    BY <2>3, FreeHand, KindLabels DEF HandOK
  <2>6. Others(q)
    BY <2>3 DEF Others
  <2>7. hand[q].pc \notin CloseLabels
    BY <2>2, KindLabels, FreeHand
  <2>8. ASSUME NEW r \in Rooms, Closed(r)', r \notin tainted' PROVE Work(r)' /\ Covered(r)'
    <3>1. Work(r) /\ Covered(r)
      BY <1>1, <2>8, HandFacts DEF Closed
    <3>2. Shrinks(r) /\ req'[q].room # r /\ hand'[q].room # r
      BY <1>1, <2>1, <2>3, FreeHand DEF Shrinks
    <3> QED
      BY <2>6, <2>7, <3>1, <3>2, Aside
  <2> QED
    BY <1>0, <1>1, <2>3, <2>4, <2>5, <2>6, <2>8, Assemble
<1> QED
  BY <1>2, <1>3, <1>4

\* The deletions of a teardown.  Each kind of key is deleted on the way, so that those
\* that are left have a teardown yet to come.
LEMMA LifeClose ==
  ASSUME LifeInv, NEW q \in Reqs, CloseStep(q)
  PROVE  LifeInv'
<1> DEFINE room == hand[q].room
<1>0. /\ LTypes /\ TypeOK /\ HandOK(q) /\ hand[q] \in Hands /\ db \subseteq Rooms /\ todo \subseteq Rooms
  BY HandFacts
<1>1. hand[q].pc \in CloseLabels /\ room \in Rooms
  <2>1. hand[q].pc \in CloseLabels
    BY DEF CloseStep, CloseState, ClosePresenceRead, ClosePresence, CloseAccess, CloseChat, CloseLabels
  <2> QED
    BY <1>0, <2>1, KindLabels DEF HandOK
<1>2. UNCHANGED <<db, fresh, todo, tainted>>
  BY DEF CloseStep, CloseState, ClosePresenceRead, ClosePresence, CloseAccess, CloseChat, rows
<1>3. CASE CloseState(q) \/ ClosePresenceRead(q) \/ ClosePresence(q) \/ CloseAccess(q)
  <2>1. PICK l \in {"close_presence", "close_members", "close_access", "close_chat"} :
          /\ Do(q, l)
          /\ CloseState(q) => l = "close_presence" /\ hand[q].pc = "close_state"
          /\ ClosePresenceRead(q) => l = "close_members" /\ hand[q].pc = "close_presence"
          /\ ClosePresence(q) => l = "close_access" /\ hand[q].pc = "close_members"
          /\ CloseAccess(q) => l = "close_chat" /\ hand[q].pc = "close_access"
    <3>1. CASE CloseState(q)
      BY <3>1 DEF CloseState, ClosePresenceRead, ClosePresence, CloseAccess
    <3>2. CASE ClosePresenceRead(q)
      BY <3>2 DEF CloseState, ClosePresenceRead, ClosePresence, CloseAccess
    <3>3. CASE ClosePresence(q)
      BY <3>3 DEF CloseState, ClosePresenceRead, ClosePresence, CloseAccess
    <3>4. CASE CloseAccess(q)
      BY <3>4 DEF CloseState, ClosePresenceRead, ClosePresence, CloseAccess
    <3> QED
      BY <1>3, <3>1, <3>2, <3>3, <3>4
  <2>2. l \in CloseLabels
    BY DEF CloseLabels
  <2>3. /\ hand' \in [Reqs -> Hands] /\ \A p \in Reqs \ {q} : hand'[p] = hand[p]
        /\ hand'[q].pc = l /\ hand'[q].room = room
    BY <1>0, <2>1, <2>2, DoStep
  <2>4. /\ TypeOK' /\ \A p \in Reqs \ {q} : req'[p] = req[p]
        /\ IF l = "close_members" THEN req'[q].pc = "exec" /\ req'[q].room = room ELSE req'[q] = Idle
    <3>1. CASE CloseState(q) \/ CloseAccess(q)
      <4>1. UNCHANGED vars /\ req[q] = Idle /\ l # "close_members"
        BY <1>0, <2>1, <3>1 DEF HandOK, CloseState, CloseAccess
      <4> QED
        BY <1>0, <4>1 DEF vars, keys, TypeOK
    <3>2. CASE ClosePresenceRead(q)
      <4>1. DeleteRead(q, room) /\ l = "close_members"
        BY <2>1, <3>2 DEF ClosePresenceRead
      <4>2. TypeOK'
        BY <1>0, <1>1, <4>1, DeleteType
      <4>3. req' = [req EXCEPT ![q] = At("exec", room, members[room])]
        BY <4>1 DEF DeleteRead
      <4>4. At("exec", room, members[room]).pc = "exec" /\ At("exec", room, members[room]).room = room
        BY DEF At
      <4> QED
        BY <1>0, <4>1, <4>2, <4>3, <4>4 DEF TypeOK
    <3>3. CASE ClosePresence(q)
      <4>1. DeleteExec(q) /\ l = "close_access" /\ Done(q)
        BY <2>1, <3>3 DEF ClosePresence, DeleteExec
      <4> QED
        BY <1>0, <4>1, DeleteType, DoneStep
    <3> QED
      BY <1>3, <3>1, <3>2, <3>3
  <2>5. HandOK(q)'
    <3>1. l \notin Kinds /\ l \notin JobLabels
      BY <2>2, KindLabels
    <3> QED
      BY <1>1, <2>3, <2>4, <3>1 DEF HandOK
  <2>6. Others(q)
    BY <2>3, <2>4 DEF Others
  <2>7. /\ \A r \in Rooms : Shrinks(r)
        /\ CloseState(q) => room \notin state'
        /\ ClosePresence(q) => members'[room] = {}
        /\ CloseAccess(q) => \A u \in Users : <<room, u>> \notin access'
    <3>1. CASE CloseState(q)
      BY <2>1, <3>1 DEF CloseState, vars, keys, Shrinks, ClosePresence, CloseAccess
    <3>2. CASE ClosePresenceRead(q)
      BY <2>1, <3>2 DEF ClosePresenceRead, DeleteRead, keys, rkeys, Shrinks, CloseState, ClosePresence, CloseAccess
    <3>3. CASE ClosePresence(q)
      <4>1. req[q].room = room
        BY <1>0, <2>1, <3>3 DEF HandOK
      <4>2. members' = [members EXCEPT ![room] = {}] /\ UNCHANGED <<state, access, chat>>
        BY <3>3, <4>1 DEF ClosePresence, DeleteExec, rkeys
      <4> QED
        BY <1>0, <1>1, <2>1, <3>3, <4>2 DEF Shrinks, TypeOK, CloseState, CloseAccess
    <3>4. CASE CloseAccess(q)
      <4>1. access' = {g \in access : g[1] # room} /\ UNCHANGED <<state, chat, members>>
        BY <3>4 DEF CloseAccess, vars, keys
      <4> QED
        BY <2>1, <3>4, <4>1 DEF Shrinks, CloseState, ClosePresence
    <3> QED
      BY <1>3, <3>1, <3>2, <3>3, <3>4
  <2>8. ASSUME NEW r \in Rooms, Closed(r)', r \notin tainted' PROVE Work(r)' /\ Covered(r)'
    <3>0. Work(r) /\ Covered(r)
      BY <1>2, <2>8, HandFacts DEF Closed
    <3>1. CASE r # room
      <4>1. req'[q].room # r /\ hand'[q].room # r
        BY <2>3, <2>4, <3>1, FreeHand
      <4> QED
        BY <2>6, <2>7, <3>0, <3>1, <4>1, Aside
    <3>2. CASE r = room
      <4>1. Work(r)'
        BY <2>2, <2>3, <2>4, <3>0, <3>2, FreeHand DEF Work
      <4>2. ASSUME NEW L, l \in L PROVE Closing(r, L)'
        BY <2>3, <3>2, <4>2 DEF Closing
      <4>3. ASSUME NEW L, hand[q].pc \notin L, Closing(r, L) PROVE Closing(r, L)'
        <5>1. PICK p \in Reqs : hand[p].room = r /\ hand[p].pc \in L
          BY <4>3 DEF Closing
        <5> QED
          BY <2>3, <4>3, <5>1 DEF Closing
      <4>4. Covered(r)'
        <5> USE DEF CloseLabels
        <5>1. r \in state' => Closing(r, {"close_state"})'
          BY <1>3, <2>1, <2>7, <3>0, <3>2, <4>3 DEF Covered, Shrinks
        <5>2. members'[r] # {} => Closing(r, {"close_state", "close_presence", "close_members"})'
          BY <1>3, <2>1, <2>7, <3>0, <3>2, <4>2, <4>3 DEF Covered, Shrinks
        <5>3. (\E u \in Users : <<r, u>> \in access') => Closing(r, CloseLabels \ {"close_chat"})'
          BY <1>3, <2>1, <2>7, <3>0, <3>2, <4>2, <4>3 DEF Covered, Shrinks
        <5>4. r \in chat' => Closing(r, CloseLabels)'
          BY <2>2, <4>2
        <5> QED
          BY <5>1, <5>2, <5>3, <5>4 DEF Covered
      <4> QED
        BY <4>1, <4>4
    <3> QED
      BY <3>1, <3>2
  <2> QED
    BY <1>0, <1>2, <2>3, <2>4, <2>5, <2>6, <2>8, Assemble
<1>4. CASE CloseChat(q)
  <2>1. /\ hand[q].pc = "close_chat" /\ chat' = chat \ {room} /\ UNCHANGED <<state, access>> /\ UNCHANGED vars
        /\ IF q = Job THEN Do(q, "closed") ELSE Return(q)
    BY <1>4 DEF CloseChat
  <2>2. UNCHANGED <<members, req>> /\ TypeOK' /\ req[q] = Idle
    BY <1>0, <2>1 DEF vars, keys, TypeOK, HandOK
  <2>3. /\ hand' \in [Reqs -> Hands] /\ \A p \in Reqs \ {q} : hand'[p] = hand[p]
        /\ \/ q = Job /\ hand'[q].pc = "closed" /\ hand'[q].room = room
           \/ hand'[q] = Free
    <3>1. "closed" \in {"free"} \union Kinds \union CloseLabels \union JobLabels
      BY DEF JobLabels
    <3> QED
      BY <1>0, <2>1, <3>1, DoStep, ReturnStep
  <2>4. HandOK(q)'
    <3>1. "closed" \in JobLabels /\ "closed" \notin Kinds
      BY DEF JobLabels, Kinds
    <3> QED
      BY <1>1, <2>2, <2>3, <3>1, FreeHand, KindLabels DEF HandOK
  <2>5. Others(q)
    BY <2>2, <2>3 DEF Others
  <2>6. ASSUME NEW r \in Rooms, Closed(r)', r \notin tainted' PROVE Work(r)' /\ Covered(r)'
    <3>0. Work(r) /\ Covered(r) /\ Shrinks(r)
      BY <1>2, <2>1, <2>2, <2>6, HandFacts DEF Closed, Shrinks
    <3>1. CASE r # room
      BY <2>2, <2>3, <2>5, <3>0, <3>1, Aside, FreeHand
    <3>2. CASE r = room
      <4>1. Work(r)'
        BY <2>2, <2>3, <3>0, <3>2, FreeHand DEF Work
      <4>2. ASSUME NEW L, "close_chat" \notin L, Closing(r, L) PROVE Closing(r, L)'
        <5>1. PICK p \in Reqs : hand[p].room = r /\ hand[p].pc \in L
          BY <4>2 DEF Closing
        <5> QED
          BY <2>1, <2>3, <4>2, <5>1 DEF Closing
      <4>3. r \notin chat'
        BY <2>1, <3>2
      <4>4. /\ r \in state' => Closing(r, {"close_state"})'
            /\ members'[r] # {} => Closing(r, {"close_state", "close_presence", "close_members"})'
        BY <3>0, <4>2 DEF Covered, Shrinks
      <4>5. (\E u \in Users : <<r, u>> \in access') => Closing(r, CloseLabels \ {"close_chat"})'
        BY <3>0, <4>2 DEF Covered, Shrinks
      <4> QED
        BY <4>1, <4>3, <4>4, <4>5 DEF Covered
    <3> QED
      BY <3>1, <3>2
  <2> QED
    BY <1>0, <1>2, <2>2, <2>3, <2>4, <2>5, <2>6, Assemble
<1> QED
  BY <1>3, <1>4 DEF CloseStep

\* A deletion that fails taints the room.
LEMMA LifeCloseFails ==
  ASSUME LifeInv, NEW q \in Reqs, CloseFails(q)
  PROVE  LifeInv'
<1> DEFINE room == hand[q].room
<1>0. /\ LTypes /\ TypeOK /\ HandOK(q) /\ hand[q] \in Hands /\ db \subseteq Rooms /\ todo \subseteq Rooms
  BY HandFacts
<1>1. hand[q].pc \in CloseLabels /\ room \in Rooms
  <2>1. hand[q].pc \in CloseLabels
    BY DEF CloseFails, CloseLabels
  <2> QED
    BY <1>0, <2>1, KindLabels DEF HandOK
<1>2. /\ UNCHANGED <<db, fresh, todo, members, userRoom, active, pending, joined, state, access, chat>>
      /\ tainted' = tainted \union {room}
  BY DEF CloseFails, keys, rows, rkeys
<1>3. /\ \/ Return(q)
         \/ Do(q, "close_presence") \/ Do(q, "close_access") \/ Do(q, "close_chat")
         \/ (q = Job /\ Do(q, "closed"))
      /\ Done(q) \/ (req' = req /\ hand[q].pc # "close_members")
  BY DEF CloseFails
<1>4. /\ hand' \in [Reqs -> Hands] /\ \A p \in Reqs \ {q} : hand'[p] = hand[p]
      /\ \/ hand'[q] = Free
         \/ /\ hand'[q].pc \in {"close_presence", "close_access", "close_chat", "closed"} /\ hand'[q].room = room
            /\ hand'[q].pc = "closed" => q = Job
  <2>1. {"close_presence", "close_access", "close_chat", "closed"}
           \subseteq {"free"} \union Kinds \union CloseLabels \union JobLabels
    BY DEF CloseLabels, JobLabels
  <2> QED
    BY <1>0, <1>3, <2>1, DoStep, ReturnStep
<1>5. TypeOK' /\ req'[q] = Idle /\ \A p \in Reqs \ {q} : req'[p] = req[p]
  <2>1. CASE Done(q)
    BY <1>0, <1>2, <2>1, DoneStep DEF TypeOK, Done
  <2>2. CASE req' = req /\ hand[q].pc # "close_members"
    BY <1>0, <1>1, <1>2, <2>2, KindLabels DEF TypeOK, HandOK
  <2> QED
    BY <1>3, <2>1, <2>2
<1>6. HandOK(q)'
  <2>1. /\ {"close_presence", "close_access", "close_chat", "closed"} \intersect Kinds = {}
        /\ {"close_presence", "close_access", "close_chat"} \intersect JobLabels = {}
    BY DEF Kinds, JobLabels, ListLabels
  <2> QED
    BY <1>1, <1>4, <1>5, <2>1, FreeHand, KindLabels DEF HandOK
<1>7. Others(q)
  BY <1>4, <1>5 DEF Others
<1>8. ASSUME NEW r \in Rooms, Closed(r)', r \notin tainted' PROVE Work(r)' /\ Covered(r)'
  <2>1. r # room /\ Work(r) /\ Covered(r) /\ Shrinks(r)
    BY <1>2, <1>8, HandFacts DEF Closed, Shrinks
  <2> QED
    BY <1>4, <1>5, <1>7, <2>1, Aside, FreeHand
<1> QED
  BY <1>0, <1>2, <1>4, <1>5, <1>6, <1>7, <1>8, Assemble

\* The row goes.  Whoever else works on the room taints it; from here on the teardown
\* covers every key.
LEMMA LifeRowGoes ==
  ASSUME LifeInv, NEW q \in Reqs, DeleteRow(q) \/ (q = Job /\ DropRow)
  PROVE  LifeInv'
<1> DEFINE room == hand[q].room
<1>0. /\ LTypes /\ TypeOK /\ HandOK(q) /\ hand[q] \in Hands /\ db \subseteq Rooms /\ todo \subseteq Rooms
  BY HandFacts
<1>1. /\ hand[q].pc \in {"delete", "drop"} /\ db' = db \ {room}
      /\ tainted' = IF room \in db /\ Engaged(q, room) THEN tainted \union {room} ELSE tainted
      /\ UNCHANGED <<fresh, state, access, chat, todo>> /\ UNCHANGED vars
      /\ Do(q, "close_state") \/ (Return(q) /\ room \notin db /\ hand[q].pc = "delete")
  BY DEF DeleteRow, DropRow, rkeys
<1>2. UNCHANGED <<members, req>> /\ TypeOK' /\ req[q] = Idle /\ room \in Rooms
  <2>1. hand[q].pc \notin {"free", "close_members"} \union ListLabels
    BY <1>1 DEF ListLabels
  <2> QED
    BY <1>0, <1>1, <2>1 DEF vars, keys, TypeOK, HandOK
<1>3. /\ hand' \in [Reqs -> Hands] /\ \A p \in Reqs \ {q} : hand'[p] = hand[p]
      /\ \/ hand'[q].pc = "close_state" /\ hand'[q].room = room
         \/ hand'[q] = Free /\ room \notin db /\ hand[q].pc = "delete"
  <2>1. "close_state" \in {"free"} \union Kinds \union CloseLabels \union JobLabels
    BY DEF CloseLabels
  <2> QED
    BY <1>0, <1>1, <2>1, DoStep, ReturnStep
<1>4. HandOK(q)'
  <2>1. "close_state" \notin Kinds \union JobLabels
    BY DEF Kinds, JobLabels, ListLabels
  <2> QED
    BY <1>2, <1>3, <2>1, FreeHand, KindLabels DEF HandOK
<1>5. Others(q)
  BY <1>2, <1>3 DEF Others
<1>6. ASSUME NEW r \in Rooms, Closed(r)', r \notin tainted' PROVE Work(r)' /\ Covered(r)'
  <2>1. Shrinks(r)
    BY <1>1, <1>2 DEF Shrinks
  <2>2. CASE r # room
    <3>1. Work(r) /\ Covered(r)
      BY <1>1, <1>6, <2>2, HandFacts DEF Closed
    <3> QED
      BY <1>2, <1>3, <1>5, <2>1, <2>2, <3>1, Aside, FreeHand
  <2>3. CASE r = room
    <3>1. CASE room \in db
      <4>1. ~Engaged(q, room) /\ hand'[q].pc = "close_state" /\ hand'[q].room = room
        BY <1>1, <1>3, <1>6, <2>3, <3>1
      <4>2. \A p \in Reqs \ {q} : hand'[p].room # r /\ req'[p].room # r
        BY <1>2, <1>3, <2>3, <4>1 DEF Engaged
      <4>3. Work(r)'
        BY <1>2, <2>3, <4>1, <4>2, FreeHand DEF Work, CloseLabels
      <4>4. Covered(r)'
        BY <2>3, <4>1 DEF Covered, Closing, CloseLabels
      <4> QED
        BY <4>3, <4>4
    <3>2. CASE room \notin db
      <4>1. Closed(r) /\ r \notin tainted
        BY <1>1, <1>6, <2>3, <3>2 DEF Closed
      <4>2. Work(r) /\ Covered(r) /\ hand[q].pc # "delete"
        <5>1. "delete" \notin CloseLabels \union {"drop", "clear", "closed"}
          BY DEF CloseLabels
        <5> QED
          BY <2>3, <4>1, <5>1, HandFacts
      <4>3. hand'[q].pc = "close_state" /\ hand'[q].room = room
        BY <1>3, <4>2
      <4>4. Work(r)'
        BY <1>2, <1>3, <2>3, <4>2, <4>3, FreeHand DEF Work, CloseLabels
      <4>5. Covered(r)'
        BY <2>3, <4>3 DEF Covered, Closing, CloseLabels
      <4> QED
        BY <4>4, <4>5
    <3> QED
      BY <3>1, <3>2
  <2> QED
    BY <2>2, <2>3
<1>7. db' \subseteq Rooms /\ todo' \subseteq Rooms
  BY <1>0, <1>1
<1> QED
  BY <1>2, <1>3, <1>4, <1>5, <1>6, <1>7, Assemble

\* The cleanup between two rooms: it may come back to a room that is closed already.
LEMMA LifeJob ==
  ASSUME LifeInv,
         \/ ReadPending \/ ReadActive \/ ReadDb \/ (\E r \in Rooms : Count(r)) \/ Clear
         \/ Finish \/ Abort \/ ClearFails \/ (\E r \in Rooms : CountFails(r))
  PROVE  LifeInv'
<1>0. /\ Job \in Reqs /\ LTypes /\ TypeOK /\ HandOK(Job) /\ hand[Job] \in Hands
      /\ db \subseteq Rooms /\ todo \subseteq Rooms /\ pending \subseteq Rooms /\ active \subseteq Rooms
  BY HandFacts, LifecycleAssumption DEF TypeOK
<1>1. /\ hand[Job].pc \in {"free"} \union JobLabels
      /\ UNCHANGED <<db, fresh, state, access, chat, tainted, members, userRoom, active, joined, req>>
      /\ pending' \subseteq pending
  <2>1. CASE ReadPending \/ ReadActive \/ ReadDb \/ Finish \/ Abort \/ ClearFails \/ (\E r \in Rooms : Count(r) \/ CountFails(r))
    BY <2>1 DEF ReadPending, ReadActive, ReadDb, Candidates, Count, Finish, Abort, ClearFails,
       CountFails, vars, keys, rows, rkeys, JobLabels, ListLabels
  <2>2. CASE Clear
    BY <2>2 DEF Clear, ClearPendingEmpty, rows, rkeys, JobLabels
  <2> QED
    BY <2>1, <2>2
<1>2. TypeOK' /\ req'[Job] = Idle /\ hand[Job].pc \notin CloseLabels
  <2>1. hand[Job].pc \notin CloseLabels
    BY <1>1, KindLabels
  <2>2. hand[Job].pc # "close_members"
    BY <2>1 DEF CloseLabels
  <2> QED
    BY <1>0, <1>1, <2>1, <2>2 DEF TypeOK, HandOK
<1>3. todo' \subseteq Rooms
  BY <1>0 DEF ReadPending, ReadActive, ReadDb, Candidates, ListRooms, Count, Clear, Finish, Abort, ClearFails, CountFails
<1> DEFINE Pick == [Free EXCEPT !.pc = "pick"]
<1>4. /\ hand' \in [Reqs -> Hands] /\ \A p \in Reqs \ {Job} : hand'[p] = hand[p]
      /\ \/ hand'[Job].pc \in {"free"} \union ListLabels /\ hand'[Job].room = NoRoom
         \/ /\ hand'[Job].pc \in ListLabels /\ hand'[Job].room = hand[Job].room
            /\ hand[Job].pc \in {"free"} \union ListLabels
         \/ hand'[Job].pc \in {"drop", "clear"} /\ hand'[Job].room \in Rooms
  <2>0. Pick \in Hands /\ Pick.pc = "pick" /\ Pick.room = NoRoom
    BY DEF Free, Hands, JobLabels, ListLabels
  <2>1. CASE ReadPending \/ ReadActive \/ ReadDb
    <3>1. (Do(Job, "list_active") \/ Do(Job, "list_db") \/ Do(Job, "pick")) /\ hand[Job].pc \in {"free"} \union ListLabels
      BY <2>1 DEF ReadPending, ReadActive, ReadDb, Candidates, ListLabels
    <3>2. {"list_active", "list_db", "pick"} \subseteq {"free"} \union Kinds \union CloseLabels \union JobLabels
      BY DEF JobLabels, ListLabels
    <3> QED
      BY <1>0, <3>1, <3>2, DoStep DEF ListLabels
  <2>2. ASSUME NEW r \in Rooms, Count(r)
        PROVE  /\ hand' \in [Reqs -> Hands] /\ \A p \in Reqs \ {Job} : hand'[p] = hand[p]
               /\ hand'[Job].pc \in {"drop", "clear"} /\ hand'[Job].room \in Rooms
    <3>1. PICK l \in {"drop", "clear"} : hand' = [hand EXCEPT ![Job] = [pc |-> l, room |-> r, user |-> NoRoom]]
      BY <2>2 DEF Count
    <3>2. [pc |-> l, room |-> r, user |-> NoRoom] \in Hands
      BY DEF Hands, JobLabels
    <3> QED
      BY <1>0, <3>1, <3>2, SetStep
  <2>3. CASE Clear \/ ClearFails
    <3>1. hand' = [hand EXCEPT ![Job] = Pick]
      BY <2>3 DEF Clear, ClearFails
    <3> HIDE DEF Pick
    <3> QED
      BY <1>0, <2>0, <3>1, SetStep DEF ListLabels
  <2>4. CASE Finish \/ Abort
    BY <1>0, <2>4, ReturnStep, FreeHand DEF Finish, Abort
  <2>5. ASSUME NEW r \in Rooms, CountFails(r)
        PROVE  hand' = hand /\ hand[Job].pc \in ListLabels
    BY <2>5 DEF CountFails, ListLabels
  <2>6. hand \in [Reqs -> Hands]
    BY <1>0 DEF LTypes
  <2> QED
    BY <2>1, <2>2, <2>3, <2>4, <2>5, <2>6
<1>5. HandOK(Job)'
  <2>1. /\ {"drop", "clear"} \subseteq JobLabels /\ {"drop", "clear"} \intersect Kinds = {}
        /\ "close_members" \notin {"free"} \union ListLabels \union {"drop", "clear"}
    BY DEF JobLabels, Kinds, ListLabels
  <2> QED
    BY <1>0, <1>2, <1>4, <2>1, KindLabels DEF HandOK
<1>6. Others(Job)
  BY <1>1, <1>4 DEF Others
<1>7. ASSUME NEW r \in Rooms, Closed(r)', r \notin tainted' PROVE Work(r)' /\ Covered(r)'
  <2>1. Work(r) /\ Covered(r) /\ Shrinks(r)
    BY <1>0, <1>1, <1>7, HandFacts DEF Closed, Shrinks
  <2>2. hand[Job].pc \in {"free"} \union ListLabels => hand[Job].room # r
    <3>1. ({"free"} \union ListLabels) \intersect (CloseLabels \union {"drop", "clear", "closed"}) = {}
      BY DEF ListLabels, CloseLabels
    <3> QED
      BY <1>0, <2>1, <3>1 DEF Work
  <2>3. hand'[Job].room = r => hand'[Job].pc \in {"drop", "clear", "closed"}
    BY <1>4, <2>2
  <2> QED
    BY <1>0, <1>2, <1>6, <2>1, <2>3, Aside, FreeHand
<1> QED
  BY <1>0, <1>1, <1>2, <1>3, <1>4, <1>5, <1>6, <1>7, Assemble

\* A room is created, or nothing happens.
LEMMA LifeCreate ==
  ASSUME LifeInv, (\E r \in Rooms : Create(r)) \/ UNCHANGED lvars
  PROVE  LifeInv'
<1>1. /\ UNCHANGED <<members, userRoom, active, pending, req, joined, state, access, chat, hand, todo, tainted>>
      /\ db' \subseteq Rooms /\ \A r \in Rooms : Closed(r)' => Closed(r)
  BY DEF LifeInv, LTypes, Create, lvars, vars, keys, rows, rkeys, Closed
<1>2. LTypes'
  BY <1>1 DEF LifeInv, LTypes, TypeOK
<1>3. HandInv'
  BY <1>1 DEF LifeInv, HandInv, HandOK
<1>4. CloseInv'
  BY <1>1 DEF LifeInv, CloseInv, Work, Covered, Closing
<1> QED
  BY <1>2, <1>3, <1>4 DEF LifeInv

LEMMA LifeStep == LifeInv /\ [LNext]_lvars => LifeInv'
<1> SUFFICES ASSUME LifeInv, [LNext]_lvars PROVE LifeInv'
  OBVIOUS
<1>1. Visited \subseteq Rooms /\ Job \in Reqs
  BY LifecycleAssumption
<1>2. ASSUME NEW q \in Reqs, HandlerStep(q) \/ HangUp(q) \/ CloseStep(q) \/ CloseFails(q) PROVE LifeInv'
  BY <1>2, LifeHandler, LifeRequest, LifeRowGoes, LifeClose, LifeCloseFails DEF HandlerStep
<1>3. CASE JobStep \/ Abort \/ ClearFails \/ \E r \in Rooms : CountFails(r)
  BY <1>1, <1>3, LifeJob, LifeRowGoes DEF JobStep
<1>4. CASE \E q \in Reqs, kind \in Kinds, r \in Visited, u \in Users : Load(q, kind, r, u)
  BY <1>1, <1>4, LifeRequest
<1>5. CASE (\E r \in Rooms : Create(r)) \/ UNCHANGED lvars
  BY <1>5, LifeCreate
<1> QED
  BY <1>2, <1>3, <1>4, <1>5 DEF LNext

LEMMA LifeInit == LInit => LifeInv
<1> SUFFICES ASSUME LInit PROVE LifeInv
  OBVIOUS
<1>1. TypeOK
  BY DEF LInit, Init, TypeOK
<1>2. \A q \in Reqs : hand[q] = Free /\ req[q] = Idle
  BY DEF LInit, Init
<1>3. LTypes
  BY <1>1, FreeHand DEF LInit, LTypes
<1>4. HandInv
  BY <1>2, FreeHand, KindLabels DEF HandInv, HandOK
<1>5. CloseInv
  BY DEF LInit, CloseInv, Closed
<1> QED
  BY <1>3, <1>4, <1>5 DEF LifeInv

\* THEOREM.  Whichever requests, hang-ups, failures and cleanups interleave: once
\* nothing works on a closed room any more, none of its keys is left in Redis, unless
\* a request had loaded the room when CloseRoom or closeEmptyRoom deleted its row, or
\* one of their deletions failed.
THEOREM TeardownIsComplete == LSpec => []TeardownComplete
<1>1. LifeInv => TeardownComplete
  BY DEF LifeInv, CloseInv, Covered, Closing, TeardownComplete, Quiet, Leftovers
<1> QED
  BY <1>1, LifeInit, LifeStep, PTL DEF LSpec
=============================================================================
