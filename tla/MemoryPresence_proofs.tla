----------------------- MODULE MemoryPresence_proofs ------------------------
(***************************************************************************)
(* The stores of internal/cache/memory, for any values of the constants.   *)
(* Presence keeps its promise: PresenceInv is inductive, it implies        *)
(* AtMostOneRoom, and with it every step is a step of the interface        *)
(* contract.  The caches agree with those of Redis, and the fan-out loses  *)
(* and repeats nothing.                                                    *)
(***************************************************************************)
EXTENDS MCMemory, FiniteSetTheorems, SequenceTheorems, TLAPS

----------------------------------------------------------------------------
(* Presence.                                                               *)

\* The empty maps of NewRoomPresence satisfy the invariant.
LEMMA InitInv == Init => PresenceInv
  BY NoRoomAssumption DEF Init, PresenceInv, TypeOK, IndexAgrees, CandidatesAgree

\* JoinRoom takes the user out of every other room although it only looks at the
\* one userRoom names.
LEMMA JoinMoves ==
  ASSUME PresenceInv, NEW r \in Rooms, NEW u \in Users, JoinRoom(r, u)
  PROVE  members' = [s \in Rooms |-> IF s = r THEN members[s] \union {u}
                                              ELSE members[s] \ {u}]
<1> DEFINE prev  == userRoom[u]
           moves == prev # NoRoom /\ prev # r
           left  == IF moves THEN WithoutMember(prev, u) ELSE members
<1>1. members' = [left EXCEPT ![r] = @ \union {u}]
  BY DEF JoinRoom
<1>2. left \in [Rooms -> SUBSET Users]
  BY DEF PresenceInv, TypeOK, WithoutMember
<1>3. ASSUME NEW s \in Rooms, s # r PROVE left[s] = members[s] \ {u}
  <2>1. s = prev <=> u \in members[s]
    BY DEF PresenceInv, IndexAgrees
  <2>2. CASE s = prev
    BY <1>3, <2>2, NoRoomAssumption DEF PresenceInv, TypeOK, WithoutMember
  <2>3. CASE s # prev
    BY <2>1, <2>3 DEF PresenceInv, TypeOK, WithoutMember
  <2> QED BY <2>2, <2>3
<1>4. left[r] = members[r]
  BY DEF PresenceInv, TypeOK, WithoutMember
<1> HIDE DEF left
<1> QED BY <1>1, <1>2, <1>3, <1>4

\* JoinRoom keeps the invariant, a move from another room included.
LEMMA JoinInv ==
  ASSUME PresenceInv, NEW r \in Rooms, NEW u \in Users, JoinRoom(r, u)
  PROVE  PresenceInv'
<1> DEFINE prev  == userRoom[u]
           moves == prev # NoRoom /\ prev # r
           gone  == IF moves /\ Empties(prev, u) THEN {prev} ELSE {}
<1>1. members' = [s \in Rooms |-> IF s = r THEN members[s] \union {u}
                                           ELSE members[s] \ {u}]
  BY JoinMoves
<1>2. userRoom' = [userRoom EXCEPT ![u] = r]
  BY DEF JoinRoom
<1>3. gone = {s \in Rooms : s # r /\ members[s] # {} /\ members[s] \ {u} = {}}
  BY NoRoomAssumption DEF PresenceInv, TypeOK, IndexAgrees, Empties
<1>4. /\ activeRooms' = (activeRooms \ gone) \union {r}
      /\ pendingEmpty' = (pendingEmpty \union gone) \ {r}
  BY DEF JoinRoom
<1>5. TypeOK'
  BY <1>1, <1>2, <1>3, <1>4 DEF PresenceInv, TypeOK
<1>6. IndexAgrees'
  BY <1>1, <1>2 DEF PresenceInv, TypeOK, IndexAgrees
<1>7. CandidatesAgree'
  <2> HIDE DEF gone
  <2> QED BY <1>1, <1>3, <1>4 DEF PresenceInv, TypeOK, CandidatesAgree
<1> QED BY <1>5, <1>6, <1>7 DEF PresenceInv

\* LeaveRoom keeps it, a leave of a room the user is not in included.
LEMMA LeaveInv ==
  ASSUME PresenceInv, NEW r \in Rooms, NEW u \in Users, LeaveRoom(r, u)
  PROVE  PresenceInv'
<1>1. TypeOK'
  BY DEF PresenceInv, TypeOK, LeaveRoom, WithoutMember, UserRoomWithout, Empties
<1>2. IndexAgrees'
  BY NoRoomAssumption
     DEF PresenceInv, TypeOK, IndexAgrees, LeaveRoom, WithoutMember, UserRoomWithout
<1>3. CandidatesAgree'
  BY DEF PresenceInv, TypeOK, CandidatesAgree, LeaveRoom, WithoutMember, Empties
<1> QED BY <1>1, <1>2, <1>3 DEF PresenceInv

\* DeleteRoomPresence keeps it.
LEMMA DeleteInv ==
  ASSUME PresenceInv, NEW r \in Rooms, DeleteRoomPresence(r)
  PROVE  PresenceInv'
<1>1. CASE members[r] = {}
  BY <1>1 DEF DeleteRoomPresence, vars, PresenceInv, TypeOK, IndexAgrees, CandidatesAgree
<1>2. CASE members[r] # {}
  <2>1. TypeOK'
    BY <1>2 DEF PresenceInv, TypeOK, DeleteRoomPresence
  <2>2. IndexAgrees'
    BY <1>2, NoRoomAssumption DEF PresenceInv, TypeOK, IndexAgrees, DeleteRoomPresence
  <2>3. CandidatesAgree'
    BY <1>2 DEF PresenceInv, TypeOK, CandidatesAgree, DeleteRoomPresence
  <2> QED BY <2>1, <2>2, <2>3 DEF PresenceInv
<1> QED BY <1>1, <1>2

\* So does every step.
LEMMA StepInv == PresenceInv /\ [Next]_vars => PresenceInv'
<1> SUFFICES ASSUME PresenceInv, [Next]_vars PROVE PresenceInv'
  OBVIOUS
<1>1. ASSUME NEW r \in Rooms, NEW u \in Users, JoinRoom(r, u) PROVE PresenceInv'
  BY <1>1, JoinInv
<1>2. ASSUME NEW r \in Rooms, NEW u \in Users, LeaveRoom(r, u) PROVE PresenceInv'
  BY <1>2, LeaveInv
<1>3. ASSUME NEW r \in Rooms, DeleteRoomPresence(r) PROVE PresenceInv'
  BY <1>3, DeleteInv
<1>4. ASSUME NEW r \in Rooms, ClearPendingEmpty(r) PROVE PresenceInv'
  BY <1>4 DEF ClearPendingEmpty, PresenceInv, TypeOK, IndexAgrees, CandidatesAgree
<1>5. CASE UNCHANGED vars
  BY <1>5 DEF vars, PresenceInv, TypeOK, IndexAgrees, CandidatesAgree
<1> QED BY <1>1, <1>2, <1>3, <1>4, <1>5 DEF Next

\* In every behaviour of the store the reverse index, the member maps and the
\* two candidate sets of the cleanup agree.
THEOREM PresenceInvariant == Spec => []PresenceInv
  BY InitInv, StepInv, PTL DEF Spec

\* "A user may appear in at most one room at a time (enforced by JoinRoom)."
THEOREM OneRoomPerUser == Spec => []AtMostOneRoom
<1>1. PresenceInv => AtMostOneRoom
  BY DEF PresenceInv, IndexAgrees, AtMostOneRoom
<1> QED BY <1>1, PresenceInvariant, PTL

\* The mutex-protected store implements the interface contract: a join removes
\* the user from every other room and a leave touches the named room only.
THEOREM MemoryImplementsContract == Spec => ImplementsContract
<1>1. Init => Contract!Init
  BY DEF Init, Contract!Init
<1>2. PresenceInv /\ [Next]_vars => [Contract!Next]_(Contract!contractVars)
  <2> SUFFICES ASSUME PresenceInv, [Next]_vars
               PROVE  Contract!Next \/ UNCHANGED <<members, userRoom>>
    BY DEF Contract!contractVars
  <2>1. ASSUME NEW r \in Rooms, NEW u \in Users, JoinRoom(r, u)
        PROVE  Contract!Join(r, u)
    BY <2>1, JoinMoves DEF JoinRoom, Contract!Join
  <2>2. ASSUME NEW r \in Rooms, NEW u \in Users, LeaveRoom(r, u)
        PROVE  Contract!Leave(r, u)
    <3>1. userRoom[u] = r => members[r] # {}
      BY DEF PresenceInv, IndexAgrees
    <3> QED BY <2>2, <3>1 DEF LeaveRoom, WithoutMember, UserRoomWithout, Contract!Leave
  <2>3. ASSUME NEW r \in Rooms, DeleteRoomPresence(r), UNCHANGED vars
        PROVE  UNCHANGED <<members, userRoom>>
    BY <2>3 DEF vars
  <2>4. ASSUME NEW r \in Rooms, DeleteRoomPresence(r), members[r] # {}
        PROVE  Contract!Clear(r)
    <3>1. \A u \in Users : u \in members[r] <=> userRoom[u] = r
      BY DEF PresenceInv, IndexAgrees
    <3> QED BY <2>4, <3>1 DEF DeleteRoomPresence, Contract!Clear
  <2>5. ASSUME NEW r \in Rooms, ClearPendingEmpty(r) PROVE UNCHANGED <<members, userRoom>>
    BY <2>5 DEF ClearPendingEmpty
  <2>6. CASE UNCHANGED vars
    BY <2>6 DEF vars
  <2>7. ASSUME NEW r \in Rooms, DeleteRoomPresence(r)
        PROVE  UNCHANGED vars \/ members[r] # {}
    BY <2>7 DEF DeleteRoomPresence
  <2> QED BY <2>1, <2>2, <2>3, <2>4, <2>5, <2>6, <2>7 DEF Next, Contract!Next, Contract!Move
<1> QED BY <1>1, <1>2, PresenceInvariant, PTL DEF Spec, ImplementsContract, Contract!Spec

----------------------------------------------------------------------------
(* The caches in memory beside those of Redis.                             *)

Entries == [val : SUBSET (Nat \union Granted), at : Nat]

DoublesTypes ==
    /\ now \in Nat
    /\ mem \in [Doubles!Keys -> Entries] /\ red \in [Doubles!Keys -> Entries]
    /\ redLock \in Nat

\* What is found under a session key expires at the same moment in both.
SessionInv ==
    \A k \in Doubles!SessionKeys \ endless :
        /\ Doubles!MemGet(k) = Doubles!RedGet(k)
        /\ mem[k].at > now /\ mem[k].val # {} => red[k].at = mem[k].at

\* A lock held in memory has a goroutine that will free it.
LockInv == Doubles!LockHeld /\ (memLock => sleepers # {})

DoublesInv == DoublesTypes /\ SessionInv /\ Doubles!RoomsAgree /\ LockInv

LEMMA DoublesConstants ==
  /\ StateTTL \in Nat \ {0} /\ AccessTTL \in Nat \ {0} /\ LockTTL \in Nat \ {0} /\ MaxTime \in Nat \ {0}
  /\ SessionTTLs \subseteq Nat /\ Doubles!Never \in Nat
BY MemoryAssumption DEF Doubles!DoublesAssumption, Doubles!Never

\* The keys of the two kinds are apart.
LEMMA KeyKinds ==
  /\ Doubles!SessionKeys \cap Doubles!RoomKeys = {} /\ Doubles!Keys = Doubles!SessionKeys \union Doubles!RoomKeys
  /\ "state" \in Doubles!RoomKeys /\ "access" \in Doubles!RoomKeys /\ "refresh" \in Doubles!SessionKeys
  /\ Doubles!NoEntry \in Entries
BY DEF Doubles!SessionKeys, Doubles!RoomKeys, Doubles!Keys, Doubles!NoEntry, Entries

\* A call on a session key.
LEMMA DoublesSession ==
  ASSUME DoublesInv, NEW k \in Doubles!SessionKeys,
         Doubles!GetSession(k) \/ \E ttl \in SessionTTLs : Doubles!SetSession(k, ttl)
  PROVE  DoublesInv'
<1> USE DoublesConstants, KeyKinds
<1>1. /\ k \in Doubles!Keys /\ now \in Nat /\ mem \in [Doubles!Keys -> Entries]
      /\ red \in [Doubles!Keys -> Entries]
  BY DEF DoublesInv, DoublesTypes
<1>2. CASE Doubles!GetSession(k)
  <2>1. /\ mem' = [mem EXCEPT ![k] = IF Doubles!MemGet(k) = {} THEN Doubles!NoEntry ELSE mem[k]]
        /\ UNCHANGED <<now, red, endless, lapsed, memLock, sleepers, redLock, woken>>
    BY <1>2 DEF Doubles!GetSession, Doubles!lockVars
  <2>2. DoublesTypes'
    BY <1>1, <2>1 DEF DoublesInv, DoublesTypes
  <2>3. \A j \in Doubles!Keys : mem'[j] = IF j = k /\ Doubles!MemGet(k) = {} THEN Doubles!NoEntry ELSE mem[j]
    BY <1>1, <2>1
  <2>4. SessionInv'
    BY <1>1, <2>1, <2>3 DEF DoublesInv, SessionInv, Doubles!MemGet, Doubles!RedGet, Doubles!NoEntry
  <2>5. Doubles!RoomsAgree'
    BY <1>1, <2>1, <2>3 DEF DoublesInv, Doubles!RoomsAgree, Doubles!MemGet, Doubles!RedGet
  <2> QED
    BY <2>1, <2>2, <2>4, <2>5 DEF DoublesInv, LockInv, Doubles!LockHeld
<1>3. ASSUME NEW ttl \in SessionTTLs, Doubles!SetSession(k, ttl) PROVE DoublesInv'
  <2>1. /\ mem' = [mem EXCEPT ![k] = [val |-> {now}, at |-> now + ttl]]
        /\ red' = [red EXCEPT ![k] = [val |-> {now}, at |-> IF ttl = 0 THEN Doubles!Never ELSE now + ttl]]
        /\ endless' = IF ttl = 0 THEN endless \union {k} ELSE endless \ {k}
        /\ UNCHANGED <<now, lapsed, memLock, sleepers, redLock, woken>>
    BY <1>3 DEF Doubles!SetSession, Doubles!lockVars
  <2>2. ttl \in Nat /\ now + ttl \in Nat
    BY <1>1
  <2>3. [val |-> {now}, at |-> now + ttl] \in Entries /\ [val |-> {now}, at |-> Doubles!Never] \in Entries
    BY <1>1, <2>2 DEF Entries
  <2>4. DoublesTypes'
    BY <1>1, <2>1, <2>3 DEF DoublesInv, DoublesTypes
  <2>5. \A j \in Doubles!Keys \ {k} : mem'[j] = mem[j] /\ red'[j] = red[j]
    BY <1>1, <2>1
  <2>6. mem'[k] = [val |-> {now}, at |-> now + ttl] /\ (ttl # 0 => red'[k] = mem'[k])
    BY <1>1, <2>1
  <2>7. SessionInv'
    <3> SUFFICES ASSUME NEW j \in Doubles!SessionKeys \ endless'
                 PROVE  /\ Doubles!MemGet(j)' = Doubles!RedGet(j)'
                        /\ mem'[j].at > now' /\ mem'[j].val # {} => red'[j].at = mem'[j].at
      BY DEF SessionInv
    <3>1. CASE j = k
      BY <1>1, <2>1, <2>2, <2>6, <3>1 DEF Doubles!MemGet, Doubles!RedGet
    <3>2. CASE j # k
      BY <2>1, <2>5, <3>2 DEF DoublesInv, SessionInv, Doubles!MemGet, Doubles!RedGet
    <3> QED
      BY <3>1, <3>2
  <2>8. Doubles!RoomsAgree'
    BY <2>1, <2>5 DEF DoublesInv, Doubles!RoomsAgree, Doubles!MemGet, Doubles!RedGet
  <2> QED
    BY <2>1, <2>4, <2>7, <2>8 DEF DoublesInv, LockInv, Doubles!LockHeld
<1> QED
  BY <1>2, <1>3

\* A call on a key of a room, and a deletion.
LEMMA DoublesRoom ==
  ASSUME DoublesInv,
         \/ Doubles!SetRoomState
         \/ \E u \in Granted : Doubles!GrantRoomAccess(u)
         \/ \E k \in Doubles!RoomKeys \union {"refresh"} : Doubles!Delete(k)
  PROVE  DoublesInv'
<1> USE DoublesConstants, KeyKinds
<1>1. /\ now \in Nat /\ mem \in [Doubles!Keys -> Entries] /\ red \in [Doubles!Keys -> Entries]
  BY DEF DoublesInv, DoublesTypes
<1>2. ASSUME NEW k \in Doubles!Keys, NEW m \in Entries, NEW e \in Entries,
             mem' = [mem EXCEPT ![k] = m], red' = [red EXCEPT ![k] = e],
             k \in Doubles!SessionKeys => m = Doubles!NoEntry /\ e = Doubles!NoEntry,
             k \in Doubles!RoomKeys \ lapsed' => m.val = e.val,
             endless \subseteq endless' \union {k}, lapsed \subseteq lapsed' \union {k},
             UNCHANGED <<now, memLock, sleepers, redLock, woken>>
      PROVE  DoublesInv'
  <2>1. DoublesTypes'
    BY <1>1, <1>2 DEF DoublesInv, DoublesTypes
  <2>2. /\ mem'[k] = m /\ red'[k] = e
        /\ \A j \in Doubles!Keys \ {k} : mem'[j] = mem[j] /\ red'[j] = red[j]
    BY <1>1, <1>2
  <2>3. ASSUME NEW j \in Doubles!SessionKeys \ endless'
        PROVE  /\ Doubles!MemGet(j)' = Doubles!RedGet(j)'
               /\ mem'[j].at > now' /\ mem'[j].val # {} => red'[j].at = mem'[j].at
    <3>1. CASE j = k
      BY <1>2, <2>2, <3>1, SMTT(20) DEF Doubles!MemGet, Doubles!RedGet, Doubles!NoEntry
    <3>2. CASE j # k
      BY <1>2, <2>2, <3>2 DEF DoublesInv, SessionInv, Doubles!MemGet, Doubles!RedGet
    <3> QED
      BY <3>1, <3>2
  <2>4. Doubles!RoomsAgree'
    BY <1>2, <2>2 DEF DoublesInv, Doubles!RoomsAgree, Doubles!MemGet, Doubles!RedGet
  <2> QED
    BY <1>2, <2>1, <2>3, <2>4 DEF DoublesInv, SessionInv, LockInv, Doubles!LockHeld
<1>3. CASE Doubles!SetRoomState
  <2>1. now + StateTTL \in Nat
    BY <1>1
  <2>2. [val |-> {now}, at |-> Doubles!Never] \in Entries /\ [val |-> {now}, at |-> now + StateTTL] \in Entries
    BY <1>1, <2>1 DEF Entries
  <2> QED
    BY <1>2, <1>3, <2>2 DEF Doubles!SetRoomState, Doubles!lockVars
<1>4. ASSUME NEW u \in Granted, Doubles!GrantRoomAccess(u) PROVE DoublesInv'
  <2> DEFINE m == [val |-> mem["access"].val \union {u}, at |-> Doubles!Never]
             e == [val |-> red["access"].val \union {u}, at |-> now + AccessTTL]
  <2>1. now + AccessTTL \in Nat /\ mem["access"] \in Entries /\ red["access"] \in Entries
    BY <1>1
  <2>2. m \in Entries /\ e \in Entries
    BY <1>1, <2>1 DEF Entries
  <2>3. /\ mem' = [mem EXCEPT !["access"] = m] /\ red' = [red EXCEPT !["access"] = e]
        /\ UNCHANGED <<now, endless, lapsed, memLock, sleepers, redLock, woken>>
    BY <1>4 DEF Doubles!GrantRoomAccess, Doubles!lockVars
  <2>4. "access" \notin lapsed => m.val = e.val
    BY DEF DoublesInv, Doubles!RoomsAgree, Doubles!MemGet, Doubles!RedGet
  <2> HIDE DEF m, e
  <2> QED
    BY <1>2, <2>2, <2>3, <2>4
<1>5. ASSUME NEW k \in Doubles!RoomKeys \union {"refresh"}, Doubles!Delete(k) PROVE DoublesInv'
  BY <1>2, <1>5 DEF Doubles!Delete, Doubles!lockVars
<1> QED
  BY <1>3, <1>4, <1>5

\* The lock of the cleanup, and the clock.
LEMMA DoublesLock ==
  ASSUME DoublesInv, Doubles!TryAcquireCleanupLock \/ Doubles!ReleaseCleanupLock \/ Doubles!Wake
  PROVE  DoublesInv'
<1> USE DoublesConstants
<1>1. UNCHANGED <<now, mem, red, endless, lapsed>>
  BY DEF Doubles!TryAcquireCleanupLock, Doubles!ReleaseCleanupLock, Doubles!Wake, Doubles!cacheVars
<1>2. redLock' \in Nat
  BY DEF DoublesInv, DoublesTypes, Doubles!TryAcquireCleanupLock, Doubles!ReleaseCleanupLock, Doubles!Wake
<1>3. LockInv'
  BY DEF DoublesInv, LockInv, Doubles!LockHeld, Doubles!TryAcquireCleanupLock,
         Doubles!ReleaseCleanupLock, Doubles!Wake
<1> QED
  BY <1>1, <1>2, <1>3 DEF DoublesInv, DoublesTypes, SessionInv, Doubles!RoomsAgree, Doubles!MemGet, Doubles!RedGet

LEMMA DoublesTick == ASSUME DoublesInv, Doubles!Tick PROVE DoublesInv'
<1> USE KeyKinds
<1>1. /\ now \in Nat /\ mem \in [Doubles!Keys -> Entries] /\ red \in [Doubles!Keys -> Entries] /\ redLock \in Nat
  BY DEF DoublesInv, DoublesTypes
<1>2. /\ now' = now + 1 /\ UNCHANGED <<mem, endless, memLock, sleepers, woken>>
      /\ red' = [k \in Doubles!Keys |-> IF now + 1 >= red[k].at THEN Doubles!NoEntry ELSE red[k]]
      /\ lapsed' = lapsed \union {k \in Doubles!RoomKeys : red[k] # Doubles!NoEntry /\ now + 1 >= red[k].at}
      /\ redLock' = IF now + 1 >= redLock THEN 0 ELSE redLock
  BY DEF Doubles!Tick
<1>3. DoublesTypes'
  BY <1>1, <1>2 DEF DoublesTypes
<1>4. ASSUME NEW k \in Doubles!SessionKeys \ endless
      PROVE  /\ Doubles!MemGet(k)' = Doubles!RedGet(k)'
             /\ mem'[k].at > now' /\ mem'[k].val # {} => red'[k].at = mem'[k].at
  <2>1. /\ k \in Doubles!Keys /\ mem[k].at \in Nat /\ red[k].at \in Nat
        /\ red'[k] = IF now + 1 >= red[k].at THEN Doubles!NoEntry ELSE red[k]
    BY <1>1, <1>2 DEF Entries
  <2>2. /\ (IF mem[k].at <= now THEN {} ELSE mem[k].val) = red[k].val
        /\ mem[k].at > now /\ mem[k].val # {} => red[k].at = mem[k].at
    BY <1>4 DEF DoublesInv, SessionInv, Doubles!MemGet, Doubles!RedGet
  <2>3. red'[k].val = IF now + 1 >= red[k].at THEN {} ELSE red[k].val
    BY <2>1 DEF Doubles!NoEntry
  <2>4. (IF mem[k].at <= now + 1 THEN {} ELSE mem[k].val) = red'[k].val
    <3>1. CASE red[k].val = {}
      <4>1. mem[k].at <= now + 1 \/ mem[k].val = {}
        BY <1>1, <2>1, <2>2, <3>1
      <4> QED
        BY <2>3, <3>1, <4>1
    <3>2. CASE red[k].val # {}
      <4>1. mem[k].at > now /\ red[k].val = mem[k].val /\ red[k].at = mem[k].at
        BY <1>1, <2>1, <2>2, <3>2
      <4>2. now + 1 >= red[k].at <=> mem[k].at <= now + 1
        BY <1>1, <2>1, <4>1
      <4> QED
        BY <2>3, <4>1, <4>2
    <3> QED
      BY <3>1, <3>2
  <2>5. mem[k].at > now + 1 /\ mem[k].val # {} => red'[k].at = mem[k].at
    BY <1>1, <2>1, <2>2
  <2> QED
    BY <1>2, <1>4, <2>4, <2>5 DEF Doubles!MemGet, Doubles!RedGet
<1>5. Doubles!RoomsAgree'
  <2> SUFFICES ASSUME NEW k \in Doubles!RoomKeys, k \notin lapsed' PROVE mem'[k].val = red'[k].val
    BY DEF Doubles!RoomsAgree, Doubles!MemGet, Doubles!RedGet
  <2>1. mem[k].val = red[k].val /\ k \in Doubles!Keys
    BY <1>2 DEF DoublesInv, Doubles!RoomsAgree, Doubles!MemGet, Doubles!RedGet
  <2>2. red'[k] = red[k]
    BY <1>2, <2>1
  <2> QED
    BY <1>2, <2>1, <2>2
<1>6. LockInv'
  BY <1>1, <1>2 DEF DoublesInv, LockInv, Doubles!LockHeld
<1> QED
  BY <1>2, <1>3, <1>4, <1>5, <1>6 DEF DoublesInv, SessionInv

\* What a test with the caches in memory shows of tokens, room state, grants and the
\* cleanup lock holds on Redis, for any TTLs, up to the differences that are named.
THEOREM DoublesDoAgree == Doubles!Spec => []DoublesAgree
<1>1. Doubles!Init => DoublesInv
  BY KeyKinds DEF Doubles!Init, DoublesInv, DoublesTypes, SessionInv, LockInv, Doubles!RoomsAgree,
                  Doubles!LockHeld, Doubles!MemGet, Doubles!RedGet, Doubles!NoEntry
<1>2. DoublesInv /\ [Doubles!Next]_(Doubles!vars) => DoublesInv'
  <2> SUFFICES ASSUME DoublesInv, [Doubles!Next]_(Doubles!vars) PROVE DoublesInv'
    OBVIOUS
  <2>1. CASE Doubles!Next
    BY <2>1, DoublesTick, DoublesSession, DoublesRoom, DoublesLock DEF Doubles!Next
  <2>2. CASE UNCHANGED Doubles!vars
    BY <2>2 DEF Doubles!vars, Doubles!cacheVars, Doubles!lockVars, DoublesInv, DoublesTypes, SessionInv,
                LockInv, Doubles!RoomsAgree, Doubles!LockHeld, Doubles!MemGet, Doubles!RedGet
  <2> QED
    BY <2>1, <2>2
<1>3. DoublesInv => DoublesAgree
  BY DEF DoublesInv, SessionInv, LockInv, DoublesAgree, Doubles!DoublesAgree, Doubles!SessionsAgree,
         Doubles!LockFreed
<1> QED
  BY <1>1, <1>2, <1>3, PTL DEF Doubles!Spec

----------------------------------------------------------------------------
(* The fan-out: who holds a channel that is closed.                        *)

PubTypes ==
    /\ sub \in [Subs -> {"new", "on", "off", "closed"}]
    /\ buf \in [Subs -> Seq(Msgs)] /\ got \in [Subs -> Seq(Msgs)]
    /\ pub \in [Msgs -> [pc : {"new", "send", "done"}, todo : SUBSET Subs]]
    /\ spill \subseteq Msgs \X Subs
    /\ owed \in [Msgs -> SUBSET Subs]

\* A channel that a Publish or a goroutine holds is in the map, or was taken out
\* while it was held.
HeldInv == \A s \in Subs : PubSub!Held(s) => sub[s] = "on" \/ s \in crossed

SurviveInv == PubTypes /\ HeldInv /\ PubSub!SurvivesUnlessCrossed

LEMMA PubTypesKept == ASSUME PubTypes, PubSub!Next PROVE PubTypes'
<1>1. ASSUME NEW s \in Subs,
             PubSub!Subscribe(s) \/ PubSub!Unsubscribe(s) \/ PubSub!Close(s)
      PROVE  PubTypes'
  BY <1>1 DEF PubTypes, PubSub!Subscribe, PubSub!Unsubscribe, PubSub!Close, PubSub!historyVars
<1>2. ASSUME NEW s \in Subs, PubSub!Receive(s) PROVE PubTypes'
  <2>1. Tail(buf[s]) \in Seq(Msgs) /\ Append(got[s], Head(buf[s])) \in Seq(Msgs)
    BY <1>2 DEF PubTypes, PubSub!Receive
  <2> QED
    BY <1>2, <2>1 DEF PubTypes, PubSub!Receive, PubSub!historyVars
<1>3. ASSUME NEW m \in Msgs, PubSub!Publish(m) \/ PubSub!Return(m) \/ PubSub!GiveUp(m) PROVE PubTypes'
  <2> DEFINE R == [pc : {"new", "send", "done"}, todo : SUBSET Subs]
  <2>a. pub \in [Msgs -> R] /\ pub[m] \in R
    BY DEF PubTypes
  <2>b. /\ [pc |-> "send", todo |-> {s \in Subs : sub[s] = "on"}] \in R
        /\ [pc |-> "done", todo |-> {}] \in R /\ [pub[m] EXCEPT !.pc = "done"] \in R
    BY <2>a
  <2>c. \E r \in R : pub' = [pub EXCEPT ![m] = r]
    BY <1>3, <2>a, <2>b DEF PubSub!Publish, PubSub!Return, PubSub!GiveUp
  <2>1. pub' \in [Msgs -> R]
    <3> HIDE DEF R
    <3> QED BY <2>a, <2>c
  <2>2. spill' \subseteq spill /\ owed' \in [Msgs -> SUBSET Subs]
    BY <1>3 DEF PubTypes, PubSub!Publish, PubSub!Return, PubSub!GiveUp, PubSub!historyVars
  <2>3. UNCHANGED <<sub, buf, got>>
    BY <1>3 DEF PubSub!Publish, PubSub!Return, PubSub!GiveUp
  <2> QED
    BY <2>1, <2>2, <2>3 DEF PubTypes
<1>4. ASSUME NEW m \in Msgs, NEW s \in Subs, PubSub!Send(m, s) \/ PubSub!Spill(m, s) PROVE PubTypes'
  <2>1. Append(buf[s], m) \in Seq(Msgs)
    BY DEF PubTypes
  <2>2. buf' \in [Subs -> Seq(Msgs)]
    BY <1>4, <2>1 DEF PubTypes, PubSub!Send, PubSub!Spill
  <2> DEFINE R == [pc : {"new", "send", "done"}, todo : SUBSET Subs]
  <2>a. pub \in [Msgs -> R] /\ pub[m] \in R
    BY DEF PubTypes
  <2>b. [pub[m] EXCEPT !.todo = @ \ {s}] \in R
    BY <2>a
  <2>c. pub' = pub \/ \E r \in R : pub' = [pub EXCEPT ![m] = r]
    BY <1>4, <2>a, <2>b DEF PubSub!Send, PubSub!Spill, PubSub!Served
  <2>3. pub' \in [Msgs -> R]
    <3> HIDE DEF R
    <3> QED BY <2>a, <2>c
  <2>4. spill' \subseteq Msgs \X Subs
    BY <1>4 DEF PubTypes, PubSub!Send, PubSub!Spill
  <2>5. UNCHANGED <<sub, got, owed>>
    BY <1>4 DEF PubSub!Send, PubSub!Spill, PubSub!historyVars
  <2> QED
    BY <2>2, <2>3, <2>4, <2>5 DEF PubTypes
<1>5. ASSUME NEW m \in Msgs, PubSub!Cancel(m) PROVE PubTypes'
  BY <1>5 DEF PubTypes, PubSub!Cancel
<1>6. ASSUME NEW m \in Msgs, NEW s \in Subs, PubSub!SpillGivesUp(m, s) PROVE PubTypes'
  BY <1>6 DEF PubTypes, PubSub!SpillGivesUp, PubSub!historyVars
<1> QED
  BY <1>1, <1>2, <1>3, <1>4, <1>5, <1>6 DEF PubSub!Next

\* What the steps of a Publish do to what is still to be served.
LEMMA PubSteps ==
  ASSUME PubTypes, NEW m \in Msgs
  PROVE  /\ \A n \in Msgs : pub[n].todo \subseteq Subs
         /\ PubSub!Publish(m) =>
              /\ pub[m].pc = "new" /\ pub[m].todo = {}
              /\ \A n \in Msgs \ {m} : pub'[n] = pub[n] /\ owed'[n] = owed[n]
              /\ pub'[m].pc = "send" /\ pub'[m].todo = {s \in Subs : sub[s] = "on"}
              /\ owed'[m] = pub'[m].todo
         /\ PubSub!Return(m) => \A n \in Msgs : /\ pub'[n].todo = pub[n].todo
                                                /\ pub'[n].pc = IF n = m THEN "done" ELSE pub[n].pc
         /\ PubSub!GiveUp(m) =>
              /\ \A n \in Msgs \ {m} : pub'[n] = pub[n]
              /\ pub'[m].pc = "done" /\ pub'[m].todo = {}
         /\ \A s \in Subs : PubSub!Send(m, s) =>
              /\ \A n \in Msgs \ {m} : pub'[n] = pub[n]
              /\ pub'[m].pc = pub[m].pc /\ pub'[m].todo = pub[m].todo \ {s}
<1>1. pub \in [Msgs -> [pc : {"new", "send", "done"}, todo : SUBSET Subs]] /\ owed \in [Msgs -> SUBSET Subs]
  BY DEF PubTypes
<1>2. \A n \in Msgs : pub[n].todo \subseteq Subs /\ pub[n] \in [pc : {"new", "send", "done"}, todo : SUBSET Subs]
  BY <1>1
<1>3. ASSUME PubSub!Publish(m)
      PROVE  /\ pub[m].pc = "new" /\ pub[m].todo = {}
             /\ \A n \in Msgs \ {m} : pub'[n] = pub[n] /\ owed'[n] = owed[n]
             /\ pub'[m].pc = "send" /\ pub'[m].todo = {s \in Subs : sub[s] = "on"}
             /\ owed'[m] = pub'[m].todo
  BY <1>1, <1>3 DEF PubSub!Publish, PubSub!Unsent
<1>4. ASSUME PubSub!Return(m), NEW n \in Msgs
      PROVE  pub'[n].todo = pub[n].todo /\ pub'[n].pc = IF n = m THEN "done" ELSE pub[n].pc
  BY <1>1, <1>2, <1>4 DEF PubSub!Return
<1>5. ASSUME PubSub!GiveUp(m)
      PROVE  /\ \A n \in Msgs \ {m} : pub'[n] = pub[n]
             /\ pub'[m].pc = "done" /\ pub'[m].todo = {}
  BY <1>1, <1>5 DEF PubSub!GiveUp
<1>6. ASSUME NEW s \in Subs, PubSub!Send(m, s)
      PROVE  /\ \A n \in Msgs \ {m} : pub'[n] = pub[n]
             /\ pub'[m].pc = pub[m].pc /\ pub'[m].todo = pub[m].todo \ {s}
  BY <1>1, <1>2, <1>6 DEF PubSub!Send, PubSub!Served
<1> QED
  BY <1>2, <1>3, <1>4, <1>5, <1>6

LEMMA SurviveStep == ASSUME SurviveInv, PubSub!Next PROVE SurviveInv'
<1>1. PubTypes /\ PubTypes'
  BY PubTypesKept DEF SurviveInv
<1>2. ASSUME NEW s \in Subs,
             \/ PubSub!Subscribe(s) \/ PubSub!Unsubscribe(s)
             \/ PubSub!Close(s) \/ PubSub!Receive(s)
      PROVE  SurviveInv'
  <2>1. \A t \in Subs : PubSub!Held(t)' <=> PubSub!Held(t)
    BY <1>2 DEF PubSub!Held, PubSub!Subscribe, PubSub!Unsubscribe, PubSub!Close, PubSub!Receive
  <2>2. HeldInv'
    BY <1>1, <1>2, <2>1 DEF SurviveInv, HeldInv, PubTypes,
       PubSub!Subscribe, PubSub!Unsubscribe, PubSub!Close, PubSub!Receive, PubSub!historyVars
  <2>3. CASE PubSub!Close(s)
    BY <1>1, <2>2, <2>3 DEF SurviveInv, HeldInv, PubSub!SurvivesUnlessCrossed, PubSub!Held,
       PubSub!Close, PubSub!historyVars
  <2>4. CASE ~PubSub!Close(s)
    BY <1>1, <1>2, <2>2, <2>4 DEF SurviveInv, PubSub!SurvivesUnlessCrossed, PubSub!Alive,
       PubSub!Subscribe, PubSub!Unsubscribe, PubSub!Receive, PubSub!historyVars
  <2> QED
    BY <2>3, <2>4
<1>3. ASSUME NEW m \in Msgs, PubSub!Publish(m) \/ PubSub!Return(m) \/ PubSub!GiveUp(m) PROVE SurviveInv'
  <2>1. UNCHANGED <<sub, panic, crossed, spill>>
    BY <1>3 DEF PubSub!Publish, PubSub!Return, PubSub!GiveUp, PubSub!historyVars
  <2>2. \A t \in Subs : PubSub!Held(t)' => PubSub!Held(t) \/ sub[t] = "on"
    BY <1>1, <1>3, <2>1, PubSteps DEF PubSub!Held
  <2> QED
    BY <1>1, <2>1, <2>2 DEF SurviveInv, HeldInv, PubSub!SurvivesUnlessCrossed
<1>4. ASSUME NEW m \in Msgs, NEW s \in Subs, PubSub!Send(m, s) \/ PubSub!Spill(m, s) PROVE SurviveInv'
  <2>1. PubSub!Held(s)
    BY <1>4 DEF PubSub!Held, PubSub!Send, PubSub!Spill
  <2>2. \A t \in Subs, n \in Msgs : /\ pub'[n].pc = "send" /\ t \in pub'[n].todo => PubSub!Held(t)
                                    /\ <<n, t>> \in spill' => <<n, t>> \in spill \/ t = s
    <3>1. CASE PubSub!Send(m, s)
      <4>1. spill' \subseteq spill \union {<<m, s>>}
        BY <3>1 DEF PubSub!Send
      <4>2. \A n \in Msgs : pub'[n].pc = pub[n].pc /\ pub'[n].todo \subseteq pub[n].todo
        BY <1>1, <3>1, PubSteps
      <4> QED
        BY <4>1, <4>2 DEF PubSub!Held
    <3>2. CASE PubSub!Spill(m, s)
      BY <3>2 DEF PubSub!Held, PubSub!Spill
    <3> QED
      BY <1>4, <3>1, <3>2
  <2>3. \A t \in Subs : PubSub!Held(t)' => PubSub!Held(t)
    BY <2>1, <2>2 DEF PubSub!Held
  <2>4. panic' => crossed # {}
    BY <1>4, <2>1 DEF SurviveInv, HeldInv, PubSub!SurvivesUnlessCrossed, PubSub!Send, PubSub!Spill
  <2>5. UNCHANGED <<sub, crossed>>
    BY <1>4 DEF PubSub!Send, PubSub!Spill, PubSub!historyVars
  <2> QED
    BY <1>1, <2>3, <2>4, <2>5 DEF SurviveInv, HeldInv, PubSub!SurvivesUnlessCrossed
<1>5. ASSUME NEW m \in Msgs, NEW s \in Subs, PubSub!SpillGivesUp(m, s)
      PROVE  SurviveInv'
  <2>1. UNCHANGED <<sub, pub, panic, crossed>> /\ spill' \subseteq spill
    BY <1>5 DEF PubSub!SpillGivesUp, PubSub!historyVars
  <2>2. \A t \in Subs : PubSub!Held(t)' => PubSub!Held(t)
    BY <2>1 DEF PubSub!Held
  <2> QED
    BY <1>1, <2>1, <2>2 DEF SurviveInv, HeldInv, PubSub!SurvivesUnlessCrossed
<1>6. ASSUME NEW m \in Msgs, PubSub!Cancel(m) PROVE SurviveInv'
  <2>1. UNCHANGED <<sub, pub, spill, panic, crossed>>
    BY <1>6 DEF PubSub!Cancel
  <2>2. \A t \in Subs : PubSub!Held(t)' <=> PubSub!Held(t)
    BY <2>1 DEF PubSub!Held
  <2> QED
    BY <1>1, <2>1, <2>2 DEF SurviveInv, HeldInv, PubSub!SurvivesUnlessCrossed
<1> QED
  BY <1>2, <1>3, <1>4, <1>5, <1>6 DEF PubSub!Next

\* For any number of subscribers and messages and any buffer: a send meets a closed
\* channel only after someone unsubscribed while a Publish held the channel.
THEOREM SurvivesAsLongAsUncrossed == PubSub!Spec => []SurvivesUnlessCrossed
<1>1. PubSub!Init => SurviveInv
  BY DEF PubSub!Init, SurviveInv, PubTypes, HeldInv, PubSub!Held, PubSub!Unsent, PubSub!SurvivesUnlessCrossed
<1>2. SurviveInv /\ [PubSub!Next]_(PubSub!vars) => SurviveInv'
  <2> SUFFICES ASSUME SurviveInv, UNCHANGED PubSub!vars PROVE SurviveInv'
    BY SurviveStep
  <2> QED
    BY DEF SurviveInv, PubTypes, HeldInv, PubSub!Held, PubSub!SurvivesUnlessCrossed, PubSub!vars
<1>3. SurviveInv => SurvivesUnlessCrossed
  BY DEF SurviveInv, SurvivesUnlessCrossed
<1> QED
  BY <1>1, <1>2, <1>3, PTL DEF PubSub!Spec

----------------------------------------------------------------------------
(* The fan-out: every message once.                                        *)

All(s) == got[s] \o buf[s]

Distinct(q) == \A i, j \in 1..Len(q) : i # j => q[i] # q[j]

\* Where a message is on its way to s: still to be served, with a goroutine, or
\* in the channel, in one of these at most; and only where it is owed.
PlaceInv ==
    \A s \in Subs, m \in Msgs :
        /\ m \in PubSub!ToSet(All(s)) => /\ s \in owed[m] /\ s \notin pub[m].todo
                                         /\ <<m, s>> \notin spill
        /\ <<m, s>> \in spill => s \in owed[m] /\ s \notin pub[m].todo
        /\ s \in pub[m].todo => s \in owed[m]
        /\ s \in owed[m] => pub[m].pc # "new"

\* Until its caller cancels, a message has such a place at everyone it is owed to.
AccountInv ==
    \A s \in Subs, m \in Msgs :
        s \in owed[m] /\ m \notin dropped /\ ~panic =>
            m \in PubSub!ToSet(All(s)) \/ s \in pub[m].todo \/ <<m, s>> \in spill

OnceInv == PubTypes /\ PlaceInv /\ AccountInv /\ \A s \in Subs : Distinct(All(s))

\* Taking the head of the buffer leaves the order of all messages as it is.
LEMMA TakeHead ==
  ASSUME NEW S, NEW g \in Seq(S), NEW b \in Seq(S), b # <<>>
  PROVE  Append(g, Head(b)) \o Tail(b) = g \o b
OBVIOUS

LEMMA AppendLast ==
  ASSUME NEW S, NEW g \in Seq(S), NEW b \in Seq(S), NEW m \in S
  PROVE  /\ g \o b \in Seq(S)
         /\ g \o Append(b, m) = Append(g \o b, m)
OBVIOUS

LEMMA AppendNew ==
  ASSUME NEW S, NEW q \in Seq(S), NEW m \in S
  PROVE  /\ PubSub!ToSet(Append(q, m)) = PubSub!ToSet(q) \union {m}
         /\ Distinct(q) /\ m \notin PubSub!ToSet(q) => Distinct(Append(q, m))
<1>1. /\ DOMAIN q = 1..Len(q) /\ DOMAIN Append(q, m) = 1..(Len(q) + 1) /\ Len(q) \in Nat
      /\ Len(Append(q, m)) = Len(q) + 1 /\ Append(q, m)[Len(q) + 1] = m
      /\ \A i \in 1..Len(q) : Append(q, m)[i] = q[i]
  OBVIOUS
<1>2. 1..(Len(q) + 1) = 1..Len(q) \union {Len(q) + 1}
  BY <1>1
<1>3. PubSub!ToSet(Append(q, m)) = PubSub!ToSet(q) \union {m}
  BY <1>1, <1>2 DEF PubSub!ToSet
<1>4. ASSUME Distinct(q), m \notin PubSub!ToSet(q) PROVE Distinct(Append(q, m))
  BY <1>1, <1>2, <1>4 DEF Distinct, PubSub!ToSet
<1> QED
  BY <1>3, <1>4

\* A sequence without repetitions has as many elements as places.
LEMMA CountDistinct ==
  ASSUME NEW S, NEW q \in Seq(S), Distinct(q)
  PROVE  Cardinality(PubSub!ToSet(q)) = Len(q)
<1>1. /\ DOMAIN q = 1..Len(q) /\ Len(q) \in Nat /\ PubSub!ToSet(q) = {q[i] : i \in 1..Len(q)}
      /\ q \in [1..Len(q) -> PubSub!ToSet(q)]
  BY DEF PubSub!ToSet
<1>2. q \in Injection(1..Len(q), PubSub!ToSet(q))
  BY <1>1 DEF Distinct, Injection, IsInjective
<1>3. q \in Surjection(1..Len(q), PubSub!ToSet(q))
  BY <1>1 DEF Surjection
<1>4. ExistsBijection(1..Len(q), PubSub!ToSet(q))
  BY <1>2, <1>3 DEF ExistsBijection, Bijection
<1> QED
  BY <1>1, <1>4, FS_CountingElements

LEMMA PubSubCardinality == \A S : PubSub!Cardinality(S) = Cardinality(S)
BY DEF PubSub!Cardinality, Cardinality

\* A step that puts nothing into a channel.
LEMMA OnceQuiet ==
  ASSUME OnceInv, PubTypes', \A s \in Subs : All(s)' = All(s),
         \/ UNCHANGED <<pub, spill, panic, owed, dropped>>
         \/ \E m \in Msgs : \/ PubSub!Publish(m) \/ PubSub!Return(m)
                            \/ PubSub!Cancel(m) \/ PubSub!GiveUp(m)
         \/ \E m \in Msgs, s \in Subs : PubSub!SpillGivesUp(m, s)
  PROVE  OnceInv'
<1>1. PubTypes /\ PlaceInv /\ AccountInv
  BY DEF OnceInv
<1>2. \A s \in Subs : Distinct(All(s)') /\ PubSub!ToSet(All(s)') = PubSub!ToSet(All(s))
  BY DEF OnceInv
<1> DEFINE In(m, s) == m \in PubSub!ToSet(All(s))
<1>3. \A m \in Msgs, s \in Subs : In(m, s)' <=> In(m, s)
  BY <1>2
<1> HIDE DEF In
<1>4. \A m \in Msgs, s \in Subs :
        /\ In(m, s) => s \in owed[m] /\ s \notin pub[m].todo /\ <<m, s>> \notin spill
        /\ <<m, s>> \in spill => s \in owed[m] /\ s \notin pub[m].todo
        /\ s \in pub[m].todo => s \in owed[m]
        /\ s \in owed[m] => pub[m].pc # "new"
        /\ s \in owed[m] /\ m \notin dropped /\ ~panic =>
             In(m, s) \/ s \in pub[m].todo \/ <<m, s>> \in spill
  BY <1>1 DEF PlaceInv, AccountInv, In
<1>5. SUFFICES ASSUME NEW m \in Msgs, NEW s \in Subs
               PROVE /\ In(m, s) => s \in owed'[m] /\ s \notin pub'[m].todo /\ <<m, s>> \notin spill'
                     /\ <<m, s>> \in spill' => s \in owed'[m] /\ s \notin pub'[m].todo
                     /\ s \in pub'[m].todo => s \in owed'[m]
                     /\ s \in owed'[m] => pub'[m].pc # "new"
                     /\ s \in owed'[m] /\ m \notin dropped' /\ ~panic' =>
                          In(m, s) \/ s \in pub'[m].todo \/ <<m, s>> \in spill'
  BY <1>2, <1>3 DEF OnceInv, PlaceInv, AccountInv, In
<1>6. CASE UNCHANGED <<pub, spill, panic, owed, dropped>>
  BY <1>4, <1>6
<1>7. CASE \E n \in Msgs : PubSub!Cancel(n)
  BY <1>4, <1>7 DEF PubSub!Cancel
<1>8. CASE \E n \in Msgs : PubSub!Publish(n)
  <2>1. PICK n \in Msgs : PubSub!Publish(n)
    BY <1>8
  <2>2. /\ pub[n].pc = "new" /\ \A k \in Msgs \ {n} : pub'[k] = pub[k] /\ owed'[k] = owed[k]
        /\ pub'[n].pc = "send" /\ owed'[n] = pub'[n].todo
        /\ UNCHANGED <<spill, panic, dropped>>
    BY <1>1, <2>1, PubSteps DEF PubSub!Publish
  <2>3. CASE m = n
    BY <1>4, <2>2, <2>3
  <2>4. CASE m # n
    BY <1>4, <2>2, <2>4
  <2> QED
    BY <2>3, <2>4
<1>9. CASE \E n \in Msgs : PubSub!Return(n)
  BY <1>1, <1>4, <1>9, PubSteps DEF PubSub!Return, PubSub!historyVars
<1>10. CASE \E n \in Msgs : PubSub!GiveUp(n)
  <2>1. PICK n \in Msgs : PubSub!GiveUp(n)
    BY <1>10
  <2>2. /\ \A k \in Msgs \ {n} : pub'[k] = pub[k]
        /\ pub'[n].pc = "done" /\ pub'[n].todo = {}
        /\ UNCHANGED <<owed, panic, spill, dropped>> /\ n \in dropped
    BY <1>1, <2>1, PubSteps DEF PubSub!GiveUp, PubSub!historyVars
  <2>3. CASE m = n
    BY <1>4, <2>2, <2>3
  <2>4. CASE m # n
    BY <1>4, <2>2, <2>4
  <2> QED
    BY <2>3, <2>4
<1>11. CASE \E n \in Msgs, t \in Subs : PubSub!SpillGivesUp(n, t)
  <2>1. PICK n \in Msgs, t \in Subs : PubSub!SpillGivesUp(n, t)
    BY <1>11
  <2>2. /\ n \in dropped /\ spill' = spill \ {<<n, t>>}
        /\ UNCHANGED <<pub, owed, panic, dropped>>
    BY <2>1 DEF PubSub!SpillGivesUp, PubSub!historyVars
  <2> QED
    BY <1>4, <2>2
<1> QED
  BY <1>6, <1>7, <1>8, <1>9, <1>10, <1>11

\* A round of the loop, or a goroutine that finds room.
LEMMA OnceSend ==
  ASSUME OnceInv, PubTypes', NEW n \in Msgs, NEW t \in Subs, PubSub!Send(n, t) \/ PubSub!Spill(n, t)
  PROVE  OnceInv'
<1>1. PubTypes /\ PlaceInv /\ AccountInv /\ \A s \in Subs : Distinct(All(s))
  BY DEF OnceInv
<1> DEFINE In(m, s) == m \in PubSub!ToSet(All(s))
           put == buf' # buf
<1>2. /\ \A m \in Msgs, s \in Subs :
           /\ In(m, s) => s \in owed[m] /\ s \notin pub[m].todo /\ <<m, s>> \notin spill
           /\ <<m, s>> \in spill => s \in owed[m] /\ s \notin pub[m].todo
           /\ s \in pub[m].todo => s \in owed[m]
           /\ s \in owed[m] => pub[m].pc # "new"
           /\ s \in owed[m] /\ m \notin dropped /\ ~panic =>
                In(m, s) \/ s \in pub[m].todo \/ <<m, s>> \in spill
  BY <1>1 DEF PlaceInv, AccountInv
<1>3. UNCHANGED <<got, owed, dropped>> /\ (buf' = buf \/ buf' = [buf EXCEPT ![t] = Append(@, n)])
  BY DEF PubSub!Send, PubSub!Spill, PubSub!historyVars
<1>4. ~In(n, t)
  BY <1>2 DEF PubSub!Send, PubSub!Spill
<1>5. /\ \A s \in Subs \ {t} : All(s)' = All(s)
      /\ All(t)' = IF put THEN Append(All(t), n) ELSE All(t)
      /\ All(t) \in Seq(Msgs)
  <2>1. got[t] \in Seq(Msgs) /\ buf[t] \in Seq(Msgs) /\ buf \in [Subs -> Seq(Msgs)]
    BY <1>1 DEF PubTypes
  <2>2. /\ got[t] \o buf[t] \in Seq(Msgs)
        /\ got[t] \o Append(buf[t], n) = Append(got[t] \o buf[t], n)
    <3>1. \A g, b \in Seq(Msgs) : g \o b \in Seq(Msgs) /\ g \o Append(b, n) = Append(g \o b, n)
      BY AppendLast
    <3> QED
      BY <2>1, <3>1, Zenon
  <2> QED
    BY <1>3, <2>1, <2>2 DEF All
<1>6. /\ \A s \in Subs : Distinct(All(s)')
      /\ \A m \in Msgs, s \in Subs : In(m, s)' <=> (In(m, s) \/ (put /\ m = n /\ s = t))
  <2>1. \A s \in Subs \ {t} : Distinct(All(s)') /\ \A m \in Msgs : In(m, s)' <=> In(m, s)
    BY <1>1, <1>5
  <2>2. /\ PubSub!ToSet(Append(All(t), n)) = PubSub!ToSet(All(t)) \union {n}
        /\ Distinct(Append(All(t), n))
    BY <1>1, <1>4, <1>5, AppendNew
  <2>3. Distinct(All(t)') /\ \A m \in Msgs : In(m, t)' <=> (In(m, t) \/ (put /\ m = n))
    <3>1. CASE put
      BY <1>5, <2>2, <3>1
    <3>2. CASE ~put
      BY <1>1, <1>5, <3>2
    <3> QED
      BY <3>1, <3>2
  <2> QED
    BY <2>1, <2>3
<1> HIDE DEF In, put
<1>7. SUFFICES ASSUME NEW m \in Msgs, NEW s \in Subs
               PROVE /\ In(m, s)' => s \in owed[m] /\ s \notin pub'[m].todo /\ <<m, s>> \notin spill'
                     /\ <<m, s>> \in spill' => s \in owed[m] /\ s \notin pub'[m].todo
                     /\ s \in pub'[m].todo => s \in owed[m]
                     /\ s \in owed[m] => pub'[m].pc # "new"
                     /\ s \in owed[m] /\ m \notin dropped /\ ~panic' =>
                          In(m, s)' \/ s \in pub'[m].todo \/ <<m, s>> \in spill'
  BY <1>3, <1>6 DEF OnceInv, PlaceInv, AccountInv, In
<1>8. buf' = [buf EXCEPT ![t] = Append(@, n)] => put
  <2>1. buf \in [Subs -> Seq(Msgs)] /\ buf[t] \in Seq(Msgs)
    BY <1>1 DEF PubTypes
  <2>2. Append(buf[t], n) # buf[t]
    <3>1. Len(Append(buf[t], n)) = Len(buf[t]) + 1 /\ Len(buf[t]) \in Nat
      BY <2>1
    <3> QED
      BY <3>1
  <2> QED
    BY <2>1, <2>2 DEF put
<1>9. CASE PubSub!Send(n, t)
  <2>1. /\ \A k \in Msgs \ {n} : pub'[k] = pub[k]
        /\ pub'[n].pc = pub[n].pc /\ pub'[n].todo = pub[n].todo \ {t}
        /\ t \in pub[n].todo /\ ~panic
    BY <1>1, <1>9, PubSteps DEF PubSub!Send, PubSub!Alive
  <2>2. \/ panic' /\ ~put /\ spill' = spill
        \/ put /\ spill' = spill
        \/ ~put /\ spill' = spill \union {<<n, t>>}
    BY <1>8, <1>9 DEF PubSub!Send, put
  <2> QED
    BY <1>2, <1>4, <1>6, <2>1, <2>2
<1>10. CASE PubSub!Spill(n, t)
  <2>1. /\ UNCHANGED pub /\ <<n, t>> \in spill /\ spill' = spill \ {<<n, t>>}
        /\ (put /\ panic' = panic) \/ (~put /\ panic')
    BY <1>8, <1>10 DEF PubSub!Spill, PubSub!Alive, put
  <2> QED
    BY <1>2, <1>4, <1>6, <2>1
<1> QED
  BY <1>9, <1>10

\* For any number of subscribers and messages and any buffer: no message reaches
\* anyone twice, and until its caller cancels none is lost.
THEOREM EveryMessageOnce == PubSub!Spec => []ExactlyOnce
<1>1. PubSub!Init => OnceInv
  <2> SUFFICES ASSUME PubSub!Init PROVE OnceInv
    OBVIOUS
  <2>1. PubTypes
    BY DEF PubSub!Init, PubTypes, PubSub!Unsent
  <2>2. \A s \in Subs : All(s) = <<>> /\ Len(All(s)) = 0 /\ PubSub!ToSet(All(s)) = {}
    BY DEF PubSub!Init, All, PubSub!ToSet
  <2>3. \A s \in Subs : Distinct(All(s))
    BY <2>2 DEF Distinct
  <2> QED
    BY <2>1, <2>2, <2>3 DEF OnceInv, PlaceInv, AccountInv, PubSub!Init, PubSub!Unsent
<1>2. OnceInv /\ [PubSub!Next]_(PubSub!vars) => OnceInv'
  <2> SUFFICES ASSUME OnceInv, [PubSub!Next]_(PubSub!vars) PROVE OnceInv'
    OBVIOUS
  <2>1. PubTypes'
    <3>1. CASE PubSub!Next
      BY <3>1, PubTypesKept DEF OnceInv
    <3>2. CASE UNCHANGED PubSub!vars
      BY <3>2 DEF OnceInv, PubTypes, PubSub!vars
    <3> QED
      BY <3>1, <3>2
  <2>2. CASE UNCHANGED PubSub!vars
    <3>1. \A s \in Subs : All(s)' = All(s)
      BY <2>2 DEF All, PubSub!vars
    <3> QED
      BY <2>1, <2>2, <3>1, OnceQuiet DEF PubSub!vars
  <2>3. ASSUME NEW s \in Subs, PubSub!Subscribe(s) \/ PubSub!Unsubscribe(s) \/ PubSub!Close(s)
        PROVE  OnceInv'
    <3>1. \A t \in Subs : All(t)' = All(t)
      BY <2>3 DEF All, PubSub!Subscribe, PubSub!Unsubscribe, PubSub!Close
    <3>2. UNCHANGED <<pub, spill, panic, owed, dropped>>
      BY <2>3 DEF PubSub!Subscribe, PubSub!Unsubscribe, PubSub!Close, PubSub!historyVars
    <3> QED
      BY <2>1, <3>1, <3>2, OnceQuiet
  <2>4. ASSUME NEW s \in Subs, PubSub!Receive(s) PROVE OnceInv'
    <3>1. /\ got[s] \in Seq(Msgs) /\ buf[s] \in Seq(Msgs) /\ buf[s] # <<>>
          /\ got' = [got EXCEPT ![s] = Append(@, Head(buf[s]))] /\ got \in [Subs -> Seq(Msgs)]
          /\ buf' = [buf EXCEPT ![s] = Tail(@)] /\ buf \in [Subs -> Seq(Msgs)]
      BY <2>4 DEF OnceInv, PubTypes, PubSub!Receive
    <3>2. Append(got[s], Head(buf[s])) \o Tail(buf[s]) = got[s] \o buf[s]
      BY <3>1, TakeHead
    <3>3. \A t \in Subs : All(t)' = All(t)
      BY <3>1, <3>2 DEF All
    <3> QED
      BY <2>1, <2>4, <3>3, OnceQuiet DEF PubSub!Receive, PubSub!historyVars
  <2>5. ASSUME NEW m \in Msgs,
               \/ PubSub!Publish(m) \/ PubSub!Return(m) \/ PubSub!Cancel(m) \/ PubSub!GiveUp(m)
        PROVE  OnceInv'
    <3>1. \A t \in Subs : All(t)' = All(t)
      BY <2>5 DEF All, PubSub!Publish, PubSub!Return, PubSub!Cancel, PubSub!GiveUp
    <3> QED
      BY <2>1, <2>5, <3>1, OnceQuiet
  <2>6. ASSUME NEW m \in Msgs, NEW s \in Subs, PubSub!SpillGivesUp(m, s) PROVE OnceInv'
    <3>1. \A t \in Subs : All(t)' = All(t)
      BY <2>6 DEF All, PubSub!SpillGivesUp
    <3> QED
      BY <2>1, <2>6, <3>1, OnceQuiet
  <2> QED
    BY <2>1, <2>2, <2>3, <2>4, <2>5, <2>6, OnceSend DEF PubSub!Next
<1>3. OnceInv => ExactlyOnce
  <2> SUFFICES ASSUME OnceInv, NEW s \in Subs
               PROVE  /\ Cardinality(PubSub!ToSet(All(s))) = Len(All(s))
                      /\ \A m \in PubSub!ToSet(All(s)) : s \in owed[m]
                      /\ \A m \in Msgs :
                           s \in owed[m] /\ m \notin dropped /\ ~panic =>
                             m \in PubSub!ToSet(All(s)) \/ s \in pub[m].todo \/ <<m, s>> \in spill
    BY PubSubCardinality DEF ExactlyOnce, PubSub!ExactlyOnce, All
  <2>1. All(s) \in Seq(Msgs)
    BY DEF OnceInv, PubTypes, All
  <2>2. PubSub!ToSet(All(s)) \subseteq Msgs
    BY <2>1 DEF PubSub!ToSet
  <2> QED
    BY <2>1, <2>2, CountDistinct DEF OnceInv, PlaceInv, AccountInv
<1> QED
  BY <1>1, <1>2, <1>3, PTL DEF PubSub!Spec
=============================================================================
