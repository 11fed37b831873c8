---------------------------- MODULE CacheDoubles ----------------------------
(***************************************************************************)
(* The in-memory caches of internal/cache/memory, on which the handlers    *)
(* are tested, beside those of internal/cache/redis, on which they run:    *)
(* SessionCache, RoomStateCache, RoomAccess and the lock of the cleanup.   *)
(* Every call is made on both at one moment.  One key of each kind; the    *)
(* value of room:access is its set of users.                               *)
(***************************************************************************)
EXTENDS Integers

CONSTANTS
    Users,      \* members of room:access
    SessionTTLs,\* TTLs that session keys are set with; Logout may pass 0
    StateTTL,   \* roomStateTTL
    AccessTTL,  \* roomAccessKeyTTL
    LockTTL,    \* ttl of TryAcquireCleanupLock
    MaxTime     \* bound: the last moment of the clock

DoublesAssumption ==
    /\ SessionTTLs \subseteq Nat
    /\ {StateTTL, AccessTTL, LockTTL, MaxTime} \subseteq Nat \ {0}

VARIABLES
    now,
    mem,       \* mem[k]: value and expiry of a key in memory
    red,       \* red[k]: value and expiry of a key in Redis
    memLock,   \* cleanupLock
    sleepers,  \* the moments at which goroutines that will free cleanupLock are due
    redLock,   \* when global:room_cleanup_lock expires, 0: no such key
    endless,   \* history: session keys last set with a TTL of 0
    lapsed,    \* history: room keys that Redis dropped for their age
    woken      \* history: whether a goroutine freed the lock that Redis still holds

cacheVars == <<mem, red, endless, lapsed>>
lockVars == <<memLock, sleepers, redLock, woken>>
vars == <<now, cacheVars, lockVars>>

SessionKeys == {"refresh", "blacklist"}
RoomKeys == {"state", "access"}
Keys == SessionKeys \union RoomKeys
Never == MaxTime + 1

\* Nothing under a key; the values are the moments they were set at.
NoEntry == [val |-> {}, at |-> 0]

Init ==
    /\ now = 1
    /\ mem = [k \in Keys |-> NoEntry] /\ red = [k \in Keys |-> NoEntry]
    /\ memLock = FALSE /\ sleepers = {} /\ redLock = 0
    /\ endless = {} /\ lapsed = {} /\ woken = FALSE

----------------------------------------------------------------------------
(* Session and room keys                                                   *)

\* Slip: an entry lives through the moment it expires at.
MemGetLate(k) == IF k \in SessionKeys /\ mem[k].at < now THEN {} ELSE mem[k].val
\* What a Get finds in memory: expired entries count as absent, and are deleted.
MemGet(k) == IF k \in SessionKeys /\ mem[k].at <= now THEN {} ELSE mem[k].val
RedGet(k) == red[k].val

\* SetRefreshToken, BlacklistToken: SET with a TTL of 0 is SET without one.
SetSession(k, ttl) ==
    /\ mem' = [mem EXCEPT ![k] = [val |-> {now}, at |-> now + ttl]]
    /\ red' = [red EXCEPT ![k] = [val |-> {now}, at |-> IF ttl = 0 THEN Never ELSE now + ttl]]
    /\ endless' = IF ttl = 0 THEN endless \union {k} ELSE endless \ {k}
    /\ UNCHANGED <<now, lapsed, lockVars>>

\* GetRefreshToken, IsBlacklisted.
GetSession(k) ==
    /\ mem' = [mem EXCEPT ![k] = IF MemGet(k) = {} THEN NoEntry ELSE @]
    /\ UNCHANGED <<now, red, endless, lapsed, lockVars>>

\* SetRoomState: no expiry in memory.
SetRoomState ==
    /\ mem' = [mem EXCEPT !["state"] = [val |-> {now}, at |-> Never]]
    /\ red' = [red EXCEPT !["state"] = [val |-> {now}, at |-> now + StateTTL]]
    /\ lapsed' = lapsed \ {"state"}
    /\ UNCHANGED <<now, endless, lockVars>>

\* GrantRoomAccess: SADD and EXPIRE, which renews the grants of all.
GrantRoomAccess(u) ==
    /\ mem' = [mem EXCEPT !["access"] = [val |-> @.val \union {u}, at |-> Never]]
    /\ red' = [red EXCEPT !["access"] = [val |-> @.val \union {u}, at |-> now + AccessTTL]]
    /\ UNCHANGED <<now, endless, lapsed, lockVars>>

\* DeleteRefreshToken, DeleteRoomState, DeleteRoomAccess.
Delete(k) ==
    /\ mem' = [mem EXCEPT ![k] = NoEntry]
    /\ red' = [red EXCEPT ![k] = NoEntry]
    /\ endless' = endless \ {k} /\ lapsed' = lapsed \ {k}
    /\ UNCHANGED <<now, lockVars>>

----------------------------------------------------------------------------
(* The lock of the cleanup                                                 *)

\* TryAcquireCleanupLock on both; each says for itself whether it was free.  In
\* memory a goroutine is started that frees the lock when ttl has passed.
TryAcquireCleanupLock ==
    /\ memLock' = TRUE
    /\ sleepers' = IF memLock THEN sleepers ELSE sleepers \union {now + LockTTL}
    /\ redLock' = IF redLock = 0 THEN now + LockTTL ELSE redLock
    /\ woken' = (woken /\ redLock # 0)
    /\ UNCHANGED <<now, cacheVars>>

ReleaseCleanupLock ==
    /\ memLock' = FALSE
    /\ redLock' = 0 /\ woken' = FALSE
    /\ UNCHANGED <<now, cacheVars, sleepers>>

\* A goroutine wakes up, when its ttl has passed or later, and frees the lock
\* although it may have been released and taken again.
Wake ==
    /\ \E t \in sleepers :
        /\ t <= now
        /\ sleepers' = sleepers \ {t}
    /\ memLock' = FALSE
    /\ woken' = (woken \/ (memLock /\ redLock # 0))
    /\ UNCHANGED <<now, cacheVars, redLock>>

----------------------------------------------------------------------------
\* The clock advances and Redis drops what has expired.
Tick ==
    /\ now < MaxTime
    /\ now' = now + 1
    /\ red' = [k \in Keys |-> IF now + 1 >= red[k].at THEN NoEntry ELSE red[k]]
    /\ lapsed' = lapsed \union {k \in RoomKeys : red[k] # NoEntry /\ now + 1 >= red[k].at}
    /\ redLock' = IF now + 1 >= redLock THEN 0 ELSE redLock
    /\ UNCHANGED <<mem, endless, memLock, sleepers, woken>>

Next ==
    \/ Tick
    \/ \E k \in SessionKeys, ttl \in SessionTTLs : SetSession(k, ttl)
    \/ \E k \in SessionKeys : GetSession(k)
    \/ SetRoomState
    \/ \E u \in Users : GrantRoomAccess(u)
    \/ \E k \in RoomKeys \union {"refresh"} : Delete(k)
    \/ TryAcquireCleanupLock \/ ReleaseCleanupLock \/ Wake

Spec == Init /\ [][Next]_vars

----------------------------------------------------------------------------
(* Properties                                                              *)

\* A test of tokens sees what production sees, at every moment up to and including
\* the one of expiry, unless the TTL was 0: that is no expiry in Redis, and an
\* entry that is gone at once in memory.
SessionsAgree == \A k \in SessionKeys \ endless : MemGet(k) = RedGet(k)

\* A test of room state or of grants sees what production sees until Redis drops
\* the key for its age; nothing is ever dropped in memory.
RoomsAgree == \A k \in RoomKeys \ lapsed : MemGet(k) = RedGet(k)

\* The lock in memory is held whenever the one in Redis is, unless a goroutine of
\* an earlier call has freed it: a test of exclusion is no stricter than Redis.
LockHeld == redLock # 0 => memLock \/ woken

\* The lock in memory is never stuck: where Redis has let go of its lock, a
\* goroutine is on its way that will free the one in memory.
LockFreed == memLock /\ redLock = 0 => sleepers # {}

\* All of that: what a test with the caches in memory shows, holds on Redis.
DoublesAgree == SessionsAgree /\ RoomsAgree /\ LockHeld /\ LockFreed
=============================================================================
