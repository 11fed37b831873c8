----------------------------- MODULE CleanupJob -----------------------------
(***************************************************************************)
(* When the global cleanup runs: MaybeRunGlobalCleanup of internal/room/   *)
(* hub.go, started in a goroutine of its own after every login, refresh    *)
(* and registration (internal/api/router.go), on any number of servers     *)
(* sharing one Redis.  What a run does to rooms is module RoomLifecycle.   *)
(* Time is counted in minutes and kept as ages, so no clock is bounded.    *)
(***************************************************************************)
EXTENDS Naturals

CONSTANTS
    Jobs,         \* goroutines that may be running at once
    Interval,     \* loginCleanupInterval
    LockTTL,      \* TTL of global:room_cleanup_lock
    JobTimeout    \* timeout of the context a goroutine runs under

ASSUME TimesAssumption ==
    /\ Interval \in Nat \ {0}
    /\ LockTTL \in Nat \ {0}
    /\ JobTimeout \in Nat \ {0}

VARIABLES
    since,     \* minutes since global:last_room_cleanup_at, Interval if more or never
    lockLeft,  \* minutes until global:room_cleanup_lock expires, 0: no such key
    pc,        \* pc[p]: the next command of goroutine p
    age,       \* age[p]: minutes since goroutine p was started
    overran    \* history: goroutines that have lived as long as the lock's TTL

vars == <<since, lockLeft, pc, age, overran>>

Init ==
    /\ since = Interval
    /\ lockLeft = 0
    /\ pc = [p \in Jobs |-> "idle"]
    /\ age = [p \in Jobs |-> 0]
    /\ overran = {}

\* A goroutine whose context has not timed out is about to issue this command.
At(p, label) == pc[p] = label /\ age[p] < JobTimeout

Goto(p, label) == pc' = [pc EXCEPT ![p] = label]

\* The goroutine ends; its age is of no further use.
End(p) == pc' = [pc EXCEPT ![p] = "idle"] /\ age' = [age EXCEPT ![p] = 0]

----------------------------------------------------------------------------
\* Slip: the throttle compares with a shorter interval.
ReadLastEarly(p) ==
    /\ pc[p] = "idle"
    /\ since >= Interval - 1
    /\ Goto(p, "try")
    /\ UNCHANGED <<since, lockLeft, age, overran>>
\* GetLastRoomCleanupAt and the test against loginCleanupInterval.
ReadLast(p) ==
    /\ pc[p] = "idle"
    /\ since >= Interval
    /\ Goto(p, "try")
    /\ UNCHANGED <<since, lockLeft, age, overran>>

\* Slip: the result of SETNX is ignored.
TryAcquireAlways(p) ==
    /\ At(p, "try")
    /\ lockLeft' = LockTTL
    /\ Goto(p, "run")
    /\ UNCHANGED <<since, age, overran>>
\* TryAcquireCleanupLock: SETNX with the TTL succeeds on an absent key only.
TryAcquireCleanupLock(p) ==
    /\ At(p, "try")
    /\ lockLeft = 0
    /\ lockLeft' = LockTTL
    /\ Goto(p, "run")
    /\ UNCHANGED <<since, age, overran>>

NotAcquired(p) ==
    /\ At(p, "try")
    /\ lockLeft # 0
    /\ End(p)
    /\ UNCHANGED <<since, lockLeft, overran>>

\* RunEmptyRoomCleanup succeeds; ProcessGlobalChatPending follows, its error is
\* ignored; SetLastRoomCleanupAt.
SetLastRoomCleanupAt(p) ==
    /\ At(p, "run")
    /\ since' = 0
    /\ Goto(p, "release")
    /\ UNCHANGED <<lockLeft, age, overran>>

\* RunEmptyRoomCleanup fails: the time of the last cleanup stays.
RunFails(p) ==
    /\ At(p, "run")
    /\ Goto(p, "release")
    /\ UNCHANGED <<since, lockLeft, age, overran>>

\* The deferred ReleaseCleanupLock: DEL of the key, whoever has set it.
ReleaseCleanupLock(p) ==
    /\ At(p, "release")
    /\ lockLeft' = 0
    /\ End(p)
    /\ UNCHANGED <<since, overran>>

\* The context has timed out: the next command fails and so does the deferred
\* release, which uses the same context.
TimedOut(p) ==
    /\ pc[p] # "idle"
    /\ age[p] >= JobTimeout
    /\ End(p)
    /\ UNCHANGED <<since, lockLeft, overran>>

\* The server process dies.
Crash(p) ==
    /\ pc[p] # "idle"
    /\ End(p)
    /\ UNCHANGED <<since, lockLeft, overran>>

\* Slip: the lock key is set without a TTL.
TickNoTTL ==
    /\ \A p \in Jobs : pc[p] # "idle" => age[p] < JobTimeout
    /\ since' = IF since < Interval THEN since + 1 ELSE Interval
    /\ age' = [p \in Jobs |-> IF pc[p] = "idle" THEN 0 ELSE age[p] + 1]
    /\ overran' = overran \union {p \in Jobs : age'[p] >= LockTTL}
    /\ UNCHANGED <<pc, lockLeft>>
\* A minute passes, unless a goroutine has yet to notice its timeout; Redis counts
\* the lock's TTL down.
Tick ==
    /\ \A p \in Jobs : pc[p] # "idle" => age[p] < JobTimeout
    /\ since' = IF since < Interval THEN since + 1 ELSE Interval
    /\ lockLeft' = IF lockLeft > 0 THEN lockLeft - 1 ELSE 0
    /\ age' = [p \in Jobs |-> IF pc[p] = "idle" THEN 0 ELSE age[p] + 1]
    /\ overran' = overran \union {p \in Jobs : age'[p] >= LockTTL}
    /\ UNCHANGED pc

Step(p) ==
    \/ TryAcquireCleanupLock(p) \/ NotAcquired(p)
    \/ SetLastRoomCleanupAt(p) \/ RunFails(p)
    \/ ReleaseCleanupLock(p) \/ TimedOut(p)

Next == Tick \/ \E p \in Jobs : ReadLast(p) \/ Step(p) \/ Crash(p)

Spec == Init /\ [][Next]_vars

\* Minutes pass, users keep logging in and goroutines make progress.  SETNX is the
\* command right after the read, so goroutines do not crash or time out exactly
\* between the two for ever: strong fairness of TryAcquireCleanupLock.
FairSpec ==
    /\ Spec
    /\ WF_vars(Tick)
    /\ \A p \in Jobs : /\ WF_vars(ReadLast(p))
                       /\ WF_vars(Step(p))
                       /\ SF_vars(TryAcquireCleanupLock(p))

----------------------------------------------------------------------------
TypeOK ==
    /\ since \in 0..Interval
    /\ lockLeft \in 0..LockTTL
    /\ pc \in [Jobs -> {"idle", "try", "run", "release"}]
    /\ age \in [Jobs -> 0..JobTimeout]
    /\ overran \subseteq Jobs

\* The goroutines between SETNX and DEL: the ones that close rooms.
Cleaning == {p \in Jobs : pc[p] \in {"run", "release"}}

\* Two goroutines never clean up at once.
MutualExclusion == \A p, q \in Cleaning : p = q

\* docs/room_empty_cleanup_ops_zh.md calls global:room_cleanup_lock the mutual
\* exclusion lock of the global cleanup.  It is one, in spite of its DEL without an
\* owner, as long as no goroutine lives for LockTTL; the context lets it live longer.
ExclusionUnlessOverrun == overran = {} => MutualExclusion

\* The inductive form: the lock outlives every goroutine that has set it, so that
\* nobody can set it a second time.
LockOutlivesJob == \A p \in Cleaning : lockLeft + age[p] >= LockTTL
YoungJobs == \A p \in Jobs : age[p] < LockTTL
ExclusionInv ==
    TypeOK /\ (overran = {} => MutualExclusion /\ LockOutlivesJob /\ YoungJobs)

\* The time of the last cleanup is read before the lock is taken, so it may be
\* stale.  Still, a goroutine that gets past the throttle too early was started
\* before the last cleanup ended: a login after it never causes a second run.
EarlyJobIsOld ==
    \A p \in Jobs : pc[p] # "idle" => since = Interval \/ age[p] >= since

\* Crashed, failed and timed out holders included, a goroutine takes the lock and
\* starts a cleanup again and again: the TTL never leaves the lock stuck.
CleanupRecurs == []<>(Cleaning # {})
=============================================================================
