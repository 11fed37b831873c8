------------------------- MODULE CleanupJob_proofs --------------------------
(***************************************************************************)
(* For every number of goroutines: the lock excludes concurrent cleanups   *)
(* as long as none of them has lived for the lock's TTL, and a throttle    *)
(* passed too early was passed by a goroutine older than the last cleanup. *)
(***************************************************************************)
EXTENDS CleanupJob, TLAPS

USE TimesAssumption

\* A step of a goroutine or of the clock keeps the types.
LEMMA TypeStep == TypeOK /\ [Next]_vars => TypeOK'
<1> SUFFICES ASSUME TypeOK, [Next]_vars PROVE TypeOK'
  OBVIOUS
<1> USE DEF TypeOK
<1>1. CASE Tick
  BY <1>1 DEF Tick
<1>2. ASSUME NEW p \in Jobs, ReadLast(p) PROVE TypeOK'
  BY <1>2 DEF ReadLast, Goto
<1>3. ASSUME NEW p \in Jobs, TryAcquireCleanupLock(p) PROVE TypeOK'
  BY <1>3 DEF TryAcquireCleanupLock, Goto
<1>4. ASSUME NEW p \in Jobs, NotAcquired(p) \/ TimedOut(p) \/ Crash(p) PROVE TypeOK'
  BY <1>4 DEF NotAcquired, TimedOut, Crash, End
<1>5. ASSUME NEW p \in Jobs, SetLastRoomCleanupAt(p) \/ RunFails(p) PROVE TypeOK'
  BY <1>5 DEF SetLastRoomCleanupAt, RunFails, Goto
<1>6. ASSUME NEW p \in Jobs, ReleaseCleanupLock(p) PROVE TypeOK'
  BY <1>6 DEF ReleaseCleanupLock, End
<1>7. CASE UNCHANGED vars
  BY <1>7 DEF vars
<1> QED BY <1>1, <1>2, <1>3, <1>4, <1>5, <1>6, <1>7 DEF Next, Step

\* The initial state has them.
LEMMA TypeInit == Init => TypeOK
  BY DEF Init, TypeOK

----------------------------------------------------------------------------
(* Mutual exclusion.                                                       *)

\* A goroutine past SETNX that has not overrun holds a lock that is still alive, and
\* no other such goroutine does: every step keeps this.
LEMMA ExclusionStep == ExclusionInv /\ [Next]_vars => ExclusionInv'
<1> DEFINE Held == MutualExclusion /\ LockOutlivesJob /\ YoungJobs
<1> SUFFICES ASSUME ExclusionInv, [Next]_vars, overran' = {} PROVE Held'
  BY TypeStep DEF ExclusionInv
<1>0. overran = {}
  BY DEF Next, Step, vars, Tick, ReadLast, TryAcquireCleanupLock, NotAcquired,
         SetLastRoomCleanupAt, RunFails, ReleaseCleanupLock, TimedOut, Crash
<1> TypeOK /\ Held
  BY <1>0 DEF ExclusionInv
<1> USE DEF TypeOK, YoungJobs
<1>1. CASE Tick
  <2>1. Cleaning' = Cleaning
    BY <1>1 DEF Tick, Cleaning
  <2>2. ASSUME NEW p \in Cleaning PROVE lockLeft' + age'[p] >= LockTTL
    BY <1>1, <2>2 DEF Tick, Cleaning, LockOutlivesJob
  <2>3. ASSUME NEW p \in Jobs PROVE age'[p] < LockTTL
    \* Otherwise the step would have recorded p in overran.
    <3>1. p \notin {j \in Jobs : age'[j] >= LockTTL}
      BY <1>1 DEF Tick
    <3>2. age'[p] \in Nat
      BY <1>1 DEF Tick
    <3> QED BY <3>1, <3>2
  <2> QED BY <2>1, <2>2, <2>3 DEF MutualExclusion, LockOutlivesJob
<1>2. ASSUME NEW p \in Jobs, ReadLast(p) PROVE Held'
  <2>1. Cleaning' = Cleaning
    BY <1>2 DEF ReadLast, Goto, Cleaning
  <2> QED BY <1>2, <2>1 DEF ReadLast, MutualExclusion, LockOutlivesJob
<1>3. ASSUME NEW p \in Jobs, TryAcquireCleanupLock(p)
      PROVE  Held'
  <2>1. Cleaning = {}
    \* A holder would have run for LockTTL minutes by now.
    <3> SUFFICES ASSUME NEW q \in Cleaning PROVE FALSE
      OBVIOUS
    <3> QED BY <1>3 DEF TryAcquireCleanupLock, LockOutlivesJob, Cleaning
  <2>2. Cleaning' = {p}
    BY <1>3, <2>1 DEF TryAcquireCleanupLock, Goto, Cleaning
  <2> QED BY <1>3, <2>2 DEF TryAcquireCleanupLock, MutualExclusion, LockOutlivesJob
<1>4. ASSUME NEW p \in Jobs, NotAcquired(p) \/ TimedOut(p) \/ Crash(p)
      PROVE  Held'
  <2>1. Cleaning' = Cleaning \ {p}
    BY <1>4 DEF NotAcquired, TimedOut, Crash, End, Cleaning
  <2>2. lockLeft' = lockLeft /\ \A q \in Jobs : q # p => age'[q] = age[q]
    BY <1>4 DEF NotAcquired, TimedOut, Crash, End
  <2>3. age'[p] = 0
    BY <1>4 DEF NotAcquired, TimedOut, Crash, End
  <2> QED BY <2>1, <2>2, <2>3 DEF MutualExclusion, LockOutlivesJob, Cleaning
<1>5. ASSUME NEW p \in Jobs, SetLastRoomCleanupAt(p) \/ RunFails(p)
      PROVE  Held'
  <2>1. Cleaning' = Cleaning
    BY <1>5 DEF SetLastRoomCleanupAt, RunFails, At, Goto, Cleaning
  <2> QED BY <1>5, <2>1
          DEF SetLastRoomCleanupAt, RunFails, MutualExclusion, LockOutlivesJob
<1>6. ASSUME NEW p \in Jobs, ReleaseCleanupLock(p)
      PROVE  Held'
  \* The one who releases is the only holder.
  <2>1. Cleaning' = {}
    BY <1>6 DEF ReleaseCleanupLock, At, End, Cleaning, MutualExclusion
  <2>2. YoungJobs'
    BY <1>6 DEF ReleaseCleanupLock, End
  <2> QED BY <2>1, <2>2 DEF MutualExclusion, LockOutlivesJob
<1>7. CASE UNCHANGED vars
  BY <1>7 DEF vars, MutualExclusion, LockOutlivesJob, Cleaning
<1> QED BY <1>1, <1>2, <1>3, <1>4, <1>5, <1>6, <1>7 DEF Next, Step

\* The lock without an owner token is enough for mutual exclusion until the first
\* goroutine lives for the lock's TTL, whatever crashes, fails or times out.
THEOREM Exclusion == Spec => []ExclusionUnlessOverrun
<1>1. Init => ExclusionInv
  BY TypeInit DEF ExclusionInv, Init, MutualExclusion, LockOutlivesJob, YoungJobs, Cleaning
<1>2. ExclusionInv => ExclusionUnlessOverrun
  BY DEF ExclusionInv, ExclusionUnlessOverrun
<1> QED BY <1>1, <1>2, ExclusionStep, PTL DEF Spec

----------------------------------------------------------------------------
(* The throttle.                                                           *)

\* A cleanup that starts less than Interval after the last one was requested by a
\* login that came before the end of that last one.
THEOREM EarlyJobsAreOld == Spec => []EarlyJobIsOld
<1> DEFINE Inv == TypeOK /\ EarlyJobIsOld
<1>1. Init => Inv
  BY TypeInit DEF Init, EarlyJobIsOld
<1>2. Inv /\ [Next]_vars => Inv'
  <2> SUFFICES ASSUME Inv, [Next]_vars PROVE EarlyJobIsOld'
    BY TypeStep
  <2> USE DEF TypeOK, EarlyJobIsOld
  <2>1. CASE Tick
    BY <2>1 DEF Tick
  <2>2. ASSUME NEW p \in Jobs, ReadLast(p) PROVE EarlyJobIsOld'
    BY <2>2 DEF ReadLast, Goto
  <2>3. ASSUME NEW p \in Jobs, TryAcquireCleanupLock(p) PROVE EarlyJobIsOld'
    BY <2>3 DEF TryAcquireCleanupLock, At, Goto
  <2>4. ASSUME NEW p \in Jobs, NotAcquired(p) \/ TimedOut(p) \/ Crash(p)
        PROVE  EarlyJobIsOld'
    BY <2>4 DEF NotAcquired, TimedOut, Crash, End
  <2>5. ASSUME NEW p \in Jobs, SetLastRoomCleanupAt(p) \/ RunFails(p)
        PROVE  EarlyJobIsOld'
    BY <2>5 DEF SetLastRoomCleanupAt, RunFails, At, Goto
  <2>6. ASSUME NEW p \in Jobs, ReleaseCleanupLock(p) PROVE EarlyJobIsOld'
    BY <2>6 DEF ReleaseCleanupLock, End
  <2>7. CASE UNCHANGED vars
    BY <2>7 DEF vars
  <2> QED BY <2>1, <2>2, <2>3, <2>4, <2>5, <2>6, <2>7 DEF Next, Step
<1> QED BY <1>1, <1>2, PTL DEF Spec
=============================================================================
