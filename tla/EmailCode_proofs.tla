-------------------------- MODULE EmailCode_proofs --------------------------
(***************************************************************************)
(* Verification codes, for any number of requests and verifications and    *)
(* any limits, intervals and lengths of a day: the store on Redis, whose   *)
(* commands interleave, and the one in memory.                             *)
(***************************************************************************)
EXTENDS MCEmailCode, FiniteSetTheorems, TLAPS

----------------------------------------------------------------------------
(* Days and counts                                                         *)

LEMMA EmailConstants ==
  /\ Sec \in Nat \ {0} /\ Cooldown \in Nat \ {0} /\ CodeTTL \in Nat \ {0} /\ DayLen \in Nat \ {0}
  /\ DailyLimit \in Nat \ {0} /\ MaxAttempts \in Nat \ {0}
  /\ MaxTime \in Nat \ {0} /\ MaxSends \in Nat \ {0} /\ MaxGuesses \in Nat \ {0}
BY EmailAssumption

\* A moment lies within its day.
LEMMA DayBounds ==
  ASSUME NEW t \in Nat
  PROVE  /\ Day(t) \in Nat
         /\ Day(t) * DayLen <= t /\ t < (Day(t) + 1) * DayLen
<1> DEFINE L == DayLen
<1>1. L \in Nat \ {0}
  BY EmailConstants
<1> HIDE DEF L
<1>2. t \div L \in Nat /\ (t \div L) * L <= t /\ t < (t \div L + 1) * L
  BY <1>1
<1> QED
  BY <1>2 DEF L, Day

LEMMA DayMonotone ==
  ASSUME NEW t \in Nat, NEW u \in Nat, t <= u
  PROVE  Day(t) <= Day(u)
<1>1. \A a, b, L \in Nat : L # 0 /\ a * L <= t /\ u < (b + 1) * L => a <= b
  BY SMTT(30)
<1> QED
  BY <1>1, DayBounds, EmailConstants

\* A day has passed, or not.
LEMMA DayStep ==
  ASSUME NEW t \in Nat
  PROVE  Day(t + 1) = Day(t) \/ Day(t + 1) = Day(t) + 1
<1>1. \A a, b, L \in Nat : L # 0 /\ a * L <= t + 1 /\ t < (b + 1) * L => a <= b + 1
  BY SMTT(30)
<1>2. Day(t + 1) <= Day(t) + 1 /\ Day(t) <= Day(t + 1)
  BY <1>1, DayBounds, DayMonotone, EmailConstants
<1> QED
  BY <1>2, DayBounds

LEMMA InDays ==
  ASSUME NEW t \in Nat, t <= MaxTime
  PROVE  Day(t) \in Days
BY DayBounds, DayMonotone, EmailConstants DEF Days

\* A number of ticks and the seconds in it: what EXPIRE is given is at least a second
\* and falls short of the duration by less than one; what TTL answers as 0 is less
\* than half a second.
LEMMA UnixBounds ==
  ASSUME NEW t \in Nat
  PROVE  /\ Unix(t) \in Nat
         /\ Unix(t) * Sec <= t /\ t < (Unix(t) + 1) * Sec
<1> DEFINE L == Sec
<1>1. L \in Nat \ {0}
  BY EmailConstants
<1> HIDE DEF L
<1>2. t \div L \in Nat /\ (t \div L) * L <= t /\ t < (t \div L + 1) * L
  BY <1>1
<1> QED
  BY <1>2 DEF L, Unix

LEMMA UnixMonotone ==
  ASSUME NEW t \in Nat, NEW u \in Nat, t <= u
  PROVE  Unix(t) <= Unix(u)
<1>1. \A a, b, L \in Nat : L # 0 /\ a * L <= t /\ u < (b + 1) * L => a <= b
  BY SMTT(30)
<1> QED
  BY <1>1, UnixBounds, EmailConstants

LEMMA WholeSeconds ==
  ASSUME NEW d \in Nat
  PROVE  Whole(d) \in Nat /\ Whole(d) >= Sec /\ Whole(d) > d - Sec
<1> DEFINE q == Unix(d)
<1>1. q \in Nat /\ q * Sec <= d /\ d < (q + 1) * Sec /\ Sec \in Nat \ {0}
  BY UnixBounds, EmailConstants
<1> HIDE DEF q
<1>2. CASE d < Sec
  BY <1>1, <1>2 DEF Whole
<1>3. CASE ~(d < Sec)
  <2>1. q * Sec \in Nat /\ q * Sec > d - Sec
    BY <1>1
  <2>2. q # 0
    BY <1>1, <1>3
  <2>3. q * Sec >= Sec
    BY <1>1, <2>2, SMTT(30)
  <2> QED
    BY <1>3, <2>1, <2>3 DEF Whole, q
<1> QED
  BY <1>2, <1>3

LEMMA RoundedAway ==
  ASSUME NEW d \in Nat, Rounded(d) = 0
  PROVE  2 * d < Sec
<1> DEFINE a == 2 * d + Sec
           L == 2 * Sec
<1>1. a \in Nat /\ L \in Nat \ {0} /\ Sec \in Nat
  BY EmailConstants
<1>2. a \div L = 0
  BY DEF Rounded
<1> HIDE DEF a, L
<1>3. a < (a \div L + 1) * L
  BY <1>1
<1>4. a < L
  BY <1>1, <1>2, <1>3
<1> QED
  BY <1>4, EmailConstants DEF a, L

\* A code's key lives as long as the code can be verified, its exp no shorter.
LEMMA LifetimeBounds ==
  /\ Lifetime \in Nat /\ Lifetime <= CodeTTL
  /\ Whole(CodeTTL) \in Nat /\ Lifetime <= Whole(CodeTTL)
<1>1. CodeTTL \in Nat /\ Sec \in Nat
  BY EmailConstants
<1>2. Whole(CodeTTL) \in Nat /\ Whole(CodeTTL) >= Sec /\ Unix(CodeTTL) * Sec <= CodeTTL
  BY <1>1, WholeSeconds, UnixBounds
<1>3. CASE CodeTTL < Sec
  BY <1>1, <1>2, <1>3 DEF Lifetime
<1>4. CASE ~(CodeTTL < Sec)
  BY <1>1, <1>2, <1>4 DEF Lifetime, Whole
<1> QED
  BY <1>3, <1>4

\* One element more, or less.
LEMMA CountStep ==
  ASSUME NEW Z, IsFiniteSet(Z), NEW s
  PROVE  /\ Cardinality(Z) \in Nat
         /\ Cardinality(Z \union {s}) = IF s \in Z THEN Cardinality(Z) ELSE Cardinality(Z) + 1
         /\ Cardinality(Z \ {s}) = IF s \in Z THEN Cardinality(Z) - 1 ELSE Cardinality(Z)
         /\ s \in Z => Cardinality(Z) >= 1
<1>1. Cardinality(Z) \in Nat
  BY FS_CardinalityType
<1>2. Cardinality(Z \union {s}) = IF s \in Z THEN Cardinality(Z) ELSE Cardinality(Z) + 1
  BY FS_AddElement
<1>3. Cardinality(Z \ {s}) = IF s \in Z THEN Cardinality(Z) - 1 ELSE Cardinality(Z)
  BY FS_RemoveElement
<1>4. s \in Z => Cardinality(Z) >= 1
  BY <1>1, FS_EmptySet
<1> QED
  BY <1>1, <1>2, <1>3, <1>4

----------------------------------------------------------------------------
(* On Redis                                                                *)

RecordTypes ==
    /\ now \in Sec..MaxTime /\ cool \in Nat /\ lapsed \subseteq Days
    /\ daily \in [Days -> [n : Int, ttl : Nat]]
    /\ rec \in [h : Nat, exp : Nat, n : Nat, ttl : Nat]
    /\ issued \in Nat /\ begun \in Nat /\ mails \in [Days -> Nat]
    /\ lastMail \in Int /\ last \in Nat /\ lastExp \in Nat /\ wrong \in [Codes -> Nat]

RequestTypes ==
    /\ spc \in [Senders -> {"idle", "reserve", "undo", "send", "rollback", "hset", "expire", "cool"}]
    /\ st \in [Senders -> Nat] /\ scode \in [Senders -> Nat]
    /\ \A s \in Senders : st[s] <= now
    /\ vpc \in [Verifiers -> {"idle", "hset", "del"}]
    /\ vn \in [Verifiers -> Nat] /\ vcode \in [Verifiers -> Nat]

RedisTypes == RecordTypes /\ RequestTypes

\* Senders that have not mailed yet; those that hold a slot of day d; those of them
\* that will mail on it.
Early == {s \in Senders : spc[s] \in {"reserve", "undo", "send", "rollback"}}
Slots(d) == {s \in Senders : spc[s] \in {"send", "undo", "rollback"} /\ Day(st[s]) = d}
Mailing(d) == {s \in Senders : spc[s] = "send" /\ Day(st[s]) = d}

\* Every mail is that of a request that passed the cooldown.
BegunInv == issued + Cardinality(Early) <= begun /\ begun <= MaxSends

DayEnd(d) == (d + 1) * DayLen

\* A day to come is unused.
ComingDay(d) ==
    d > Day(now) => mails[d] = 0 /\ Slots(d) = {} /\ daily[d] = NoKey /\ d \notin lapsed

\* Today's counter expires in the last second of the day, or later.
CounterTTL(d) ==
    /\ d \in lapsed => now > DayEnd(d) - Sec
    /\ d = Day(now) /\ daily[d].ttl # 0 => daily[d].ttl > DayEnd(d) - Sec \/ daily[d].ttl > MaxTime

\* Until then it covers the mails and the slots in use of today; other days' counters
\* no longer matter, or not yet.
FirstCount(d) ==
    d \notin strayed /\ d \notin lapsed =>
        /\ mails[d] + Cardinality(Mailing(d)) <= DailyLimit
        /\ d = Day(now) => /\ mails[d] + Cardinality(Slots(d)) <= daily[d].n
                           /\ daily[d].ttl = 0 => daily[d].n = 0

\* The counter that follows it covers what comes on top, to the end of the day.
SecondCount(d) ==
    d \notin strayed /\ d \in lapsed =>
        /\ mails[d] + Cardinality(Mailing(d)) <= 2 * DailyLimit
        /\ d = Day(now) => /\ daily[d].n \in Nat
                           /\ mails[d] + Cardinality(Mailing(d)) <= DailyLimit + daily[d].n
                           /\ daily[d].n > 0 => daily[d].ttl >= DayEnd(d)

DayOk(d) == ComingDay(d) /\ CounterTTL(d) /\ FirstCount(d) /\ SecondCount(d)

DayInv == \A d \in Days : DayOk(d)

\* The cooldown of the last mail is running or over, and over but for half a second
\* for whoever is alone and past the test.
OverlapInv ==
    \A s, t \in Senders : s # t /\ spc[s] # "idle" /\ spc[t] # "idle" => s \in overlap

CoolInv ==
    /\ lastMail # -1 => lastMail + Cooldown <= cool \/ lastMail + Cooldown <= now
    /\ \A s \in Senders :
          spc[s] \in {"reserve", "send"} /\ s \notin overlap /\ lastMail # -1 =>
              2 * (lastMail + Cooldown - now) < Sec

SendsInv == RedisTypes /\ DayInv /\ OverlapInv /\ CoolInv

\* A code that is mailed but not stored is new to everyone.
Stored(s) == spc[s] \in {"hset", "expire", "cool"}

FreshInv ==
    /\ rec.h <= issued /\ last <= issued
    /\ \A v \in Verifiers : vcode[v] <= issued
    /\ used \subseteq 1..issued
    /\ \A c \in Codes : c > issued => wrong[c] = 0
    /\ \A s \in Senders : Stored(s) => scode[s] \in 1..issued
    /\ \A s, t \in Senders : s # t /\ Stored(s) /\ Stored(t) => scode[s] # scode[t]
    /\ \A s \in Senders : spc[s] = "hset" =>
          /\ scode[s] \notin used /\ wrong[scode[s]] = 0
          /\ scode[s] # rec.h /\ scode[s] # last
          /\ \A v \in Verifiers : vcode[v] # scode[s]

\* What is stored is the last code, or what a late HSET of n left behind.
HashInv == IF rec.h = 0 THEN rec.exp = 0 ELSE rec.h = last /\ rec.exp >= Unix(lastExp)

\* The record is that of a verification in flight, which is the only one.
MeetInv ==
    \A v \in Verifying :
        /\ \A u \in Verifying : u # v => vcode[v] \in excused
        /\ rec.h # 0 /\ rec.h # vcode[v] => rec.h \in excused
        /\ vpc[v] = "hset" /\ vcode[v] \notin excused =>
              /\ vcode[v] # 0 /\ vcode[v] \notin used /\ vn[v] = wrong[vcode[v]]
              /\ rec.h = vcode[v] => rec.n + 1 = wrong[rec.h]
        /\ vpc[v] = "del" /\ vcode[v] = last /\ last # 0 /\ last \notin excused =>
              last \in used \/ wrong[last] >= MaxAttempts \/ now > lastExp

\* The attempts are counted, and the record is there to be guessed at, unless a
\* verification of it is in flight.
AttemptInv ==
    rec.h # 0 /\ rec.h \notin excused =>
        /\ rec.n <= wrong[rec.h]
        /\ Verifying = {} => /\ rec.h \notin used
                             /\ rec.n = wrong[rec.h] /\ rec.n < MaxAttempts

\* The last code stays, from its EXPIRE on.
LastInv ==
    /\ lastExp <= now + Lifetime
    /\ \/ last \in {0} \union used \union excused
       \/ now >= lastExp
       \/ wrong[last] >= MaxAttempts
       \/ \E s \in Senders : spc[s] = "expire" /\ scode[s] = last
       \/ rec.h = last /\ rec.ttl >= lastExp

CodesInv == RedisTypes /\ BegunInv /\ FreshInv /\ HashInv /\ MeetInv /\ AttemptInv /\ LastInv

\* What a step of a sender leaves alone, and what becomes of the sender.
LEMMA SenderStep ==
  ASSUME RedisTypes, NEW s \in Senders, SendStep(s)
  PROVE  /\ \A t \in Senders \ {s} : spc'[t] = spc[t] /\ st'[t] = st[t] /\ scode'[t] = scode[t]
         /\ UNCHANGED <<now, vpc, vn, vcode, used, wrong>>
         /\ Precheck(s) => spc'[s] = "reserve" /\ st'[s] = now
         /\ Reserve(s) => spc'[s] \in {"undo", "send"} /\ st'[s] = st[s]
         /\ SendOk(s) => spc'[s] = "hset" /\ st'[s] = now /\ scode'[s] = issued + 1
         /\ SendFails(s) => spc'[s] = "rollback" /\ st'[s] = st[s]
         /\ CommitHash(s) => spc'[s] = "expire" /\ st'[s] = st[s] /\ scode'[s] = scode[s]
         /\ CommitExpire(s) => spc'[s] = "cool" /\ st'[s] = st[s] /\ scode'[s] = scode[s]
         /\ EndS(s) => spc'[s] = "idle" /\ st'[s] = 0 /\ scode'[s] = 0
         /\ spc' \in [Senders -> {"idle", "reserve", "undo", "send", "rollback", "hset", "expire", "cool"}]
         /\ st' \in [Senders -> Nat] /\ scode' \in [Senders -> Nat]
<1>0. /\ spc \in [Senders -> {"idle", "reserve", "undo", "send", "rollback", "hset", "expire", "cool"}]
      /\ st \in [Senders -> Nat] /\ scode \in [Senders -> Nat] /\ now \in Nat /\ issued + 1 \in Nat
  BY DEF RedisTypes, RequestTypes, RecordTypes
<1>1. UNCHANGED <<now, vpc, vn, vcode, used, wrong>>
  BY DEF SendStep, Precheck, Cooling, Reserve, Undo, SendOk, SendFails, RollbackPrecheck, CommitHash,
         CommitExpire, CommitCool, AbandonSend, vars, verifyVars, sendVars
<1>2. CASE Precheck(s) \/ Reserve(s) \/ SendOk(s) \/ SendFails(s) \/ CommitHash(s) \/ CommitExpire(s)
  <2>1. \E l \in {"reserve", "undo", "send", "rollback", "hset", "expire", "cool"} :
          spc' = [spc EXCEPT ![s] = l]
    BY <1>2 DEF Precheck, Reserve, SendOk, SendFails, CommitHash, CommitExpire, GotoS
  <2>2. /\ st' = st \/ st' = [st EXCEPT ![s] = now]
        /\ scode' = scode \/ scode' = [scode EXCEPT ![s] = issued + 1]
    BY <1>2 DEF Precheck, Reserve, SendOk, SendFails, CommitHash, CommitExpire
  <2>3. /\ \A t \in Senders \ {s} : spc'[t] = spc[t] /\ st'[t] = st[t] /\ scode'[t] = scode[t]
        /\ spc' \in [Senders -> {"idle", "reserve", "undo", "send", "rollback", "hset", "expire", "cool"}]
        /\ st' \in [Senders -> Nat] /\ scode' \in [Senders -> Nat]
    BY <1>0, <2>1, <2>2
  <2>4. /\ Precheck(s) => spc'[s] = "reserve" /\ st'[s] = now
        /\ Reserve(s) => spc'[s] \in {"undo", "send"} /\ st'[s] = st[s]
        /\ SendOk(s) => spc'[s] = "hset" /\ st'[s] = now /\ scode'[s] = issued + 1
        /\ SendFails(s) => spc'[s] = "rollback" /\ st'[s] = st[s]
        /\ CommitHash(s) => spc'[s] = "expire" /\ st'[s] = st[s] /\ scode'[s] = scode[s]
        /\ CommitExpire(s) => spc'[s] = "cool" /\ st'[s] = st[s] /\ scode'[s] = scode[s]
    BY <1>0 DEF Precheck, Reserve, SendOk, SendFails, CommitHash, CommitExpire, GotoS
  <2>5. EndS(s) => spc'[s] = "idle" /\ st'[s] = 0 /\ scode'[s] = 0
    BY <1>0 DEF EndS
  <2> QED
    BY <1>1, <2>3, <2>4, <2>5
<1>3. CASE Cooling(s)
  <2>1. UNCHANGED <<spc, st, scode>> /\ spc[s] = "idle"
    BY <1>3 DEF Cooling, vars, sendVars
  <2>2. ~Precheck(s) /\ ~Reserve(s) /\ ~SendOk(s) /\ ~SendFails(s) /\ ~CommitHash(s) /\ ~CommitExpire(s)
    BY <1>0, <2>1 DEF Precheck, Reserve, SendOk, SendFails, CommitHash, CommitExpire, GotoS
  <2>3. EndS(s) => spc'[s] = "idle" /\ st'[s] = 0 /\ scode'[s] = 0
    BY <1>0 DEF EndS
  <2> QED
    BY <1>0, <1>1, <2>1, <2>2, <2>3
<1>4. CASE EndS(s)
  <2>1. /\ \A t \in Senders \ {s} : spc'[t] = spc[t] /\ st'[t] = st[t] /\ scode'[t] = scode[t]
        /\ spc'[s] = "idle" /\ st'[s] = 0 /\ scode'[s] = 0
        /\ spc' \in [Senders -> {"idle", "reserve", "undo", "send", "rollback", "hset", "expire", "cool"}]
        /\ st' \in [Senders -> Nat] /\ scode' \in [Senders -> Nat]
    BY <1>0, <1>4 DEF EndS
  <2>2. ~Precheck(s) /\ ~Reserve(s) /\ ~SendOk(s) /\ ~SendFails(s) /\ ~CommitHash(s) /\ ~CommitExpire(s)
    BY <1>0, <2>1 DEF Precheck, Reserve, SendOk, SendFails, CommitHash, CommitExpire, GotoS
  <2> QED
    BY <1>1, <2>1, <2>2
<1>5. Undo(s) \/ RollbackPrecheck(s) \/ CommitCool(s) \/ AbandonSend(s) => EndS(s)
  BY DEF Undo, RollbackPrecheck, CommitCool, AbandonSend
<1> QED
  BY <1>2, <1>3, <1>4, <1>5 DEF SendStep

\* A day's counter goes up, or down.
LEMMA CounterTypes ==
  ASSUME RedisTypes, NEW d \in Days
  PROVE  /\ \A n \in Int, ttl \in Nat : [n |-> n, ttl |-> ttl] \in [n : Int, ttl : Nat]
         /\ Never \in Nat
         /\ Decr(d) => /\ daily' \in [Days -> [n : Int, ttl : Nat]]
                       /\ daily'[d].n = daily[d].n - 1
                       /\ daily'[d].ttl = IF daily[d].ttl = 0 THEN Never ELSE daily[d].ttl
                       /\ \A e \in Days \ {d} : daily'[e] = daily[e]
<1>1. daily \in [Days -> [n : Int, ttl : Nat]] /\ daily[d] \in [n : Int, ttl : Nat]
  BY DEF RedisTypes, RecordTypes
<1>2. Never \in Nat
  BY EmailConstants DEF Never
<1>3. daily[d].n - 1 \in Int /\ (IF daily[d].ttl = 0 THEN Never ELSE daily[d].ttl) \in Nat
  BY <1>1, <1>2
<1>4. ASSUME Decr(d) PROVE daily' = [daily EXCEPT ![d] = [n |-> daily[d].n - 1,
                                        ttl |-> IF daily[d].ttl = 0 THEN Never ELSE daily[d].ttl]]
  BY <1>4 DEF Decr
<1> QED
  BY <1>1, <1>2, <1>3, <1>4

LEMMA RecordTypesKept == ASSUME RedisTypes, Next PROVE RecordTypes'
<1>0. /\ now \in Sec..MaxTime /\ now \in Nat /\ cool \in Nat /\ lapsed \subseteq Days
      /\ daily \in [Days -> [n : Int, ttl : Nat]]
      /\ rec \in [h : Nat, exp : Nat, n : Nat, ttl : Nat]
      /\ issued \in Nat /\ begun \in Nat /\ mails \in [Days -> Nat]
      /\ lastMail \in Int /\ last \in Nat /\ lastExp \in Nat /\ wrong \in [Codes -> Nat]
      /\ st \in [Senders -> Nat] /\ scode \in [Senders -> Nat]
      /\ \A s \in Senders : st[s] <= now
      /\ vn \in [Verifiers -> Nat]
      /\ Never \in Nat /\ NoKey \in [n : Int, ttl : Nat]
      /\ NoRec \in [h : Nat, exp : Nat, n : Nat, ttl : Nat]
  BY EmailConstants DEF RedisTypes, RecordTypes, RequestTypes, Never, NoKey, NoRec
<1>1. ASSUME NEW t \in (now + 1)..MaxTime, Tick(t) PROVE RecordTypes'
  <2>1. now' \in Sec..MaxTime /\ cool' \in Nat /\ lapsed' \subseteq Days
    BY <1>0, <1>1, EmailConstants DEF Tick
  <2>2. daily' \in [Days -> [n : Int, ttl : Nat]] /\ rec' \in [h : Nat, exp : Nat, n : Nat, ttl : Nat]
    BY <1>0, <1>1 DEF Tick
  <2> QED
    BY <1>0, <1>1, <2>1, <2>2 DEF Tick, RecordTypes, verifyVars
<1>2. ASSUME NEW s \in Senders, SendStep(s) PROVE RecordTypes'
  <2>0. /\ st[s] \in Nat /\ scode[s] \in Nat /\ Day(st[s]) \in Days /\ Day(now) \in Days
        /\ st[s] <= now /\ EndOfDay(st[s]) - st[s] \in Nat
    <3>1. st[s] <= MaxTime /\ now <= MaxTime /\ st[s] \in Nat /\ scode[s] \in Nat /\ st[s] <= now
      BY <1>0, EmailConstants
    <3>2. Day(st[s]) \in Days /\ Day(now) \in Days
      BY <1>0, <3>1, InDays
    <3>3. (Day(st[s]) + 1) * DayLen - st[s] \in Nat
      BY <3>1, DayBounds, EmailConstants
    <3> QED
      BY <3>1, <3>2, <3>3 DEF EndOfDay
  <2>1. daily' \in [Days -> [n : Int, ttl : Nat]]
    <3>1. CASE Reserve(s)
      <4> DEFINE d == Day(st[s])
                 ttl == now + Whole(EndOfDay(st[s]) - st[s])
      <4>1. ttl \in Nat /\ daily[d].n + 1 \in Int
        BY <1>0, <2>0, WholeSeconds
      <4>2. daily' = [daily EXCEPT ![d] = [n |-> daily[d].n + 1, ttl |-> ttl]]
        BY <3>1 DEF Reserve
      <4> HIDE DEF ttl, d
      <4> QED
        BY <1>0, <4>1, <4>2
    <3>2. CASE Undo(s) \/ RollbackPrecheck(s)
      BY <1>0, <2>0, <3>2, CounterTypes DEF Undo, RollbackPrecheck
    <3>3. CASE ~(Reserve(s) \/ Undo(s) \/ RollbackPrecheck(s))
      BY <1>0, <1>2, <3>3 DEF SendStep, Precheck, Cooling, SendOk, SendFails, CommitHash,
         CommitExpire, CommitCool, AbandonSend, vars, sendVars
    <3> QED
      BY <3>1, <3>2, <3>3
  <2>2. rec' \in [h : Nat, exp : Nat, n : Nat, ttl : Nat] /\ last' \in Nat /\ lastExp' \in Nat
    <3>1. CASE CommitHash(s) \/ CommitExpire(s)
      <4>1. /\ Unix(st[s] + CodeTTL) \in Nat /\ st[s] + Lifetime \in Nat
            /\ now + Whole(CodeTTL) \in Nat
        BY <1>0, <2>0, EmailConstants, UnixBounds, LifetimeBounds
      <4> QED
        BY <1>0, <2>0, <3>1, <4>1 DEF CommitHash, CommitExpire
    <3>2. CASE ~(CommitHash(s) \/ CommitExpire(s))
      BY <1>0, <1>2, <3>2 DEF SendStep, Precheck, Cooling, Reserve, Undo, SendOk, SendFails, RollbackPrecheck,
         CommitCool, AbandonSend, vars, codeVars
    <3> QED
      BY <3>1, <3>2
  <2>3. cool' \in Nat /\ lastMail' \in Int /\ issued' \in Nat /\ begun' \in Nat /\ lapsed' = lapsed
    BY <1>0, <1>2, <2>0, EmailConstants DEF SendStep, Precheck, Cooling, Reserve, Undo, SendOk, SendFails,
       RollbackPrecheck, CommitHash, CommitExpire, CommitCool, AbandonSend, vars, sendVars
  <2>4. mails' \in [Days -> Nat]
    <3>1. CASE SendOk(s)
      <4>1. mails[Day(st[s])] + 1 \in Nat
        BY <1>0, <2>0
      <4> QED
        BY <1>0, <3>1, <4>1 DEF SendOk
    <3>2. CASE ~SendOk(s)
      BY <1>0, <1>2, <3>2 DEF SendStep, Precheck, Cooling, Reserve, Undo, SendFails,
         RollbackPrecheck, CommitHash, CommitExpire, CommitCool, AbandonSend, vars, sendVars
    <3> QED
      BY <3>1, <3>2
  <2> QED
    BY <1>0, <1>2, <2>1, <2>2, <2>3, <2>4, SenderStep DEF RecordTypes
<1>3. ASSUME NEW v \in Verifiers, VerifyStep(v) PROVE RecordTypes'
  <2>1. UNCHANGED <<now, cool, daily, lapsed, issued, begun, mails, lastMail, last, lastExp>>
    BY <1>3 DEF VerifyStep, VerifyAbsent, VerifyExpired, VerifyRight, VerifyWrong, CountAttempt, CountLost,
       DeleteCode, DeleteLost, vars, sendVars, codeVars
  <2>2. wrong' \in [Codes -> Nat]
    <3>1. CASE VerifyWrong(v)
      <4>1. wrong' = [wrong EXCEPT ![rec.h] = wrong[rec.h] + 1]
        BY <3>1 DEF VerifyWrong
      <4>2. \A c \in Codes : wrong[c] + 1 \in Nat
        BY <1>0
      <4> QED
        BY <1>0, <4>1, <4>2
    <3>2. CASE ~VerifyWrong(v)
      BY <1>0, <1>3, <3>2 DEF VerifyStep, VerifyAbsent, VerifyExpired, VerifyRight, CountAttempt, CountLost,
         DeleteCode, DeleteLost, vars, verifyVars
    <3> QED
      BY <3>1, <3>2
  <2>3. rec' \in [h : Nat, exp : Nat, n : Nat, ttl : Nat]
    <3>1. CASE CountAttempt(v)
      BY <1>0, <3>1 DEF CountAttempt, NoRec
    <3>2. CASE ~CountAttempt(v)
      BY <1>0, <1>3, <3>2 DEF VerifyStep, VerifyAbsent, VerifyExpired, VerifyRight, VerifyWrong, CountLost,
         DeleteCode, DeleteLost, vars, codeVars
    <3> QED
      BY <3>1, <3>2
  <2> QED
    BY <1>0, <2>1, <2>2, <2>3 DEF RecordTypes
<1> QED
  BY <1>1, <1>2, <1>3 DEF Next

\* What a step of a verification leaves alone, and what becomes of it.
LEMMA VerifierStep ==
  ASSUME RedisTypes, NEW v \in Verifiers, VerifyStep(v)
  PROVE  /\ \A u \in Verifiers \ {v} : vpc'[u] = vpc[u] /\ vn'[u] = vn[u] /\ vcode'[u] = vcode[u]
         /\ UNCHANGED <<now, spc, st, scode, issued, begun, last, lastExp>>
         /\ VerifyExpired(v) \/ VerifyRight(v) => vpc'[v] = "del" /\ vcode'[v] = rec.h
         /\ VerifyWrong(v) => vpc'[v] = "hset" /\ vcode'[v] = rec.h /\ vn'[v] = rec.n + 1
         /\ AfterCount(v) => \/ vn[v] >= MaxAttempts /\ vpc'[v] = "del" /\ vcode'[v] = vcode[v]
                             \/ vn[v] < MaxAttempts /\ vpc'[v] = "idle" /\ vcode'[v] = 0
         /\ EndV(v) => vpc'[v] = "idle" /\ vcode'[v] = 0
         /\ vpc' \in [Verifiers -> {"idle", "hset", "del"}]
         /\ vn' \in [Verifiers -> Nat] /\ vcode' \in [Verifiers -> Nat]
<1>0. /\ vpc \in [Verifiers -> {"idle", "hset", "del"}] /\ vn \in [Verifiers -> Nat]
      /\ vcode \in [Verifiers -> Nat] /\ rec.h \in Nat /\ rec.n + 1 \in Nat /\ MaxAttempts \in Nat
      /\ vn[v] \in Nat
  BY EmailConstants DEF RedisTypes, RequestTypes, RecordTypes
<1>1. UNCHANGED <<now, spc, st, scode, issued, begun, last, lastExp>>
  BY DEF VerifyStep, VerifyAbsent, VerifyExpired, VerifyRight, VerifyWrong, CountAttempt, CountLost,
         DeleteCode, DeleteLost, vars, sendVars, codeVars
<1>2. /\ \E l \in {"idle", "hset", "del"} : vpc' = vpc \/ vpc' = [vpc EXCEPT ![v] = l]
      /\ vn' = vn \/ vn' = [vn EXCEPT ![v] = 0] \/ vn' = [vn EXCEPT ![v] = rec.n + 1]
      /\ vcode' = vcode \/ vcode' = [vcode EXCEPT ![v] = 0] \/ vcode' = [vcode EXCEPT ![v] = rec.h]
  BY DEF VerifyStep, VerifyAbsent, VerifyExpired, VerifyRight, VerifyWrong, CountAttempt, CountLost,
         DeleteCode, DeleteLost, vars, verifyVars, Ahead, AfterCount, EndV
<1>3. /\ \A u \in Verifiers \ {v} : vpc'[u] = vpc[u] /\ vn'[u] = vn[u] /\ vcode'[u] = vcode[u]
      /\ vpc' \in [Verifiers -> {"idle", "hset", "del"}]
      /\ vn' \in [Verifiers -> Nat] /\ vcode' \in [Verifiers -> Nat]
  BY <1>0, <1>2
<1>4. /\ VerifyExpired(v) \/ VerifyRight(v) => vpc'[v] = "del" /\ vcode'[v] = rec.h
      /\ VerifyWrong(v) => vpc'[v] = "hset" /\ vcode'[v] = rec.h /\ vn'[v] = rec.n + 1
  BY <1>0 DEF VerifyExpired, VerifyRight, VerifyWrong, Ahead
<1>5. /\ AfterCount(v) => \/ vn[v] >= MaxAttempts /\ vpc'[v] = "del" /\ vcode'[v] = vcode[v]
                          \/ vn[v] < MaxAttempts /\ vpc'[v] = "idle" /\ vcode'[v] = 0
      /\ EndV(v) => vpc'[v] = "idle" /\ vcode'[v] = 0
  BY <1>0 DEF AfterCount, EndV, Ahead
<1> QED
  BY <1>1, <1>3, <1>4, <1>5

LEMMA RedisTypesKept == ASSUME RedisTypes, [Next]_vars PROVE RedisTypes'
<1>1. CASE Next
  <2>1. RecordTypes'
    BY <1>1, RecordTypesKept
  <2>2. ASSUME NEW t \in (now + 1)..MaxTime, Tick(t) PROVE RequestTypes'
    <3>1. UNCHANGED <<spc, st, scode, vpc, vn, vcode>> /\ now \in Nat /\ now' = t /\ t \in Nat /\ now <= t
      BY <2>2, EmailConstants DEF Tick, RedisTypes, RecordTypes, verifyVars
    <3>2. \A s \in Senders : st'[s] <= now'
      BY <3>1 DEF RedisTypes, RequestTypes
    <3> QED
      BY <3>1, <3>2 DEF RedisTypes, RequestTypes
  <2>3. ASSUME NEW s \in Senders, SendStep(s) PROVE RequestTypes'
    <3>1. st'[s] = now \/ st'[s] = st[s] \/ st'[s] = 0
      BY <2>3, SenderStep DEF SendStep, Cooling, Undo, RollbackPrecheck, CommitCool, AbandonSend, vars, sendVars
    <3>2. \A t \in Senders : st'[t] <= now
      BY <2>3, <3>1, SenderStep DEF RedisTypes, RequestTypes, RecordTypes
    <3> QED
      BY <2>3, <3>2, SenderStep DEF RedisTypes, RequestTypes
  <2>4. ASSUME NEW v \in Verifiers, VerifyStep(v) PROVE RequestTypes'
    BY <2>4, VerifierStep DEF RedisTypes, RequestTypes
  <2> QED
    BY <1>1, <2>1, <2>2, <2>3, <2>4 DEF Next, RedisTypes
<1>2. CASE UNCHANGED vars
  BY <1>2 DEF vars, sendVars, verifyVars, codeVars, RedisTypes, RecordTypes, RequestTypes
<1> QED
  BY <1>1, <1>2

----------------------------------------------------------------------------
(* On Redis: the limits on sending                                         *)

LEMMA FiniteParts ==
  /\ IsFiniteSet(Early)
  /\ \A d : IsFiniteSet(Slots(d)) /\ IsFiniteSet(Mailing(d)) /\ Mailing(d) \subseteq Slots(d)
<1>1. IsFiniteSet(Senders)
  BY EmailAssumption
<1>2. Early \subseteq Senders /\ \A d : /\ Slots(d) \subseteq Senders /\ Mailing(d) \subseteq Senders
                                        /\ Mailing(d) \subseteq Slots(d)
  BY DEF Early, Slots, Mailing
<1> QED
  BY <1>1, <1>2, FS_Subset

\* The slots after a step of one sender, by what it held before and holds now.
LEMMA SlotSteps ==
  ASSUME RedisTypes, NEW s \in Senders, SendStep(s), NEW d
  PROVE  /\ Slots(d)' = IF s \in Slots(d)' THEN Slots(d) \union {s} ELSE Slots(d) \ {s}
         /\ Mailing(d)' = IF s \in Mailing(d)' THEN Mailing(d) \union {s} ELSE Mailing(d) \ {s}
         /\ s \in Slots(d)' <=> spc'[s] \in {"send", "undo", "rollback"} /\ Day(st'[s]) = d
         /\ s \in Mailing(d)' <=> spc'[s] = "send" /\ Day(st'[s]) = d
         /\ s \in Slots(d) <=> spc[s] \in {"send", "undo", "rollback"} /\ Day(st[s]) = d
         /\ s \in Mailing(d) <=> spc[s] = "send" /\ Day(st[s]) = d
<1>1. \A t \in Senders \ {s} : spc'[t] = spc[t] /\ st'[t] = st[t]
  BY SenderStep
<1>2. \A t \in Senders : /\ t \in Slots(d) <=> spc[t] \in {"send", "undo", "rollback"} /\ Day(st[t]) = d
                         /\ t \in Mailing(d) <=> spc[t] = "send" /\ Day(st[t]) = d
                         /\ t \in Slots(d)' <=> spc'[t] \in {"send", "undo", "rollback"} /\ Day(st'[t]) = d
                         /\ t \in Mailing(d)' <=> spc'[t] = "send" /\ Day(st'[t]) = d
  BY DEF Slots, Mailing, Day
<1>3. Slots(d) \subseteq Senders /\ Mailing(d) \subseteq Senders /\ Slots(d)' \subseteq Senders /\ Mailing(d)' \subseteq Senders
  BY DEF Slots, Mailing
<1>4. \A t \in Senders \ {s} : (t \in Slots(d)' <=> t \in Slots(d)) /\ (t \in Mailing(d)' <=> t \in Mailing(d))
  BY <1>1, <1>2
<1> HIDE DEF Slots, Mailing
<1> QED
  BY <1>2, <1>3, <1>4

\* The clock: when the day ends, the counter of the next is there, unused; within a
\* day the counter goes in its last second only, and its successor stays.
LEMMA DayTick == ASSUME RedisTypes, DayInv, NEW t \in (now + 1)..MaxTime, Tick(t) PROVE DayInv'
<1>0. /\ now \in Nat /\ now' = t /\ t \in Nat /\ t > now /\ t <= MaxTime /\ MaxTime \in Nat
      /\ UNCHANGED <<mails, spc, st, strayed>>
      /\ daily' = [d \in Days |-> IF t >= daily[d].ttl THEN NoKey ELSE daily[d]]
      /\ lapsed' = lapsed \union {d \in Days : d = Day(t) /\ daily[d].ttl \in 1..t}
      /\ daily \in [Days -> [n : Int, ttl : Nat]] /\ mails \in [Days -> Nat]
      /\ Sec \in Nat \ {0} /\ DailyLimit \in Nat \ {0}
  BY EmailConstants DEF RedisTypes, RecordTypes, Tick
<1>1. \A d : Slots(d)' = Slots(d) /\ Mailing(d)' = Mailing(d)
  BY <1>0 DEF Slots, Mailing, Day
<1>2. /\ Day(now) \in Nat /\ Day(t) \in Nat /\ Day(now) <= Day(t) /\ Day(now)' = Day(t)
      /\ t < DayEnd(Day(t)) /\ DayEnd(Day(t)) \in Nat
  <2>1. Day(now)' = Day(t)
    BY <1>0 DEF Day
  <2>2. Day(now) \in Nat /\ Day(t) \in Nat /\ Day(now) <= Day(t) /\ t < (Day(t) + 1) * DayLen
    BY <1>0, DayMonotone, DayBounds
  <2>3. (Day(t) + 1) * DayLen \in Nat
    BY <2>2, EmailConstants
  <2> QED
    BY <2>1, <2>2, <2>3 DEF DayEnd
<1> SUFFICES ASSUME NEW d \in Days PROVE DayOk(d)'
  BY DEF DayInv
<1> DEFINE m == mails[d]
           M == Cardinality(Mailing(d))
           S == Cardinality(Slots(d))
           k == daily[d]
           e == DayEnd(d)
<1>3. /\ d \in Nat /\ k.n \in Int /\ k.ttl \in Nat /\ m \in Nat /\ S \in Nat /\ M \in Nat /\ M <= S /\ e \in Nat
  <2>1. d \in Nat
    BY EmailConstants, DayBounds DEF Days
  <2>2. (d + 1) * DayLen \in Nat
    BY <2>1, EmailConstants
  <2>3. S \in Nat /\ M \in Nat /\ M <= S
    BY FiniteParts, FS_CardinalityType, FS_Subset
  <2> QED
    BY <1>0, <2>1, <2>2, <2>3 DEF DayEnd
<1>4. DayOk(d)
  BY DEF DayInv
<1>5. /\ m' = m /\ M' = M /\ S' = S /\ e' = e
      /\ k' = IF t >= k.ttl THEN NoKey ELSE k
      /\ d \in lapsed' <=> d \in lapsed \/ (d = Day(t) /\ k.ttl # 0 /\ t >= k.ttl)
  <2>1. M' = M /\ S' = S
    BY <1>1
  <2> QED
    BY <1>0, <1>3, <2>1 DEF DayEnd
<1>6. d = Day(t) /\ d # Day(now) => k = NoKey /\ k.ttl = 0 /\ m = 0 /\ S = 0 /\ M = 0 /\ d \notin lapsed
  <2> SUFFICES ASSUME d = Day(t), d # Day(now)
               PROVE  k = NoKey /\ k.ttl = 0 /\ m = 0 /\ S = 0 /\ M = 0 /\ d \notin lapsed
    OBVIOUS
  <2>1. d > Day(now)
    BY <1>2, <1>3
  <2>2. m = 0 /\ Slots(d) = {} /\ k = NoKey /\ d \notin lapsed
    BY <1>4, <2>1 DEF DayOk, ComingDay
  <2>3. S = 0
    BY <2>2, FS_EmptySet, Zenon
  <2> QED
    BY <1>3, <2>2, <2>3 DEF NoKey
<1>7. /\ d > Day(now) => m = 0 /\ Slots(d) = {} /\ k = NoKey /\ d \notin lapsed
      /\ d \in lapsed => now > e - Sec
      /\ d = Day(now) /\ k.ttl # 0 => k.ttl > e - Sec \/ k.ttl > MaxTime
      /\ d \notin strayed /\ d \notin lapsed => m + M <= DailyLimit /\ (d = Day(now) => m + S <= k.n /\ (k.ttl = 0 => k.n = 0))
      /\ d \notin strayed /\ d \in lapsed =>
            /\ m + M <= 2 * DailyLimit
            /\ d = Day(now) => k.n \in Nat /\ m + M <= DailyLimit + k.n /\ (k.n > 0 => k.ttl >= e)
  BY <1>4 DEF DayOk, ComingDay, CounterTTL, FirstCount, SecondCount
<1>8. NoKey.n = 0 /\ NoKey.ttl = 0
  BY DEF NoKey
<1>9. d = Day(t) => t < e
  BY <1>2
<1> HIDE DEF m, M, S, k, e
<1>10. d > Day(t) => m = 0 /\ k' = NoKey /\ d \notin lapsed'
  BY <1>2, <1>3, <1>5, <1>7
<1>11. /\ d \in lapsed' => t > e - Sec
       /\ d = Day(t) /\ k'.ttl # 0 => k'.ttl > e - Sec \/ k'.ttl > MaxTime
  BY <1>0, <1>2, <1>3, <1>5, <1>6, <1>7, <1>8
<1>12. d \notin strayed /\ d \notin lapsed' =>
          m + M <= DailyLimit /\ (d = Day(t) => m + S <= k'.n /\ (k'.ttl = 0 => k'.n = 0))
  BY <1>0, <1>2, <1>3, <1>5, <1>6, <1>7, <1>8
<1>13. d \notin strayed /\ d \in lapsed' =>
            /\ m + M <= 2 * DailyLimit
            /\ d = Day(t) => k'.n \in Nat /\ m + M <= DailyLimit + k'.n /\ (k'.n > 0 => k'.ttl >= e)
  BY <1>0, <1>2, <1>3, <1>5, <1>6, <1>7, <1>8, <1>9
<1>14. d > Day(t) => Slots(d)' = {}
  BY <1>1, <1>2, <1>3, <1>7
<1>15. Cardinality(Mailing(d))' = M /\ Cardinality(Slots(d))' = S /\ mails'[d] = m /\ DayEnd(d)' = e /\ daily'[d] = k'
  BY <1>5 DEF M, S, m, e, k
<1>16. now' = t /\ strayed' = strayed /\ Day(now)' = Day(t)
  BY <1>0, <1>2
<1> QED
  BY <1>10, <1>11, <1>12, <1>13, <1>14, <1>15, <1>16
     DEF DayOk, ComingDay, CounterTTL, FirstCount, SecondCount, NoKey

\* A sender's step, on the day it reserved its slot for and on the day it is now.
LEMMA DaySender == ASSUME RedisTypes, DayInv, NEW s \in Senders, SendStep(s) PROVE DayInv'
<1>0. /\ now \in Nat /\ now' = now /\ st[s] \in Nat /\ st[s] <= now /\ Day(st[s]) <= Day(now)
      /\ Day(st[s]) \in Days /\ Day(now) \in Days /\ Day(now) \in Nat /\ Day(st[s]) \in Nat
      /\ daily \in [Days -> [n : Int, ttl : Nat]] /\ mails \in [Days -> Nat]
      /\ st[s] < DayEnd(Day(st[s])) /\ now < DayEnd(Day(now)) /\ Sec \in Nat \ {0} /\ DailyLimit \in Nat \ {0}
  <2>1. /\ now \in Nat /\ now <= MaxTime /\ st[s] \in Nat /\ st[s] <= now
        /\ daily \in [Days -> [n : Int, ttl : Nat]] /\ mails \in [Days -> Nat]
    BY EmailConstants DEF RedisTypes, RecordTypes, RequestTypes
  <2>2. now' = now
    BY SenderStep
  <2>3. st[s] <= MaxTime
    BY <2>1, EmailConstants
  <2> QED
    BY <2>1, <2>2, <2>3, InDays, DayMonotone, DayBounds, EmailConstants DEF DayEnd
<1> SUFFICES ASSUME NEW d \in Days PROVE DayOk(d)'
  BY DEF DayInv
<1> DEFINE S == Slots(d)
           M == Mailing(d)
           e == DayEnd(d)
           k == daily[d]
<1>1. /\ d \in Nat /\ k.n \in Int /\ k.ttl \in Nat /\ mails[d] \in Nat /\ e \in Nat
  <2>1. d \in Nat
    BY EmailConstants, DayBounds DEF Days
  <2>2. (d + 1) * DayLen \in Nat
    BY <2>1, EmailConstants
  <2> QED
    BY <1>0, <2>1, <2>2 DEF DayEnd
<1>2. /\ d > Day(now) => mails[d] = 0 /\ S = {} /\ k = NoKey /\ d \notin lapsed
      /\ d \in lapsed => now > e - Sec
      /\ d = Day(now) /\ k.ttl # 0 => k.ttl > e - Sec \/ k.ttl > MaxTime
      /\ d \notin strayed /\ d \notin lapsed =>
            /\ mails[d] + Cardinality(M) <= DailyLimit
            /\ d = Day(now) => mails[d] + Cardinality(S) <= k.n /\ (k.ttl = 0 => k.n = 0)
      /\ d \notin strayed /\ d \in lapsed =>
            /\ mails[d] + Cardinality(M) <= 2 * DailyLimit
            /\ d = Day(now) => /\ k.n \in Nat /\ mails[d] + Cardinality(M) <= DailyLimit + k.n
                               /\ k.n > 0 => k.ttl >= e
  <2>1. DayOk(d)
    BY DEF DayInv
  <2> QED
    BY <2>1 DEF DayOk, ComingDay, CounterTTL, FirstCount, SecondCount
<1>3. /\ Slots(d)' = IF s \in Slots(d)' THEN S \union {s} ELSE S \ {s}
      /\ Mailing(d)' = IF s \in Mailing(d)' THEN M \union {s} ELSE M \ {s}
      /\ s \in Slots(d)' <=> spc'[s] \in {"send", "undo", "rollback"} /\ Day(st'[s]) = d
      /\ s \in Mailing(d)' <=> spc'[s] = "send" /\ Day(st'[s]) = d
      /\ s \in S <=> spc[s] \in {"send", "undo", "rollback"} /\ Day(st[s]) = d
      /\ s \in M <=> spc[s] = "send" /\ Day(st[s]) = d
  BY SlotSteps
<1>4. /\ Cardinality(S) \in Nat /\ Cardinality(M) \in Nat
      /\ Cardinality(S \union {s}) = IF s \in S THEN Cardinality(S) ELSE Cardinality(S) + 1
      /\ Cardinality(M \union {s}) = IF s \in M THEN Cardinality(M) ELSE Cardinality(M) + 1
      /\ Cardinality(S \ {s}) = IF s \in S THEN Cardinality(S) - 1 ELSE Cardinality(S)
      /\ Cardinality(M \ {s}) = IF s \in M THEN Cardinality(M) - 1 ELSE Cardinality(M)
      /\ (s \in S => Cardinality(S) >= 1) /\ (s \in M => Cardinality(M) >= 1)
      /\ Cardinality(M) <= Cardinality(S)
  BY FiniteParts, CountStep, FS_Subset
<1>5. lapsed' = lapsed /\ Day(now)' = Day(now) /\ DayEnd(d)' = e
  <2>1. lapsed' = lapsed
    BY DEF SendStep, Precheck, Cooling, Reserve, Undo, SendOk, SendFails, RollbackPrecheck, CommitHash,
           CommitExpire, CommitCool, AbandonSend, vars, sendVars
  <2> QED
    BY <1>0, <2>1 DEF Day, DayEnd
<1> SUFFICES
      /\ d > Day(now) => mails'[d] = 0 /\ Slots(d)' = {} /\ daily'[d] = NoKey
      /\ d = Day(now) /\ daily'[d].ttl # 0 => daily'[d].ttl > e - Sec \/ daily'[d].ttl > MaxTime
      /\ d \notin strayed' /\ d \notin lapsed =>
            /\ mails'[d] + Cardinality(Mailing(d)') <= DailyLimit
            /\ d = Day(now) => /\ mails'[d] + Cardinality(Slots(d)') <= daily'[d].n
                               /\ daily'[d].ttl = 0 => daily'[d].n = 0
      /\ d \notin strayed' /\ d \in lapsed =>
            /\ mails'[d] + Cardinality(Mailing(d)') <= 2 * DailyLimit
            /\ d = Day(now) => /\ daily'[d].n \in Nat
                               /\ mails'[d] + Cardinality(Mailing(d)') <= DailyLimit + daily'[d].n
                               /\ daily'[d].n > 0 => daily'[d].ttl >= e
  BY <1>0, <1>2, <1>5 DEF DayOk, ComingDay, CounterTTL, FirstCount, SecondCount, NoKey
<1> HIDE DEF S, M, e, k
<1>6. CASE Reserve(s)
  <2>1. /\ spc[s] = "reserve" /\ spc'[s] = IF daily[Day(st[s])].n + 1 > DailyLimit THEN "undo" ELSE "send"
        /\ st'[s] = st[s] /\ UNCHANGED mails
        /\ strayed' = IF Day(st[s]) = Day(now) THEN strayed ELSE strayed \union {Day(st[s])}
    BY <1>0, <1>6, SenderStep DEF Reserve, GotoS, RedisTypes, RequestTypes
  <2>2. daily' = [daily EXCEPT ![Day(st[s])] = [n |-> daily[Day(st[s])].n + 1,
                                                ttl |-> now + Whole(EndOfDay(st[s]) - st[s])]]
    BY <1>6 DEF Reserve
  <2>3. CASE d = Day(st[s])
    <3>1. daily'[d].n = k.n + 1 /\ daily'[d].ttl = now + Whole(e - st[s])
      BY <1>0, <2>2, <2>3 DEF EndOfDay, DayEnd, e, k
    <3>2. e - st[s] \in Nat /\ Whole(e - st[s]) \in Nat /\ Whole(e - st[s]) >= Sec /\ Whole(e - st[s]) > e - st[s] - Sec
      <4>1. e - st[s] \in Nat
        BY <1>0, <1>1, <2>3 DEF e
      <4> QED
        BY <4>1, WholeSeconds
    <3>3. /\ daily'[d].ttl \in Nat /\ daily'[d].ttl > e - Sec /\ daily'[d].ttl # 0
          /\ now > e - Sec => daily'[d].ttl >= e
      BY <1>0, <1>1, <3>1, <3>2
    <3>4. s \in Slots(d)' /\ s \notin S /\ s \notin M /\ (s \in Mailing(d)' <=> k.n + 1 <= DailyLimit)
      BY <1>0, <1>1, <1>3, <2>1, <2>3 DEF k
    <3>5. /\ Cardinality(Slots(d)') = Cardinality(S) + 1
          /\ Cardinality(Mailing(d)') = IF k.n + 1 <= DailyLimit THEN Cardinality(M) + 1 ELSE Cardinality(M)
      BY <1>3, <1>4, <3>4
    <3>6. ~(d > Day(now)) /\ (d \notin strayed' => d = Day(now) /\ d \notin strayed)
      BY <1>0, <1>1, <2>1, <2>3
    <3>7. d \notin strayed' /\ d \notin lapsed =>
            /\ mails'[d] + Cardinality(Mailing(d)') <= DailyLimit
            /\ mails'[d] + Cardinality(Slots(d)') <= daily'[d].n
      BY <1>0, <1>1, <1>2, <1>4, <2>1, <3>1, <3>5, <3>6
    <3>8. d \notin strayed' /\ d \in lapsed =>
            /\ mails'[d] + Cardinality(Mailing(d)') <= 2 * DailyLimit
            /\ daily'[d].n \in Nat /\ mails'[d] + Cardinality(Mailing(d)') <= DailyLimit + daily'[d].n
            /\ daily'[d].ttl >= e
      BY <1>0, <1>1, <1>2, <1>4, <2>1, <3>1, <3>3, <3>5, <3>6
    <3> QED
      BY <3>3, <3>6, <3>7, <3>8
  <2>4. CASE d # Day(st[s])
    <3>1. daily'[d] = k /\ Slots(d)' = S /\ Mailing(d)' = M
      BY <1>0, <1>3, <2>1, <2>2, <2>4 DEF k
    <3> QED
      BY <1>2, <2>1, <3>1
  <2> QED
    BY <2>3, <2>4
<1>7. CASE Undo(s) \/ RollbackPrecheck(s)
  <2>1. PICK x \in Days : /\ Decr(x) /\ (x # Day(now) => x = Day(st[s]))
                          /\ x = Day(now) => \/ x \in strayed'
                                             \/ Day(st[s]) = Day(now) /\ x \notin lapsed
                          /\ x = Day(st[s]) \/ Day(now) # Day(st[s])
    <3>1. CASE Undo(s)
      <4>1. Decr(Day(st[s])) /\ (Day(st[s]) \in lapsed => Day(st[s]) \in strayed')
        BY <3>1 DEF Undo
      <4> QED
        BY <1>0, <4>1
    <3>2. CASE RollbackPrecheck(s)
      <4>1. Decr(Day(now)) /\ (Day(now) \in strayed' \/ (Day(st[s]) = Day(now) /\ Day(now) \notin lapsed))
        BY <3>2 DEF RollbackPrecheck
      <4> QED
        BY <1>0, <4>1
    <3> QED
      BY <1>7, <3>1, <3>2
  <2>2. /\ spc[s] \in {"undo", "rollback"} /\ spc'[s] = "idle" /\ UNCHANGED mails /\ strayed \subseteq strayed'
    BY <1>7, SenderStep DEF Undo, RollbackPrecheck
  <2>3. /\ daily'[x].n = daily[x].n - 1
        /\ daily'[x].ttl = IF daily[x].ttl = 0 THEN Never ELSE daily[x].ttl
        /\ \A y \in Days \ {x} : daily'[y] = daily[y]
    BY <2>1, CounterTypes
  <2>4. /\ s \notin M /\ Mailing(d)' = M
        /\ Cardinality(Slots(d)') = IF Day(st[s]) = d THEN Cardinality(S) - 1 ELSE Cardinality(S)
        /\ Slots(d)' \subseteq S
    BY <1>3, <1>4, <2>2
  <2>5. d > Day(now) => d # x
    BY <1>0, <1>1, <2>1
  <2>6. CASE x = d
    <3>1. daily'[d].n = k.n - 1 /\ daily'[d].ttl = IF k.ttl = 0 THEN Never ELSE k.ttl
      BY <2>3, <2>6 DEF k
    <3>2. Never > MaxTime /\ Never # 0
      BY EmailConstants DEF Never
    <3>3. d = Day(now) => daily'[d].ttl > e - Sec \/ daily'[d].ttl > MaxTime
      BY <1>2, <3>1, <3>2
    <3>4. daily'[d].ttl # 0
      BY <3>1, <3>2
    <3>5. ASSUME d \notin strayed', d = Day(now)
          PROVE  d \notin lapsed /\ mails[d] + Cardinality(Slots(d)') <= daily'[d].n
      <4>1. d \notin lapsed /\ d \notin strayed /\ Day(st[s]) = d
        BY <2>1, <2>2, <2>6, <3>5
      <4>2. s \in S /\ mails[d] + Cardinality(S) <= k.n
        BY <1>2, <1>3, <2>2, <3>5, <4>1
      <4> QED
        BY <1>1, <1>4, <2>4, <3>1, <4>1, <4>2
    <3>6. d \notin strayed' => /\ d \notin lapsed => mails[d] + Cardinality(M) <= DailyLimit
                               /\ d \in lapsed => mails[d] + Cardinality(M) <= 2 * DailyLimit
      BY <1>2, <2>2
    <3> QED
      BY <2>2, <2>4, <2>5, <2>6, <3>3, <3>4, <3>5, <3>6
  <2>7. CASE x # d
    <3>1. daily'[d] = k
      BY <2>3, <2>7 DEF k
    <3>2. Cardinality(Slots(d)') <= Cardinality(S)
      BY <1>4, <2>4
    <3>3. Cardinality(Slots(d)') \in Nat
      BY <1>3, <1>4, <2>2, <2>4
    <3>4. d > Day(now) => Slots(d)' = {}
      BY <1>2, <2>4
    <3>5. d \notin strayed' => d \notin strayed
      BY <2>2
    <3>6. mails[d] + Cardinality(S) <= k.n => mails[d] + Cardinality(Slots(d)') <= k.n
      BY <1>1, <1>4, <3>2, <3>3
    <3> QED
      BY <1>2, <2>2, <2>4, <3>1, <3>4, <3>5, <3>6
  <2> QED
    BY <2>6, <2>7
<1>8. CASE SendOk(s)
  <2>1. /\ spc[s] = "send" /\ spc'[s] = "hset" /\ UNCHANGED <<daily, strayed>>
        /\ mails' = [mails EXCEPT ![Day(st[s])] = @ + 1]
    BY <1>8, SenderStep DEF SendOk
  <2>2. mails'[d] = IF d = Day(st[s]) THEN mails[d] + 1 ELSE mails[d]
    BY <1>0, <2>1
  <2>3. /\ Cardinality(Slots(d)') = IF d = Day(st[s]) THEN Cardinality(S) - 1 ELSE Cardinality(S)
        /\ Cardinality(Mailing(d)') = IF d = Day(st[s]) THEN Cardinality(M) - 1 ELSE Cardinality(M)
        /\ Slots(d)' \subseteq S
    BY <1>3, <1>4, <2>1
  <2>4. /\ mails'[d] + Cardinality(Slots(d)') = mails[d] + Cardinality(S)
        /\ mails'[d] + Cardinality(Mailing(d)') = mails[d] + Cardinality(M)
        /\ d > Day(now) => mails'[d] = mails[d] /\ Slots(d)' \subseteq S
    BY <1>0, <1>1, <1>4, <2>2, <2>3
  <2>5. daily'[d] = k
    BY <2>1 DEF k
  <2> QED
    BY <1>2, <2>1, <2>4, <2>5
<1>9. CASE ~(Reserve(s) \/ Undo(s) \/ RollbackPrecheck(s) \/ SendOk(s))
  <2>1. UNCHANGED <<mails, daily, strayed>>
    BY <1>9 DEF SendStep, Precheck, Cooling, SendFails, CommitHash,
       CommitExpire, CommitCool, AbandonSend, vars, sendVars
  <2>2. (s \in Slots(d)' => s \in S) /\ (s \in Mailing(d)' => s \in M)
    BY <1>3, <1>9, SenderStep DEF SendStep, Precheck, Cooling, SendFails, CommitHash,
       CommitExpire, CommitCool, AbandonSend, vars, sendVars
  <2>3. /\ Slots(d)' \subseteq S
        /\ Cardinality(Slots(d)') = Cardinality(S) \/ Cardinality(Slots(d)') = Cardinality(S) - 1
        /\ Cardinality(Mailing(d)') = Cardinality(M) \/ Cardinality(Mailing(d)') = Cardinality(M) - 1
    BY <1>3, <1>4, <2>2
  <2>4. daily'[d] = k /\ mails'[d] = mails[d]
    BY <2>1 DEF k
  <2>5. /\ d > Day(now) => Slots(d)' = {}
        /\ mails[d] + Cardinality(Slots(d)') <= mails[d] + Cardinality(S)
        /\ mails[d] + Cardinality(Mailing(d)') <= mails[d] + Cardinality(M)
        /\ mails[d] + Cardinality(Slots(d)') \in Int /\ mails[d] + Cardinality(Mailing(d)') \in Int
        /\ mails[d] + Cardinality(S) \in Int /\ mails[d] + Cardinality(M) \in Int
    BY <1>1, <1>2, <1>4, <2>3
  <2>6. DailyLimit + k.n \in Int /\ 2 * DailyLimit \in Int
    BY <1>0, <1>1
  <2> QED
    BY <1>0, <1>1, <1>2, <2>1, <2>4, <2>5, <2>6
<1> QED
  BY <1>6, <1>7, <1>8, <1>9

\* The cooldown, for senders that are alone.
LEMMA CoolKept ==
  ASSUME RedisTypes, OverlapInv, CoolInv, Next
  PROVE  OverlapInv' /\ CoolInv'
<1>0. /\ now \in Nat /\ cool \in Nat /\ lastMail \in Int /\ Cooldown \in Nat
      /\ \A s \in Senders : st[s] \in Nat /\ st[s] <= now
  BY EmailConstants DEF RedisTypes, RecordTypes, RequestTypes
<1>1. ASSUME NEW t \in (now + 1)..MaxTime, Tick(t) PROVE OverlapInv' /\ CoolInv'
  <2>1. /\ UNCHANGED <<spc, overlap, lastMail>> /\ now' = t /\ t \in Nat /\ now < t
        /\ cool' = IF t >= cool THEN 0 ELSE cool
    BY <1>0, <1>1 DEF Tick
  <2> QED
    BY <1>0, <2>1, EmailConstants DEF OverlapInv, CoolInv
<1>2. ASSUME NEW v \in Verifiers, VerifyStep(v) PROVE OverlapInv' /\ CoolInv'
  <2>1. UNCHANGED <<spc, overlap, lastMail, now, cool>>
    BY <1>2 DEF VerifyStep, VerifyAbsent, VerifyExpired, VerifyRight, VerifyWrong, CountAttempt, CountLost,
         DeleteCode, DeleteLost, vars, sendVars
  <2> QED
    BY <2>1 DEF OverlapInv, CoolInv
<1>3. ASSUME NEW s \in Senders, SendStep(s) PROVE OverlapInv' /\ CoolInv'
  <2>0. (\A t \in Senders \ {s} : spc'[t] = spc[t]) /\ now' = now
    BY <1>3, SenderStep
  <2>1. CASE Precheck(s)
    <3>1. /\ spc[s] = "idle" /\ spc'[s] = "reserve" /\ UNCHANGED <<cool, lastMail>>
          /\ now >= cool \/ Rounded(cool - now) = 0
          /\ overlap' = IF Sending = {} THEN overlap ELSE overlap \union Sending \union {s}
      BY <1>3, <2>1, SenderStep DEF Precheck
    <3>2. \A t \in Senders \ {s} : spc[t] # "idle" => s \in overlap' /\ t \in overlap'
      BY <3>1 DEF Sending
    <3>3. overlap \subseteq overlap'
      BY <3>1
    <3>4. OverlapInv'
      BY <2>0, <3>1, <3>2, <3>3 DEF OverlapInv
    <3>5. lastMail # -1 => 2 * (lastMail + Cooldown - now) < Sec
      <4>1. 2 * (cool - now) < Sec
        <5>1. CASE now >= cool
          BY <1>0, <5>1, EmailConstants
        <5>2. CASE ~(now >= cool)
          BY <1>0, <3>1, <5>2, RoundedAway
        <5> QED
          BY <5>1, <5>2
      <4> QED
        BY <1>0, <4>1, EmailConstants DEF CoolInv
    <3> QED
      BY <2>0, <3>1, <3>3, <3>4, <3>5 DEF CoolInv
  <2>2. CASE CommitCool(s)
    <3>1. /\ spc[s] = "cool" /\ spc'[s] = "idle" /\ cool' = now + Cooldown /\ lastMail' = st[s] /\ overlap' = overlap \ {s}
      BY <1>3, <2>2, SenderStep DEF CommitCool, EndS
    <3>2. OverlapInv'
      BY <2>0, <3>1 DEF OverlapInv
    <3>3. \A t \in Senders : spc'[t] # "idle" => t \in overlap'
      BY <2>0, <3>1 DEF OverlapInv
    <3> QED
      BY <1>0, <2>0, <3>1, <3>2, <3>3 DEF CoolInv
  <2>3. CASE ~Precheck(s) /\ ~CommitCool(s)
    <3>1. /\ UNCHANGED <<cool, lastMail>>
          /\ \/ spc'[s] = "idle" /\ overlap' = overlap \ {s}
             \/ overlap' = overlap /\ spc[s] = "reserve" /\ spc'[s] \in {"undo", "send"}
             \/ overlap' = overlap /\ spc[s] # "idle" /\ spc'[s] \in {"hset", "rollback", "expire", "cool"}
             \/ overlap' = overlap /\ spc'[s] = spc[s]
      BY <1>3, <2>3, SenderStep DEF SendStep, Reserve, Cooling, Undo, SendOk, SendFails, RollbackPrecheck,
         CommitHash, CommitExpire, AbandonSend, EndS, vars, sendVars
    <3>2. OverlapInv'
      BY <2>0, <3>1 DEF OverlapInv
    <3>3. CoolInv'
      BY <2>0, <3>1 DEF CoolInv
    <3> QED
      BY <3>2, <3>3
  <2> QED
    BY <2>1, <2>2, <2>3
<1> QED
  BY <1>1, <1>2, <1>3 DEF Next

LEMMA SendsInvKept == ASSUME SendsInv, [Next]_vars PROVE SendsInv'
<1>1. RedisTypes'
  BY RedisTypesKept DEF SendsInv
<1>2. CASE Next
  <2>1. DayInv'
    <3>1. ASSUME NEW v \in Verifiers, VerifyStep(v) PROVE DayInv'
      <4>1. UNCHANGED <<now, mails, daily, strayed, lapsed, spc, st>>
        BY <3>1 DEF VerifyStep, VerifyAbsent, VerifyExpired, VerifyRight, VerifyWrong, CountAttempt, CountLost,
           DeleteCode, DeleteLost, vars, sendVars
      <4>2. \A d : Slots(d)' = Slots(d) /\ Mailing(d)' = Mailing(d)
        BY <4>1 DEF Slots, Mailing, Day
      <4> QED
        BY <4>1, <4>2 DEF SendsInv, DayInv, DayOk, ComingDay, CounterTTL, FirstCount, SecondCount, Day
    <3> QED
      BY <1>2, <3>1, DayTick, DaySender DEF SendsInv, Next
  <2> QED
    BY <1>1, <1>2, <2>1, CoolKept DEF SendsInv
<1>3. CASE UNCHANGED vars
  <2>1. UNCHANGED <<now, mails, daily, strayed, lapsed, spc, st, overlap, lastMail, cool>>
    BY <1>3 DEF vars, sendVars
  <2>2. \A d : Slots(d)' = Slots(d) /\ Mailing(d)' = Mailing(d)
    BY <2>1 DEF Slots, Mailing, Day
  <2> QED
    BY <1>1, <2>1, <2>2 DEF SendsInv, DayInv, DayOk, ComingDay, CounterTTL, FirstCount, SecondCount, OverlapInv,
       CoolInv, Day
<1> QED
  BY <1>2, <1>3

LEMMA SendsInvInit == Init => SendsInv
<1> SUFFICES ASSUME Init PROVE SendsInv
  OBVIOUS
<1>1. RedisTypes
  BY EmailConstants DEF Init, RedisTypes, RecordTypes, RequestTypes, NoKey, NoRec
<1>2. OverlapInv /\ CoolInv
  BY DEF Init, OverlapInv, CoolInv
<1>3. \A d : Slots(d) = {} /\ Mailing(d) = {}
  BY DEF Init, Slots, Mailing
<1>4. \A d : Cardinality(Slots(d)) = 0 /\ Cardinality(Mailing(d)) = 0
  BY <1>3, FS_EmptySet, Zenon
<1>5. \A d \in Days : mails[d] = 0 /\ daily[d] = NoKey /\ daily[d].n = 0 /\ daily[d].ttl = 0 /\ d \notin lapsed
  BY DEF Init, NoKey
<1>6. DayInv
  BY <1>3, <1>4, <1>5, EmailConstants DEF DayInv, DayOk, ComingDay, CounterTTL, FirstCount, SecondCount
<1> QED
  BY <1>1, <1>2, <1>6 DEF SendsInv

LEMMA SendsInvImplies == SendsInv => DailyCap /\ CooldownKept
<1> SUFFICES ASSUME SendsInv PROVE DailyCap /\ CooldownKept
  OBVIOUS
<1>1. DailyCap
  <2>1. ASSUME NEW d \in Days, d \notin strayed
        PROVE  mails[d] <= IF d \in lapsed THEN 2 * DailyLimit ELSE DailyLimit
    <3>1. mails[d] + Cardinality(Mailing(d)) <= IF d \in lapsed THEN 2 * DailyLimit ELSE DailyLimit
      BY <2>1 DEF SendsInv, DayInv, DayOk, FirstCount, SecondCount
    <3>2. Cardinality(Mailing(d)) \in Nat /\ mails[d] \in Nat
      BY FiniteParts, FS_CardinalityType DEF SendsInv, RedisTypes, RecordTypes
    <3> QED
      BY <3>1, <3>2, EmailConstants
  <2>2. \A d \in lapsed : now > (d + 1) * DayLen - Sec
    BY DEF SendsInv, RedisTypes, RecordTypes, DayInv, DayOk, CounterTTL, DayEnd
  <2> QED
    BY <2>1, <2>2 DEF DailyCap
<1>2. CooldownKept
  BY EmailConstants DEF SendsInv, CoolInv, CooldownKept, RedisTypes, RecordTypes
<1> QED
  BY <1>1, <1>2

----------------------------------------------------------------------------
(* On Redis: the codes                                                     *)

LEMMA CodeFacts ==
  ASSUME CodesInv
  PROVE  /\ RedisTypes /\ now \in Nat /\ Unix(now) >= 1 /\ issued \in Nat /\ issued <= MaxSends
         /\ rec.h \in Nat /\ rec.exp \in Nat /\ rec.n \in Nat /\ rec.ttl \in Nat
         /\ last \in Nat /\ lastExp \in Nat /\ last <= issued /\ rec.h <= issued
         /\ wrong \in [Codes -> Nat]
         /\ \A c \in 1..issued : c \in Codes /\ wrong[c] \in Nat
         /\ \A v \in Verifiers : vcode[v] \in 0..issued /\ vn[v] \in Nat
         /\ \A s \in Senders : st[s] \in Nat /\ st[s] <= now /\ scode[s] \in Nat
         /\ CodeTTL \in Nat /\ MaxAttempts \in Nat \ {0}
<1>0. Unix(now) >= 1
  <2> DEFINE q == Unix(now)
  <2>1. /\ now \in Nat /\ now >= Sec /\ q \in Nat /\ now < (q + 1) * Sec /\ Sec \in Nat \ {0}
    BY UnixBounds, EmailConstants DEF CodesInv, RedisTypes, RecordTypes
  <2> HIDE DEF q
  <2>2. q # 0
    BY <2>1
  <2> QED
    BY <2>1, <2>2 DEF q
<1>1. /\ RedisTypes /\ now \in Nat /\ issued \in Nat /\ begun \in Nat
      /\ rec.h \in Nat /\ rec.exp \in Nat /\ rec.n \in Nat /\ rec.ttl \in Nat
      /\ last \in Nat /\ lastExp \in Nat /\ wrong \in [Codes -> Nat]
      /\ \A v \in Verifiers : vcode[v] \in Nat /\ vn[v] \in Nat
      /\ \A s \in Senders : st[s] \in Nat /\ st[s] <= now /\ scode[s] \in Nat
  BY EmailConstants DEF CodesInv, RedisTypes, RecordTypes, RequestTypes
<1>2. Cardinality(Early) \in Nat
  BY FiniteParts, FS_CardinalityType
<1>3. issued <= MaxSends
  BY <1>1, <1>2, EmailConstants DEF CodesInv, BegunInv
<1>4. last <= issued /\ rec.h <= issued /\ \A v \in Verifiers : vcode[v] <= issued
  BY DEF CodesInv, FreshInv
<1> QED
  BY <1>0, <1>1, <1>3, <1>4, EmailConstants DEF Codes

\* The mails and the requests that may still mail.
LEMMA BegunKept == ASSUME RedisTypes, BegunInv, [Next]_vars PROVE BegunInv'
<1>0. /\ IsFiniteSet(Early) /\ Cardinality(Early) \in Nat /\ issued \in Nat /\ begun \in Nat /\ MaxSends \in Nat
  BY FiniteParts, FS_CardinalityType, EmailConstants DEF RedisTypes, RecordTypes
<1>1. ASSUME NEW s \in Senders, SendStep(s) PROVE BegunInv'
  <2>1. \A t \in Senders \ {s} : spc'[t] = spc[t]
    BY <1>1, SenderStep
  <2>2. Early' = IF spc'[s] \in {"reserve", "undo", "send", "rollback"} THEN Early \union {s} ELSE Early \ {s}
    BY <2>1 DEF Early
  <2>3. /\ s \in Early <=> spc[s] \in {"reserve", "undo", "send", "rollback"}
        /\ Cardinality(Early \union {s}) = IF s \in Early THEN Cardinality(Early) ELSE Cardinality(Early) + 1
        /\ Cardinality(Early \ {s}) = IF s \in Early THEN Cardinality(Early) - 1 ELSE Cardinality(Early)
    BY <1>0, CountStep DEF Early
  <2>4. CASE Precheck(s)
    BY <1>0, <1>1, <2>2, <2>3, <2>4, SenderStep DEF Precheck, BegunInv
  <2>5. CASE SendOk(s)
    <3>1. spc[s] = "send" /\ spc'[s] = "hset" /\ issued' = issued + 1 /\ begun' = begun
      BY <1>1, <2>5, SenderStep DEF SendOk
    <3>2. s \in Early /\ Early' = Early \ {s}
      BY <2>2, <2>3, <3>1
    <3>3. Cardinality(Early') = Cardinality(Early) - 1
      BY <2>3, <3>2
    <3> QED
      BY <1>0, <3>1, <3>3 DEF BegunInv
  <2>6. CASE ~Precheck(s) /\ ~SendOk(s)
    <3>1. UNCHANGED <<begun, issued>>
      BY <1>1, <2>6 DEF SendStep, Cooling, Reserve, Undo, SendFails, RollbackPrecheck, CommitHash,
         CommitExpire, CommitCool, AbandonSend, vars, sendVars
    <3>2. spc'[s] \in {"reserve", "undo", "send", "rollback"} => s \in Early
      BY <1>1, <2>3, <2>6, SenderStep DEF SendStep, Cooling, Reserve, Undo, SendFails, RollbackPrecheck, CommitHash,
         CommitExpire, CommitCool, AbandonSend, vars, sendVars
    <3>3. Cardinality(Early') = Cardinality(Early) \/ Cardinality(Early') = Cardinality(Early) - 1
      BY <2>2, <2>3, <3>2
    <3> QED
      BY <1>0, <3>1, <3>3 DEF BegunInv
  <2> QED
    BY <2>4, <2>5, <2>6
<1>2. ASSUME UNCHANGED <<spc, issued, begun>> PROVE BegunInv'
  BY <1>2 DEF BegunInv, Early
<1>3. UNCHANGED vars \/ (\E t \in (now + 1)..MaxTime : Tick(t)) => UNCHANGED <<spc, issued, begun>>
  BY DEF Tick, vars, sendVars
<1> QED
  BY <1>1, <1>2, <1>3, VerifierStep DEF Next

CodeParts == FreshInv /\ HashInv /\ MeetInv /\ AttemptInv /\ LastInv

\* The clock, which may take the record away, though not too early.
LEMMA CodesTick == ASSUME CodesInv, NEW t \in (now + 1)..MaxTime, Tick(t) PROVE CodeParts'
<1>0. /\ now' = t /\ t \in Nat /\ t > now /\ (rec' = rec \/ (rec' = NoRec /\ t >= rec.ttl))
      /\ UNCHANGED <<spc, st, scode, issued, vpc, vn, vcode, used, wrong, last, lastExp, excused>>
  BY CodeFacts DEF Tick, verifyVars
<1>1. FreshInv'
  BY <1>0, CodeFacts DEF CodesInv, FreshInv, Stored, NoRec
<1>2. HashInv'
  BY <1>0 DEF CodesInv, HashInv, NoRec
<1>3. MeetInv'
  BY <1>0, CodeFacts DEF CodesInv, MeetInv, Verifying, NoRec
<1>4. AttemptInv'
  BY <1>0 DEF CodesInv, AttemptInv, Verifying, NoRec
<1>5. LastInv'
  BY <1>0, CodeFacts, LifetimeBounds DEF CodesInv, LastInv, NoRec
<1> QED
  BY <1>1, <1>2, <1>3, <1>4, <1>5 DEF CodeParts

\* A sender's step that leaves the record alone.
LEMMA CodesQuiet ==
  ASSUME CodesInv, NEW s \in Senders, SendStep(s), ~CommitHash(s), ~CommitExpire(s)
  PROVE  CodeParts'
<1>0. /\ \A t \in Senders \ {s} : spc'[t] = spc[t] /\ scode'[t] = scode[t]
      /\ UNCHANGED <<now, vpc, vn, vcode, used, wrong>>
  BY CodeFacts, SenderStep
<1>1. UNCHANGED <<rec, last, lastExp>> /\ excused \subseteq excused'
  BY DEF SendStep, Precheck, Cooling, Reserve, Undo, SendOk, SendFails, RollbackPrecheck,
         CommitCool, AbandonSend, vars, codeVars
<1>2. \/ spc[s] = "send" /\ spc'[s] = "hset" /\ scode'[s] = issued + 1 /\ issued' = issued + 1
      \/ issued' = issued /\ ~(Stored(s)') /\ (spc[s] = "expire" => scode[s] \in excused')
      \/ issued' = issued /\ spc'[s] = spc[s] /\ scode'[s] = scode[s]
  BY CodeFacts, SenderStep DEF SendStep, Precheck, Cooling, Reserve, Undo, SendOk, SendFails, RollbackPrecheck,
         CommitCool, AbandonSend, vars, sendVars, Stored
<1>3. HashInv'
  BY <1>1 DEF CodesInv, HashInv
<1>4. MeetInv'
  BY <1>0, <1>1 DEF CodesInv, MeetInv, Verifying
<1>5. AttemptInv'
  BY <1>0, <1>1 DEF CodesInv, AttemptInv, Verifying
<1>6. LastInv'
  BY <1>0, <1>1, <1>2 DEF CodesInv, LastInv, Stored
<1>7. FreshInv'
  <2>1. CASE issued' = issued
    BY <1>0, <1>1, <1>2, <2>1, CodeFacts DEF CodesInv, FreshInv, Stored
  <2>2. CASE spc'[s] = "hset" /\ scode'[s] = issued + 1 /\ issued' = issued + 1
    <3>1. /\ issued \in Nat /\ rec.h <= issued /\ last <= issued
          /\ \A v \in Verifiers : vcode[v] \in Nat /\ vcode[v] <= issued
          /\ used \subseteq 1..issued
          /\ \A c \in Codes : c > issued => wrong[c] = 0
          /\ rec.h \in Nat /\ last \in Nat
      BY CodeFacts DEF CodesInv, FreshInv
    <3>2. issued + 1 \in Codes
      <4>1. BegunInv' /\ RedisTypes'
        BY BegunKept, RedisTypesKept, CodeFacts DEF CodesInv, Next
      <4>2. Cardinality(Early)' \in Nat /\ Cardinality(Early') \in Nat
        <5>1. Early' \subseteq Senders /\ IsFiniteSet(Senders)
          BY EmailAssumption DEF Early
        <5> QED
          BY <5>1, FS_Subset, FS_CardinalityType
      <4>3. issued' <= MaxSends
        BY <2>2, <3>1, <4>1, <4>2, EmailConstants DEF BegunInv, RedisTypes, RecordTypes
      <4> QED
        BY <2>2, <3>1, <4>3, EmailConstants DEF Codes
    <3>3. \A t \in Senders \ {s} : Stored(t)' => Stored(t) /\ scode[t] \in 1..issued /\ scode'[t] = scode[t]
      BY <1>0 DEF CodesInv, FreshInv, Stored
    <3>4. \A t \in Senders : Stored(t)' => scode'[t] \in 1..issued'
      BY <2>2, <3>1, <3>3
    <3>5. \A t, r \in Senders : t # r /\ Stored(t)' /\ Stored(r)' => scode'[t] # scode'[r]
      BY <2>2, <3>1, <3>3 DEF CodesInv, FreshInv
    <3>6. ASSUME NEW t \in Senders, spc'[t] = "hset"
          PROVE  /\ scode'[t] \notin used /\ wrong[scode'[t]] = 0
                 /\ scode'[t] # rec.h /\ scode'[t] # last
                 /\ \A v \in Verifiers : vcode[v] # scode'[t]
      <4>1. CASE t = s
        BY <2>2, <3>1, <3>2, <4>1
      <4>2. CASE t # s
        BY <1>0, <3>6, <4>2 DEF CodesInv, FreshInv
      <4> QED
        BY <4>1, <4>2
    <3>7. /\ rec.h <= issued' /\ last <= issued'
          /\ \A v \in Verifiers : vcode[v] <= issued'
          /\ \A c \in Codes : c > issued' => wrong[c] = 0
      BY <2>2, <3>1, EmailConstants DEF Codes
    <3>8. used \subseteq 1..issued'
      BY <2>2, <3>1
    <3> QED
      BY <1>0, <1>1, <3>4, <3>5, <3>6, <3>7, <3>8 DEF FreshInv
  <2> QED
    BY <1>2, <2>1, <2>2
<1> QED
  BY <1>3, <1>4, <1>5, <1>6, <1>7 DEF CodeParts

\* A new code is stored: nobody has guessed at it, and it is excused if a
\* verification of the code before is still in flight.
LEMMA CodesHash == ASSUME CodesInv, NEW s \in Senders, CommitHash(s) PROVE CodeParts'
<1> DEFINE c == scode[s]
<1>0. /\ \A t \in Senders \ {s} : spc'[t] = spc[t] /\ scode'[t] = scode[t]
      /\ spc[s] = "hset" /\ spc'[s] = "expire" /\ scode'[s] = c
      /\ UNCHANGED <<now, vpc, vn, vcode, used, wrong, issued>>
  BY CodeFacts, SenderStep DEF SendStep, CommitHash
<1>1. /\ rec'.h = c /\ rec'.exp = Unix(st[s] + CodeTTL) /\ rec'.n = 0
      /\ last' = c /\ lastExp' = st[s] + Lifetime
      /\ excused' = IF Verifying = {} THEN excused ELSE excused \union {c}
  BY DEF CommitHash
<1>2. /\ c \in 1..issued /\ c \notin used /\ wrong[c] = 0 /\ c # rec.h /\ c # last
      /\ \A v \in Verifiers : vcode[v] # c
      /\ \A t \in Senders \ {s} : Stored(t) => scode[t] # c
  BY <1>0 DEF CodesInv, FreshInv, Stored
<1>3. Verifying' = Verifying /\ Verifying \subseteq Verifiers /\ excused \subseteq excused'
  BY <1>0, <1>1 DEF Verifying
<1> HIDE DEF c
<1>4. FreshInv'
  <2>1. \A t \in Senders : Stored(t)' => Stored(t) /\ scode'[t] = scode[t]
    BY <1>0 DEF Stored, c
  <2>2. \A t \in Senders : spc'[t] = "hset" => t # s /\ spc[t] = "hset" /\ Stored(t)
    BY <1>0 DEF Stored
  <2>3. rec'.h <= issued /\ last' <= issued
    BY <1>1, <1>2, CodeFacts
  <2>4. ASSUME NEW t \in Senders, spc'[t] = "hset"
        PROVE  /\ scode'[t] \notin used /\ wrong[scode'[t]] = 0
               /\ scode'[t] # rec'.h /\ scode'[t] # last'
               /\ \A v \in Verifiers : vcode[v] # scode'[t]
    BY <1>0, <1>1, <1>2, <2>2, <2>4 DEF CodesInv, FreshInv
  <2> QED
    BY <1>0, <2>1, <2>3, <2>4 DEF CodesInv, FreshInv
<1>5. HashInv'
  <2>1. /\ st[s] + Lifetime \in Nat /\ st[s] + CodeTTL \in Nat
        /\ st[s] + Lifetime <= st[s] + CodeTTL
    BY LifetimeBounds, CodeFacts
  <2>2. Unix(st[s] + Lifetime) <= Unix(st[s] + CodeTTL) /\ Unix(lastExp') = Unix(st[s] + Lifetime)
    BY <1>1, <2>1, UnixMonotone
  <2>3. /\ Unix(st[s] + Lifetime) \in Nat /\ Unix(st[s] + CodeTTL) \in Nat
    BY <2>1, UnixBounds
  <2> QED
    BY <1>1, <1>2, <2>2, <2>3 DEF HashInv, Unix
<1>6. MeetInv'
  <2> SUFFICES ASSUME NEW v \in Verifying
               PROVE  /\ \A u \in Verifying : u # v => vcode[v] \in excused'
                      /\ rec'.h \in excused'
                      /\ vpc[v] = "hset" /\ vcode[v] \notin excused' =>
                            /\ vcode[v] # 0 /\ vcode[v] \notin used /\ vn[v] = wrong[vcode[v]]
                            /\ rec'.h # vcode[v]
                      /\ vcode[v] # last'
    BY <1>0, <1>3 DEF MeetInv
  <2>1. c \in excused'
    BY <1>1
  <2> QED
    BY <1>1, <1>2, <1>3, <2>1 DEF CodesInv, MeetInv
<1>7. AttemptInv'
  BY <1>0, <1>1, <1>2, <1>3, CodeFacts DEF AttemptInv
<1>8. LastInv'
  <2>1. lastExp' <= now' + Lifetime
    BY <1>0, <1>1, CodeFacts, LifetimeBounds
  <2> QED
    BY <1>0, <1>1, <2>1 DEF LastInv
<1> QED
  BY <1>4, <1>5, <1>6, <1>7, <1>8 DEF CodeParts

\* The new code gets its time to live, or some other record does.
LEMMA CodesExpire == ASSUME CodesInv, NEW s \in Senders, CommitExpire(s) PROVE CodeParts'
<1>0. /\ \A t \in Senders \ {s} : spc'[t] = spc[t] /\ scode'[t] = scode[t]
      /\ spc[s] = "expire" /\ spc'[s] = "cool" /\ scode'[s] = scode[s]
      /\ UNCHANGED <<now, vpc, vn, vcode, used, wrong, issued, last, lastExp>>
  BY CodeFacts, SenderStep DEF SendStep, CommitExpire
<1>1. /\ rec'.h = rec.h /\ rec'.exp = rec.exp /\ rec'.n = rec.n
      /\ rec.h # 0 => rec'.ttl = now + Whole(CodeTTL)
      /\ excused \subseteq excused' /\ (rec.h = scode[s] \/ scode[s] \in excused')
  <2>1. rec \in [h : Nat, exp : Nat, n : Nat, ttl : Nat]
    BY DEF CodesInv, RedisTypes, RecordTypes
  <2> QED
    BY <2>1 DEF CommitExpire, NoRec
<1>2. Verifying' = Verifying
  BY <1>0 DEF Verifying
<1>3. FreshInv'
  BY <1>0, <1>1 DEF CodesInv, FreshInv, Stored
<1>4. HashInv'
  BY <1>0, <1>1 DEF CodesInv, HashInv
<1>5. MeetInv'
  BY <1>0, <1>1, <1>2 DEF CodesInv, MeetInv
<1>6. AttemptInv'
  BY <1>0, <1>1, <1>2 DEF CodesInv, AttemptInv
<1>7. LastInv'
  <2>1. lastExp <= now + Lifetime /\ lastExp <= now + Whole(CodeTTL)
    BY CodeFacts, LifetimeBounds DEF CodesInv, LastInv
  <2>2. rec.h = last /\ rec.ttl >= lastExp /\ last # 0 => rec'.h = last /\ rec'.ttl >= lastExp
    BY <1>1, <2>1
  <2>3. scode[s] = last => last \in excused' \/ last = 0 \/ (rec'.h = last /\ rec'.ttl >= lastExp)
    BY <1>1, <2>1
  <2>4. \A t \in Senders \ {s} : spc[t] = "expire" => spc'[t] = "expire" /\ scode'[t] = scode[t]
    BY <1>0
  <2> QED
    BY <1>0, <1>1, <2>1, <2>2, <2>3, <2>4 DEF CodesInv, LastInv
<1> QED
  BY <1>3, <1>4, <1>5, <1>6, <1>7 DEF CodeParts

\* A verification reads the record.  Where it meets another one, the codes of both
\* are excused.
LEMMA CodesRead ==
  ASSUME CodesInv, NEW v \in Verifiers, VerifyExpired(v) \/ VerifyRight(v) \/ VerifyWrong(v)
  PROVE  CodeParts'
<1>0. /\ \A u \in Verifiers \ {v} : vpc'[u] = vpc[u] /\ vn'[u] = vn[u] /\ vcode'[u] = vcode[u]
      /\ vpc[v] = "idle" /\ vpc'[v] # "idle" /\ vcode'[v] = rec.h
      /\ VerifyExpired(v) => vpc'[v] = "del"
      /\ VerifyRight(v) => vpc'[v] = "del"
      /\ VerifyWrong(v) => vpc'[v] = "hset" /\ vn'[v] = rec.n + 1
      /\ UNCHANGED <<now, spc, st, scode, issued, begun, last, lastExp, rec>>
  BY CodeFacts, VerifierStep DEF VerifyStep, VerifyExpired, VerifyRight, VerifyWrong
<1>1. /\ VerifyExpired(v) => Unix(now) > rec.exp /\ used' = used /\ wrong' = wrong
      /\ VerifyRight(v) => Unix(now) <= rec.exp /\ used' = used \union {rec.h} /\ wrong' = wrong
      /\ VerifyWrong(v) => Unix(now) <= rec.exp /\ used' = used /\ wrong' = [wrong EXCEPT ![rec.h] = @ + 1]
      /\ excused' = excused \union Meets(rec.h)
  BY DEF VerifyExpired, VerifyRight, VerifyWrong
<1>2. VerifyRight(v) \/ VerifyWrong(v) => rec.h \in 1..issued
  BY <1>1, CodeFacts, UnixBounds DEF CodesInv, HashInv
<1>3. Verifying' = Verifying \union {v} /\ v \notin Verifying /\ Verifying \subseteq Verifiers
  BY <1>0 DEF Verifying
<1>4. Verifying # {} => rec.h \in excused' /\ \A u \in Verifying : vcode[u] \in excused'
  BY <1>1 DEF Meets
<1>5. excused \subseteq excused' /\ used \subseteq used'
  BY <1>1
<1>6. /\ \A c \in Codes : wrong'[c] = wrong[c] \/ (wrong'[c] = wrong[c] + 1 /\ c = rec.h /\ VerifyWrong(v))
      /\ VerifyWrong(v) => wrong'[rec.h] = wrong[rec.h] + 1
  BY <1>1, <1>2, CodeFacts
<1>7. FreshInv'
  <2>1. used' \subseteq 1..issued
    BY <1>1, <1>2 DEF CodesInv, FreshInv
  <2>2. \A c \in Codes : c > issued => wrong'[c] = 0
    BY <1>2, <1>6, CodeFacts DEF CodesInv, FreshInv
  <2>3. \A u \in Verifiers : vcode'[u] <= issued
    BY <1>0 DEF CodesInv, FreshInv
  <2>4. ASSUME NEW s \in Senders, spc[s] = "hset"
        PROVE  /\ scode[s] \notin used' /\ wrong'[scode[s]] = 0
               /\ \A u \in Verifiers : vcode'[u] # scode[s]
    <3>1. /\ scode[s] \in 1..issued /\ scode[s] \notin used /\ wrong[scode[s]] = 0
          /\ scode[s] # rec.h /\ \A u \in Verifiers : vcode[u] # scode[s]
      BY <2>4 DEF CodesInv, FreshInv, Stored
    <3> QED
      BY <1>0, <1>1, <1>6, <3>1, CodeFacts
  <2> QED
    BY <1>0, <2>1, <2>2, <2>3, <2>4 DEF CodesInv, FreshInv, Stored
<1>8. HashInv'
  BY <1>0 DEF CodesInv, HashInv
<1>9. MeetInv'
  <2>1. ASSUME NEW w \in Verifying
        PROVE  vcode'[w] \in excused' /\ rec.h \in excused' /\ w # v
    BY <1>0, <1>3, <1>4
  <2>2. \A u \in Verifying' : u # v => vcode'[v] \in excused'
    BY <1>0, <1>3, <1>4
  <2>3. vpc'[v] = "hset" /\ rec.h \notin excused' =>
          rec.h # 0 /\ rec.h \notin used' /\ vn'[v] = wrong'[rec.h] /\ rec.n + 1 = wrong'[rec.h]
    <3> SUFFICES ASSUME vpc'[v] = "hset", rec.h \notin excused'
                 PROVE  rec.h # 0 /\ rec.h \notin used' /\ vn'[v] = wrong'[rec.h] /\ rec.n + 1 = wrong'[rec.h]
      OBVIOUS
    <3>1. VerifyWrong(v) /\ Verifying = {} /\ rec.h \notin excused /\ rec.h # 0
      BY <1>0, <1>2, <1>4, <1>5
    <3>2. rec.h \notin used /\ rec.n = wrong[rec.h]
      BY <3>1 DEF CodesInv, AttemptInv
    <3> QED
      BY <1>0, <1>1, <1>6, <3>1, <3>2
  <2>4. vpc'[v] = "del" /\ rec.h = last /\ last # 0 => last \in used' \/ now > lastExp
    <3>1. now \in Nat /\ lastExp \in Nat /\ rec.exp \in Nat /\ Unix(now) \in Nat /\ Unix(lastExp) \in Nat
      BY CodeFacts, UnixBounds
    <3>2. Unix(now) > Unix(lastExp) => now > lastExp
      BY <3>1, UnixMonotone
    <3> QED
      BY <1>0, <1>1, <3>1, <3>2 DEF CodesInv, HashInv
  <2>5. /\ rec' = rec /\ last' = last /\ lastExp' = lastExp /\ now' = now /\ vcode'[v] = rec.h
    BY <1>0
  <2> QED
    BY <1>3, <2>1, <2>2, <2>3, <2>4, <2>5 DEF MeetInv
<1>10. AttemptInv'
  BY <1>0, <1>3, <1>5, <1>6, CodeFacts DEF CodesInv, AttemptInv
<1>11. LastInv'
  <2>1. last # 0 /\ wrong[last] >= MaxAttempts => wrong'[last] >= MaxAttempts
    BY <1>6, CodeFacts
  <2> QED
    BY <1>0, <1>5, <2>1 DEF CodesInv, LastInv
<1> QED
  BY <1>7, <1>8, <1>9, <1>10, <1>11 DEF CodeParts

\* A verification writes the counter, or fails to: the code is its own, or excused.
LEMMA CodesCount ==
  ASSUME CodesInv, NEW v \in Verifiers, CountAttempt(v) \/ CountLost(v)
  PROVE  CodeParts'
<1>0. /\ \A u \in Verifiers \ {v} : vpc'[u] = vpc[u] /\ vn'[u] = vn[u] /\ vcode'[u] = vcode[u]
      /\ vpc[v] = "hset"
      /\ \/ vn[v] >= MaxAttempts /\ vpc'[v] = "del" /\ vcode'[v] = vcode[v]
         \/ vn[v] < MaxAttempts /\ vpc'[v] = "idle" /\ vcode'[v] = 0
      /\ UNCHANGED <<now, spc, st, scode, issued, begun, last, lastExp, used, wrong>>
  BY CodeFacts, VerifierStep DEF VerifyStep, CountAttempt, CountLost
<1>1. /\ rec'.h = rec.h /\ rec'.exp = rec.exp /\ (rec.h # 0 => rec'.ttl = rec.ttl)
      /\ CountAttempt(v) => rec'.n = vn[v]
      /\ CountLost(v) => rec'.n = rec.n /\ vcode[v] \in excused'
      /\ excused \subseteq excused'
  <2>1. rec \in [h : Nat, exp : Nat, n : Nat, ttl : Nat]
    BY DEF CodesInv, RedisTypes, RecordTypes
  <2> QED
    BY <2>1 DEF CountAttempt, CountLost, NoRec
<1>2. v \in Verifying /\ Verifying' \subseteq Verifying /\ (Verifying' = {} => vn[v] < MaxAttempts)
  BY <1>0 DEF Verifying
<1>3. ASSUME NEW w \in Verifying, w # v
      PROVE  vcode[w] \in excused' /\ vcode'[w] = vcode[w]
  <2>1. w \in Verifiers /\ vcode[w] \in excused
    BY <1>2, <1>3 DEF CodesInv, MeetInv, Verifying
  <2> QED
    BY <1>0, <1>1, <1>3, <2>1
<1>4. rec.h # 0 /\ rec.h \notin excused' =>
        /\ rec.h = vcode[v] /\ rec.h \notin used /\ vn[v] = wrong[rec.h] /\ rec.n + 1 = wrong[rec.h]
  BY <1>0, <1>1, <1>2 DEF CodesInv, MeetInv
<1>5. FreshInv'
  <2>1. vcode'[v] = vcode[v] \/ vcode'[v] = 0
    BY <1>0
  <2>2. \A u \in Verifiers : vcode'[u] <= issued
    BY <1>0, <2>1, CodeFacts
  <2>3. \A s \in Senders : spc[s] = "hset" => scode[s] \in 1..issued /\ \A u \in Verifiers : vcode'[u] # scode[s]
    BY <1>0, <2>1 DEF CodesInv, FreshInv, Stored
  <2> QED
    BY <1>0, <1>1, <2>2, <2>3 DEF CodesInv, FreshInv, Stored
<1>6. HashInv'
  BY <1>0, <1>1 DEF CodesInv, HashInv
<1>7. MeetInv'
  <2> SUFFICES ASSUME NEW w \in Verifying'
               PROVE  /\ \A u \in Verifying' : u # w => vcode'[w] \in excused'
                      /\ rec'.h # 0 /\ rec'.h # vcode'[w] => rec'.h \in excused'
                      /\ vpc'[w] = "hset" => vcode'[w] \in excused'
                      /\ vpc'[w] = "del" /\ vcode'[w] = last /\ last # 0 /\ last \notin excused' =>
                            wrong[last] >= MaxAttempts
    BY <1>0 DEF MeetInv
  <2>1. w \in Verifying /\ w \in Verifiers /\ vpc'[w] # "idle"
    BY <1>2 DEF Verifying
  <2>2. CASE w # v
    BY <1>1, <1>3, <2>1, <2>2 DEF CodesInv, MeetInv
  <2>3. CASE w = v
    <3>1. vpc'[v] = "del" /\ vcode'[v] = vcode[v] /\ vn[v] >= MaxAttempts
      BY <1>0, <2>1, <2>3
    <3>2. vcode[v] \notin excused => vn[v] = wrong[vcode[v]]
      BY <1>0, <1>2 DEF CodesInv, MeetInv
    <3>3. rec.h # 0 /\ rec.h # vcode[v] => rec.h \in excused
      BY <1>2 DEF CodesInv, MeetInv
    <3>4. \A u \in Verifying' : u # v => vcode[v] \in excused
      BY <1>2 DEF CodesInv, MeetInv
    <3> QED
      BY <1>1, <2>3, <3>1, <3>2, <3>3, <3>4
  <2> QED
    BY <2>2, <2>3
<1>8. AttemptInv'
  <2>1. rec'.h # 0 /\ rec'.h \notin excused' => CountAttempt(v)
    BY <1>1, <1>4
  <2> QED
    BY <1>0, <1>1, <1>2, <1>4, <2>1, CodeFacts DEF AttemptInv
<1>9. LastInv'
  BY <1>0, <1>1 DEF CodesInv, LastInv
<1> QED
  BY <1>5, <1>6, <1>7, <1>8, <1>9 DEF CodeParts

\* A verification deletes the record, or fails to.
LEMMA CodesDelete ==
  ASSUME CodesInv, NEW v \in Verifiers, DeleteCode(v) \/ DeleteLost(v)
  PROVE  CodeParts'
<1>0. /\ \A u \in Verifiers \ {v} : vpc'[u] = vpc[u] /\ vn'[u] = vn[u] /\ vcode'[u] = vcode[u]
      /\ vpc[v] = "del" /\ vpc'[v] = "idle" /\ vcode'[v] = 0
      /\ UNCHANGED <<now, spc, st, scode, issued, begun, last, lastExp, used, wrong>>
  BY CodeFacts, VerifierStep DEF VerifyStep, DeleteCode, DeleteLost
<1>1. /\ \/ DeleteCode(v) /\ rec' = NoRec
         \/ DeleteLost(v) /\ rec' = rec /\ vcode[v] \in excused'
      /\ excused \subseteq excused'
  BY DEF DeleteCode, DeleteLost
<1>2. v \in Verifying /\ Verifying' \subseteq Verifying \ {v}
  BY <1>0 DEF Verifying
<1>3. ASSUME NEW w \in Verifying, w # v
      PROVE  vcode'[w] \in excused'
  <2>1. w \in Verifiers /\ vcode[w] \in excused
    BY <1>2, <1>3 DEF CodesInv, MeetInv, Verifying
  <2> QED
    BY <1>0, <1>1, <1>3, <2>1
<1>4. rec'.h # 0 => rec'.h = rec.h /\ rec'.h \in excused'
  BY <1>1, <1>2 DEF CodesInv, MeetInv, NoRec
<1>5. FreshInv'
  <2>1. rec'.h <= issued /\ (rec'.h = rec.h \/ rec'.h = 0)
    BY <1>1, CodeFacts DEF NoRec
  <2>2. \A u \in Verifiers : vcode'[u] <= issued
    BY <1>0, CodeFacts
  <2>3. \A s \in Senders : spc[s] = "hset" => /\ scode[s] \in 1..issued /\ scode[s] # rec'.h
                                              /\ \A u \in Verifiers : vcode'[u] # scode[s]
    BY <1>0, <2>1 DEF CodesInv, FreshInv, Stored
  <2> QED
    BY <1>0, <2>1, <2>2, <2>3 DEF CodesInv, FreshInv, Stored
<1>6. HashInv'
  BY <1>0, <1>1 DEF CodesInv, HashInv, NoRec
<1>7. MeetInv'
  BY <1>2, <1>3, <1>4, <1>0 DEF MeetInv
<1>8. AttemptInv'
  BY <1>4 DEF AttemptInv
<1>9. LastInv'
  <2>1. rec' # rec /\ rec.h = last /\ last # 0 /\ last \notin excused =>
          last \in used \/ wrong[last] >= MaxAttempts \/ now > lastExp
    BY <1>0, <1>2 DEF CodesInv, MeetInv
  <2>2. CASE rec' = rec
    BY <1>0, <1>1, <2>2 DEF CodesInv, LastInv
  <2>3. CASE rec' # rec
    BY <1>0, <1>1, <2>1, <2>3, CodeFacts DEF CodesInv, LastInv
  <2> QED
    BY <2>2, <2>3
<1> QED
  BY <1>5, <1>6, <1>7, <1>8, <1>9 DEF CodeParts

LEMMA CodesInvKept == ASSUME CodesInv, [Next]_vars PROVE CodesInv'
<1>1. RedisTypes' /\ BegunInv'
  BY RedisTypesKept, BegunKept DEF CodesInv
<1>2. ASSUME UNCHANGED vars PROVE CodeParts'
  BY <1>2 DEF vars, sendVars, verifyVars, codeVars, CodesInv, CodeParts, FreshInv, HashInv, MeetInv, AttemptInv,
     LastInv, Stored, Verifying
<1>3. ASSUME NEW v \in Verifiers, VerifyStep(v) PROVE CodeParts'
  <2>1. VerifyAbsent(v) => UNCHANGED vars
    BY DEF VerifyAbsent
  <2> QED
    BY <1>2, <1>3, <2>1, CodesRead, CodesCount, CodesDelete DEF VerifyStep
<1>4. CodeParts'
  BY <1>2, <1>3, CodesTick, CodesQuiet, CodesHash, CodesExpire DEF Next
<1> QED
  BY <1>1, <1>4 DEF CodesInv, CodeParts

LEMMA CodesInvInit == ASSUME Init PROVE CodesInv
<1>1. RedisTypes
  BY EmailConstants DEF Init, RedisTypes, RecordTypes, RequestTypes, NoKey, NoRec
<1>2. BegunInv
  <2>1. Early = {}
    BY DEF Init, Early
  <2>2. Cardinality(Early) = 0
    BY <2>1, FS_EmptySet
  <2> QED
    BY <2>2, EmailConstants DEF Init, BegunInv
<1>3. FreshInv /\ HashInv /\ AttemptInv
  BY DEF Init, FreshInv, HashInv, AttemptInv, Stored, NoRec
<1>4. MeetInv
  BY DEF Init, MeetInv, Verifying
<1>5. LastInv
  BY EmailConstants, LifetimeBounds DEF Init, LastInv
<1> QED
  BY <1>1, <1>2, <1>3, <1>4, <1>5 DEF CodesInv

LEMMA CodesInvImplies == ASSUME CodesInv PROVE SpentCodeGone /\ LatestCodeUsable
<1>1. SpentCodeGone
  <2> SUFFICES ASSUME NEW c \in Codes \ excused, c \in used \/ wrong[c] >= MaxAttempts, rec.h = c
               PROVE  \E v \in Verifying : vcode[v] = c
    BY DEF SpentCodeGone
  <2>1. c # 0 /\ c \in Nat
    BY EmailConstants DEF Codes
  <2>2. Verifying # {}
    BY <2>1, CodeFacts DEF CodesInv, AttemptInv
  <2> QED
    BY <2>1, <2>2 DEF CodesInv, MeetInv
<1>2. LatestCodeUsable
  <2>1. rec.h = last /\ last # 0 /\ last \notin excused => rec # NoRec /\ rec.n <= wrong[last]
    BY DEF CodesInv, AttemptInv, NoRec
  <2> QED
    BY <2>1 DEF CodesInv, LastInv, LatestCodeUsable
<1> QED
  BY <1>1, <1>2

----------------------------------------------------------------------------
(* In memory                                                               *)

MemoryTypes ==
    /\ now \in 1..MaxTime
    /\ entry \in [hash : Nat, expiresAt : Nat, attempts : Nat, coolUntil : Nat, dailyDay : Nat, dailyCount : Nat]
    /\ spc \in [Senders -> {"idle", "send", "commit"}]
    /\ st \in [Senders -> Nat] /\ scode \in [Senders -> Nat]
    /\ \A s \in Senders : st[s] <= now
    /\ issued \in 0..MaxSends /\ mails \in [Days -> Nat]
    /\ lastMail \in Int /\ last \in Nat /\ wrong \in [Codes -> Nat]

\* The one counter covers the mails and slots of its day; days after it are unused.
MemoryDayInv ==
    /\ entry.dailyDay <= Day(now) /\ entry.dailyCount <= DailyLimit
    /\ \A d \in Days \ strayed :
          /\ mails[d] + Cardinality(Mailing(d)) <= DailyLimit
          /\ d = entry.dailyDay => mails[d] + Cardinality(Mailing(d)) <= entry.dailyCount
          /\ d > entry.dailyDay => mails[d] = 0 /\ Mailing(d) = {}

MemoryCoolInv ==
    /\ lastMail # -1 => entry.coolUntil = lastMail + Cooldown
    /\ Memory!CooldownKept

MemorySendsInv == MemoryTypes /\ MemoryDayInv /\ OverlapInv /\ MemoryCoolInv

MemoryFreshInv ==
    /\ entry.hash <= issued /\ last <= issued
    /\ used \subseteq 1..issued
    /\ \A c \in Codes : c > issued => wrong[c] = 0
    /\ \A s \in Senders : spc[s] = "commit" =>
          /\ scode[s] \in 1..issued /\ scode[s] \notin used /\ wrong[scode[s]] = 0
          /\ scode[s] # entry.hash
    /\ \A s, t \in Senders : s # t /\ spc[s] = "commit" /\ spc[t] = "commit" => scode[s] # scode[t]

MemoryAttemptInv ==
    entry.hash # 0 => /\ entry.hash \notin used
                      /\ entry.attempts = wrong[entry.hash] /\ entry.attempts < MaxAttempts

MemoryCodesInv == MemoryTypes /\ MemoryFreshInv /\ MemoryAttemptInv /\ Memory!LatestCodeUsable

MemorySender(s) ==
    Memory!Precheck(s) \/ Memory!PrecheckRefuses(s) \/ Memory!SendOk(s) \/ Memory!RollbackPrecheck(s)
    \/ Memory!CommitSend(s)

MemoryVerify == Memory!VerifyAbsent \/ Memory!VerifyExpired \/ Memory!VerifyRight \/ Memory!VerifyWrong

LEMMA MemoryNames ==
  /\ \A t : Memory!Day(t) = Day(t)
  /\ Memory!Days = Days /\ Memory!Codes = Codes /\ Memory!Sending = Sending
  /\ Memory!Next <=> Memory!Tick \/ (\E s \in Senders : MemorySender(s)) \/ MemoryVerify
<1>1. (\A t : Memory!Day(t) = Day(t)) /\ Memory!Days = Days
  BY DEF Memory!Day, Day, Memory!Days, Days
<1>2. Memory!Codes = Codes /\ Memory!Sending = Sending
  BY DEF Memory!Codes, Codes, Memory!Sending, Sending
<1>4. Memory!Next <=> Memory!Tick \/ (\E s \in Senders : MemorySender(s)) \/ MemoryVerify
  BY DEF Memory!Next, MemorySender, MemoryVerify
<1> QED
  BY <1>1, <1>2, <1>4

\* What a sender's operation does to the entry and to the sender.
LEMMA MemoryPrecheck ==
  ASSUME MemoryTypes, NEW s \in Senders, Memory!Precheck(s)
  PROVE  /\ spc[s] = "idle" /\ UNCHANGED <<now, scode, issued, mails, lastMail, last, used, wrong>>
         /\ spc' = [spc EXCEPT ![s] = "send"]
         /\ overlap' = IF Sending = {} THEN overlap ELSE overlap \union Sending \union {s}
         /\ \E t \in Nat : LET n == IF entry.dailyDay = Day(t) THEN entry.dailyCount ELSE 0 IN
               /\ t <= now /\ now <= t + 1 /\ t >= entry.coolUntil
               /\ n < DailyLimit
               /\ entry' = [entry EXCEPT !.dailyDay = Day(t), !.dailyCount = n + 1]
               /\ st' = [st EXCEPT ![s] = t]
               /\ strayed' = IF Day(t) < entry.dailyDay
                             THEN strayed \union {Day(t), entry.dailyDay} ELSE strayed
<1>1. now \in Nat \ {0}
  BY EmailConstants DEF MemoryTypes
<1>2. Memory!Stamps \subseteq Nat /\ \A t \in Memory!Stamps : t <= now /\ now <= t + 1
  BY <1>1 DEF Memory!Stamps
<1> QED
  BY <1>2, MemoryNames DEF Memory!Precheck, Memory!CountOn, Memory!verifyVars

\* A refusal leaves the entry as it was: the limit is reached on its own day only.
LEMMA MemoryRefuses ==
  ASSUME MemoryTypes, NEW s \in Senders, Memory!PrecheckRefuses(s)
  PROVE  UNCHANGED <<entry, now, spc, st, scode, issued, mails, lastMail, overlap, strayed, last, used, wrong>>
<1>1. entry \in [hash : Nat, expiresAt : Nat, attempts : Nat, coolUntil : Nat, dailyDay : Nat, dailyCount : Nat]
  BY DEF MemoryTypes
<1>2. ASSUME NEW t, Memory!CountOn(Memory!Day(t)) >= DailyLimit
      PROVE  entry.dailyDay = Memory!Day(t) /\ entry.dailyCount = Memory!CountOn(Memory!Day(t))
  BY <1>1, <1>2, EmailConstants DEF Memory!CountOn
<1>3. entry' = entry
  <2>1. CASE UNCHANGED entry
    BY <2>1
  <2>2. ASSUME NEW t, Memory!CountOn(Memory!Day(t)) >= DailyLimit,
               entry' = [entry EXCEPT !.dailyDay = Memory!Day(t), !.dailyCount = Memory!CountOn(Memory!Day(t))]
        PROVE  entry' = entry
    <3>1. PICK a, b : a = Memory!Day(t) /\ b = Memory!CountOn(Memory!Day(t))
      OBVIOUS
    <3>2. a = entry.dailyDay /\ b = entry.dailyCount /\ entry' = [entry EXCEPT !.dailyDay = a, !.dailyCount = b]
      BY <1>2, <2>2, <3>1
    <3> QED
      BY <1>1, <3>2
  <2> QED
    BY <2>1, <2>2 DEF Memory!PrecheckRefuses
<1> QED
  BY <1>3 DEF Memory!PrecheckRefuses, Memory!sendVars, Memory!verifyVars

LEMMA MemoryCommit ==
  ASSUME MemoryTypes, NEW s \in Senders, Memory!CommitSend(s)
  PROVE  /\ spc[s] = "commit" /\ UNCHANGED <<now, issued, mails, strayed, used, wrong>>
         /\ EndS(s) /\ last' = scode[s]
         /\ \E t \in Nat :
               /\ t <= now /\ lastMail' = t
               /\ entry' = [entry EXCEPT !.hash = scode[s], !.expiresAt = t + CodeTTL, !.attempts = 0,
                                         !.coolUntil = t + Cooldown]
<1>1. now \in Nat \ {0}
  BY EmailConstants DEF MemoryTypes
<1>2. Memory!Stamps \subseteq Nat /\ \A t \in Memory!Stamps : t <= now
  BY <1>1 DEF Memory!Stamps
<1> QED
  BY <1>2 DEF Memory!CommitSend, Memory!verifyVars, Memory!EndS, EndS

LEMMA MemoryTypesKept == ASSUME MemoryTypes, Memory!Next \/ UNCHANGED <<vars, entry>> PROVE MemoryTypes'
<1> DEFINE Entries == [hash : Nat, expiresAt : Nat, attempts : Nat, coolUntil : Nat, dailyDay : Nat, dailyCount : Nat]
<1>0. /\ now \in 1..MaxTime /\ now \in Nat
      /\ entry \in Entries
      /\ spc \in [Senders -> {"idle", "send", "commit"}]
      /\ st \in [Senders -> Nat] /\ scode \in [Senders -> Nat]
      /\ \A s \in Senders : st[s] <= now
      /\ issued \in 0..MaxSends /\ mails \in [Days -> Nat]
      /\ lastMail \in Int /\ last \in Nat /\ wrong \in [Codes -> Nat]
  BY EmailConstants DEF MemoryTypes
<1>1. CASE Memory!Tick
  BY <1>0, <1>1, EmailConstants DEF Memory!Tick, Memory!sendVars, Memory!verifyVars, MemoryTypes
<1>2. ASSUME NEW s \in Senders, MemorySender(s) PROVE MemoryTypes'
  <2>1. CASE Memory!Precheck(s)
    <3> PICK t \in Nat : LET n == IF entry.dailyDay = Day(t) THEN entry.dailyCount ELSE 0 IN
               /\ t <= now /\ now <= t + 1 /\ t >= entry.coolUntil
               /\ n < DailyLimit
               /\ entry' = [entry EXCEPT !.dailyDay = Day(t), !.dailyCount = n + 1]
               /\ st' = [st EXCEPT ![s] = t]
      BY <2>1, MemoryPrecheck
    <3>1. Day(t) \in Nat
      BY DayBounds
    <3>2. entry' \in Entries
      <4>1. PICK d, m : /\ d = Day(t) /\ m = (IF entry.dailyDay = Day(t) THEN entry.dailyCount ELSE 0) + 1
                        /\ entry' = [entry EXCEPT !.dailyDay = d, !.dailyCount = m]
        OBVIOUS
      <4>2. d \in Nat /\ m \in Nat
        BY <1>0, <3>1, <4>1
      <4> QED
        BY <1>0, <4>1, <4>2
    <3>3. /\ st' \in [Senders -> Nat] /\ \A r \in Senders : st'[r] <= now
          /\ spc' \in [Senders -> {"idle", "send", "commit"}]
      BY <1>0, <2>1, MemoryPrecheck
    <3>4. UNCHANGED <<now, scode, issued, mails, lastMail, last, wrong>>
      BY <2>1, MemoryPrecheck
    <3> QED
      BY <1>0, <3>2, <3>3, <3>4 DEF MemoryTypes
  <2>2. CASE Memory!PrecheckRefuses(s)
    BY <1>0, <2>2, MemoryRefuses DEF MemoryTypes
  <2>3. CASE Memory!SendOk(s)
    <3>1. Day(st[s]) \in Days
      BY <1>0, InDays, EmailConstants
    <3>2. /\ spc' = [spc EXCEPT ![s] = "commit"] /\ scode' = [scode EXCEPT ![s] = issued + 1]
          /\ issued' = issued + 1 /\ issued < MaxSends
          /\ mails' = [mails EXCEPT ![Day(st[s])] = mails[Day(st[s])] + 1]
          /\ UNCHANGED <<now, entry, st, lastMail, last, wrong>>
      BY <2>3, MemoryNames DEF Memory!SendOk, Memory!verifyVars
    <3>3. mails' \in [Days -> Nat]
      BY <1>0, <3>1, <3>2
    <3> QED
      BY <1>0, <3>2, <3>3, EmailConstants DEF MemoryTypes
  <2>4. CASE Memory!RollbackPrecheck(s)
    <3>1. entry' \in Entries
      BY <1>0, <2>4 DEF Memory!RollbackPrecheck
    <3>2. /\ spc' = [spc EXCEPT ![s] = "idle"] /\ st' = [st EXCEPT ![s] = 0]
          /\ scode' = [scode EXCEPT ![s] = 0]
          /\ UNCHANGED <<now, issued, mails, lastMail, last, wrong>>
      BY <2>4 DEF Memory!RollbackPrecheck, Memory!EndS, Memory!verifyVars
    <3> QED
      BY <1>0, <3>1, <3>2 DEF MemoryTypes
  <2>5. CASE Memory!CommitSend(s)
    <3> PICK t \in Nat : /\ t <= now /\ lastMail' = t
               /\ entry' = [entry EXCEPT !.hash = scode[s], !.expiresAt = t + CodeTTL, !.attempts = 0,
                                         !.coolUntil = t + Cooldown]
      BY <2>5, MemoryCommit
    <3>1. t + CodeTTL \in Nat /\ t + Cooldown \in Nat /\ scode[s] \in Nat
      BY <1>0, EmailConstants
    <3>2. entry' \in Entries
      BY <1>0, <3>1
    <3>3. /\ spc' = [spc EXCEPT ![s] = "idle"] /\ st' = [st EXCEPT ![s] = 0]
          /\ scode' = [scode EXCEPT ![s] = 0]
          /\ UNCHANGED <<now, issued, mails, wrong>> /\ last' = scode[s]
      BY <2>5, MemoryCommit DEF EndS
    <3> QED
      BY <1>0, <3>1, <3>2, <3>3 DEF MemoryTypes
  <2> QED
    BY <1>2, <2>1, <2>2, <2>3, <2>4, <2>5 DEF MemorySender
<1>3. CASE MemoryVerify
  <2>1. entry' \in Entries
    <3>1. CASE Memory!VerifyAbsent \/ Memory!VerifyExpired \/ Memory!VerifyRight
      BY <1>0, <3>1 DEF Memory!VerifyAbsent, Memory!VerifyExpired, Memory!VerifyRight, Memory!vars
    <3>2. CASE Memory!VerifyWrong
      <4>1. PICK a, h : /\ a = entry.attempts + 1
                        /\ h = (IF entry.attempts + 1 >= MaxAttempts THEN 0 ELSE entry.hash)
                        /\ entry' = [entry EXCEPT !.attempts = a, !.hash = h]
        BY <3>2 DEF Memory!VerifyWrong
      <4>2. a \in Nat /\ h \in Nat
        BY <1>0, <4>1
      <4> QED
        BY <1>0, <4>1, <4>2
    <3> QED
      BY <1>3, <3>1, <3>2 DEF MemoryVerify
  <2>2. UNCHANGED <<now, spc, st, scode, issued, mails, lastMail, last>>
    BY <1>3 DEF MemoryVerify, Memory!VerifyAbsent, Memory!VerifyExpired, Memory!VerifyRight, Memory!VerifyWrong,
       Memory!vars, Memory!sendVars
  <2>3. wrong' = wrong \/ wrong' = [wrong EXCEPT ![entry.hash] = wrong[entry.hash] + 1]
    BY <1>3 DEF MemoryVerify, Memory!VerifyAbsent, Memory!VerifyExpired, Memory!VerifyRight, Memory!VerifyWrong,
       Memory!vars, Memory!verifyVars
  <2>4. \A c \in Codes : wrong[c] + 1 \in Nat
    BY <1>0
  <2>5. wrong' \in [Codes -> Nat]
    BY <1>0, <2>3, <2>4
  <2> QED
    BY <1>0, <2>1, <2>2, <2>5 DEF MemoryTypes
<1>4. CASE UNCHANGED <<vars, entry>>
  BY <1>0, <1>4 DEF vars, sendVars, verifyVars, codeVars, MemoryTypes
<1> QED
  BY <1>1, <1>2, <1>3, <1>4, MemoryNames

\* The slots in use after a step of one sender.
LEMMA MailingStep ==
  ASSUME NEW s \in Senders, \A r \in Senders \ {s} : spc'[r] = spc[r] /\ st'[r] = st[r], NEW d
  PROVE  LET before == spc[s] = "send" /\ Day(st[s]) = d
             after == spc'[s] = "send" /\ Day(st'[s]) = d
             n == Cardinality(Mailing(d))
         IN /\ n \in Nat /\ (before => n >= 1) /\ (Mailing(d) = {} => n = 0 /\ ~before)
            /\ after /\ ~before => Cardinality(Mailing(d)') = n + 1
            /\ before /\ ~after => Cardinality(Mailing(d)') = n - 1
            /\ (after <=> before) => Mailing(d)' = Mailing(d)
<1> DEFINE before == spc[s] = "send" /\ Day(st[s]) = d
           after == spc'[s] = "send" /\ Day(st'[s]) = d
<1>1. \A r \in Senders : /\ r \in Mailing(d) <=> spc[r] = "send" /\ Day(st[r]) = d
                         /\ r \in Mailing(d)' <=> spc'[r] = "send" /\ Day(st'[r]) = d
  BY DEF Mailing, Day
<1>2. Mailing(d) \subseteq Senders /\ Mailing(d)' \subseteq Senders
  BY DEF Mailing
<1>3. s \in Mailing(d) <=> before
  BY <1>1
<1>4. Mailing(d)' = IF after THEN Mailing(d) \union {s} ELSE Mailing(d) \ {s}
  BY <1>1, <1>2
<1>5. IsFiniteSet(Mailing(d))
  BY FiniteParts
<1>6. /\ Cardinality(Mailing(d)) \in Nat
      /\ Cardinality(Mailing(d) \union {s}) = IF s \in Mailing(d) THEN Cardinality(Mailing(d)) ELSE Cardinality(Mailing(d)) + 1
      /\ Cardinality(Mailing(d) \ {s}) = IF s \in Mailing(d) THEN Cardinality(Mailing(d)) - 1 ELSE Cardinality(Mailing(d))
      /\ s \in Mailing(d) => Cardinality(Mailing(d)) >= 1
  BY <1>5, CountStep
<1>7. Mailing(d) = {} => Cardinality(Mailing(d)) = 0
  BY FS_EmptySet, Zenon
<1> HIDE DEF before, after
<1>8. (after <=> before) => Mailing(d)' = Mailing(d)
  BY <1>3, <1>4
<1>9. /\ after /\ ~before => Cardinality(Mailing(d)') = Cardinality(Mailing(d)) + 1
      /\ before /\ ~after => Cardinality(Mailing(d)') = Cardinality(Mailing(d)) - 1
  BY <1>3, <1>4, <1>6
<1>10. Mailing(d) = {} => ~before
  BY <1>3
<1> QED
  BY <1>3, <1>6, <1>7, <1>8, <1>9, <1>10 DEF before, after

LEMMA MemoryDaySender ==
  ASSUME MemoryTypes, MemoryDayInv, NEW s \in Senders, MemorySender(s)
  PROVE  MemoryDayInv'
<1>0. /\ now \in Nat /\ entry.dailyDay \in Nat /\ entry.dailyCount \in Nat /\ DailyLimit \in Nat \ {0}
      /\ entry \in [hash : Nat, expiresAt : Nat, attempts : Nat, coolUntil : Nat, dailyDay : Nat, dailyCount : Nat]
      /\ spc \in [Senders -> {"idle", "send", "commit"}] /\ st \in [Senders -> Nat]
      /\ mails \in [Days -> Nat] /\ Days \subseteq Nat /\ Day(now) \in Nat
      /\ \A r \in Senders : st[r] <= now
  <2>1. now \in Nat /\ MaxTime \in Nat
    BY EmailConstants DEF MemoryTypes
  <2>2. Day(now) \in Nat /\ Day(MaxTime) \in Nat
    BY <2>1, DayBounds
  <2>3. Days \subseteq Nat
    BY <2>2 DEF Days
  <2> QED
    BY <2>1, <2>2, <2>3, EmailConstants DEF MemoryTypes
<1>1. entry.dailyDay <= Day(now) /\ entry.dailyCount <= DailyLimit
  BY DEF MemoryDayInv
<1>2. ASSUME NEW d \in Days, d \notin strayed
      PROVE  /\ mails[d] + Cardinality(Mailing(d)) <= DailyLimit
             /\ d = entry.dailyDay => mails[d] + Cardinality(Mailing(d)) <= entry.dailyCount
             /\ d > entry.dailyDay => mails[d] = 0 /\ Mailing(d) = {}
  BY <1>2 DEF MemoryDayInv
<1>3. CASE Memory!Precheck(s)
  <2> PICK t \in Nat : LET n == IF entry.dailyDay = Day(t) THEN entry.dailyCount ELSE 0 IN
               /\ t <= now /\ now <= t + 1
               /\ n < DailyLimit
               /\ entry' = [entry EXCEPT !.dailyDay = Day(t), !.dailyCount = n + 1]
               /\ st' = [st EXCEPT ![s] = t]
               /\ strayed' = IF Day(t) < entry.dailyDay
                             THEN strayed \union {Day(t), entry.dailyDay} ELSE strayed
    BY <1>3, MemoryPrecheck
  <2>0. /\ spc[s] = "idle" /\ spc' = [spc EXCEPT ![s] = "send"] /\ mails' = mails /\ now' = now
    BY <1>3, MemoryPrecheck
  <2> DEFINE e == Day(t)
             n == IF entry.dailyDay = e THEN entry.dailyCount ELSE 0
  <2>1. e \in Nat /\ e <= Day(now) /\ Day(now) <= e + 1 /\ Day(now)' = Day(now)
    <3>1. now = t \/ now = t + 1
      BY <1>0
    <3>2. e \in Nat /\ (Day(t + 1) = e \/ Day(t + 1) = e + 1)
      BY DayBounds, DayStep
    <3> QED
      BY <2>0, <3>1, <3>2 DEF Day
  <2>2. /\ n < DailyLimit /\ n \in Nat
        /\ entry'.dailyDay = e /\ entry'.dailyCount = n + 1
        /\ strayed' = IF e < entry.dailyDay THEN strayed \union {e, entry.dailyDay} ELSE strayed
    BY <1>0
  <2>3. /\ \A r \in Senders \ {s} : spc'[r] = spc[r] /\ st'[r] = st[r]
        /\ spc'[s] = "send" /\ st'[s] = t
    BY <1>0, <2>0
  <2> HIDE DEF e, n
  <2>4. ASSUME NEW d \in Days, d \notin strayed'
        PROVE  /\ mails[d] + Cardinality(Mailing(d)') <= DailyLimit
               /\ d = e => mails[d] + Cardinality(Mailing(d)') <= n + 1
               /\ d > e => mails[d] = 0 /\ Mailing(d)' = {}
    <3>1. /\ Cardinality(Mailing(d)) \in Nat /\ (Mailing(d) = {} => Cardinality(Mailing(d)) = 0)
          /\ d = e => Cardinality(Mailing(d)') = Cardinality(Mailing(d)) + 1
          /\ d # e => Mailing(d)' = Mailing(d)
      <4>1. Day(st'[s]) = e
        BY <2>3 DEF e
      <4> QED
        BY <2>0, <2>3, <4>1, MailingStep
    <3>2. d \notin strayed /\ d \in Nat /\ mails[d] \in Nat
      BY <1>0, <2>2, <2>4
    <3>3. CASE e < entry.dailyDay
      <4>1. d # e /\ d # entry.dailyDay /\ (d > e => d > entry.dailyDay)
        BY <1>0, <1>1, <2>1, <2>2, <2>4, <3>2, <3>3
      <4> QED
        BY <1>2, <3>1, <3>2, <4>1
    <3>4. CASE e = entry.dailyDay
      <4>1. n = entry.dailyCount
        BY <3>4 DEF n
      <4> QED
        BY <1>0, <1>2, <2>2, <3>1, <3>2, <3>4, <4>1
    <3>5. CASE e > entry.dailyDay
      <4>1. d >= e => mails[d] = 0 /\ Mailing(d) = {} /\ Cardinality(Mailing(d)) = 0
        BY <1>0, <1>2, <2>1, <3>1, <3>2, <3>5
      <4>2. d = e => mails[d] + Cardinality(Mailing(d)') = 1
        BY <2>1, <3>1, <3>2, <4>1
      <4>3. d > e => mails[d] = 0 /\ Mailing(d)' = {}
        BY <2>1, <3>1, <3>2, <4>1
      <4>4. d # e => mails[d] + Cardinality(Mailing(d)') <= DailyLimit
        BY <1>2, <3>1, <3>2
      <4> QED
        BY <1>0, <2>2, <4>2, <4>3, <4>4
    <3> QED
      BY <1>0, <2>1, <3>3, <3>4, <3>5
  <2> QED
    BY <1>0, <2>0, <2>1, <2>2, <2>4 DEF MemoryDayInv
<1>4. CASE Memory!PrecheckRefuses(s)
  <2>1. UNCHANGED <<entry, now, spc, st, mails, strayed>>
    BY <1>4, MemoryRefuses
  <2>2. \A d : Mailing(d)' = Mailing(d)
    BY <2>1 DEF Mailing, Day
  <2> QED
    BY <2>1, <2>2 DEF MemoryDayInv, Day
<1>5. CASE Memory!SendOk(s)
  <2>0. /\ spc[s] = "send" /\ spc' = [spc EXCEPT ![s] = "commit"] /\ UNCHANGED <<now, entry, st, strayed>>
        /\ mails' = [mails EXCEPT ![Day(st[s])] = mails[Day(st[s])] + 1]
    BY <1>5, MemoryNames DEF Memory!SendOk
  <2>1. (\A r \in Senders \ {s} : spc'[r] = spc[r] /\ st'[r] = st[r]) /\ spc'[s] = "commit"
    BY <1>0, <2>0
  <2>2. ASSUME NEW d \in Days, d \notin strayed
        PROVE  /\ mails'[d] + Cardinality(Mailing(d)') <= DailyLimit
               /\ d = entry.dailyDay => mails'[d] + Cardinality(Mailing(d)') <= entry.dailyCount
               /\ d > entry.dailyDay => mails'[d] = 0 /\ Mailing(d)' = {}
    <3>1. /\ Cardinality(Mailing(d)) \in Nat /\ mails[d] \in Nat
          /\ d = Day(st[s]) => Cardinality(Mailing(d)') = Cardinality(Mailing(d)) - 1 /\ Mailing(d) # {}
          /\ d # Day(st[s]) => Mailing(d)' = Mailing(d)
      BY <1>0, <2>0, <2>1, MailingStep
    <3>2. mails'[d] = IF d = Day(st[s]) THEN mails[d] + 1 ELSE mails[d]
      BY <1>0, <2>0
    <3> QED
      BY <1>0, <1>2, <2>2, <3>1, <3>2
  <2> QED
    BY <1>1, <2>0, <2>2 DEF MemoryDayInv, Day
<1>6. CASE Memory!RollbackPrecheck(s)
  <2>0. /\ spc[s] = "send" /\ spc' = [spc EXCEPT ![s] = "idle"] /\ st' = [st EXCEPT ![s] = 0]
        /\ UNCHANGED <<now, mails>>
        /\ strayed' = IF entry.dailyDay = Day(st[s]) THEN strayed ELSE strayed \union {entry.dailyDay}
        /\ entry' = [entry EXCEPT !.dailyCount = IF entry.dailyCount > 0 THEN entry.dailyCount - 1 ELSE entry.dailyCount]
    BY <1>6, MemoryNames DEF Memory!RollbackPrecheck, Memory!EndS
  <2>1. /\ \A r \in Senders \ {s} : spc'[r] = spc[r] /\ st'[r] = st[r]
        /\ spc'[s] = "idle" /\ entry'.dailyDay = entry.dailyDay
        /\ entry'.dailyCount = IF entry.dailyCount > 0 THEN entry.dailyCount - 1 ELSE entry.dailyCount
    BY <1>0, <2>0
  <2>2. ASSUME NEW d \in Days, d \notin strayed'
        PROVE  /\ mails[d] + Cardinality(Mailing(d)') <= DailyLimit
               /\ d = entry.dailyDay => mails[d] + Cardinality(Mailing(d)') <= entry'.dailyCount
               /\ d > entry.dailyDay => mails[d] = 0 /\ Mailing(d)' = {}
    <3>1. /\ Cardinality(Mailing(d)) \in Nat /\ mails[d] \in Nat
          /\ d = Day(st[s]) => /\ Cardinality(Mailing(d)') = Cardinality(Mailing(d)) - 1 /\ Mailing(d) # {}
                               /\ Cardinality(Mailing(d)) >= 1
          /\ d # Day(st[s]) => Mailing(d)' = Mailing(d)
      BY <1>0, <2>0, <2>1, MailingStep
    <3>2. d \notin strayed /\ (d = entry.dailyDay => d = Day(st[s]))
      BY <2>0, <2>2
    <3> QED
      BY <1>0, <1>2, <2>1, <3>1, <3>2
  <2> QED
    BY <1>0, <1>1, <2>0, <2>1, <2>2 DEF MemoryDayInv, Day
<1>7. CASE Memory!CommitSend(s)
  <2>0. /\ spc[s] = "commit" /\ spc' = [spc EXCEPT ![s] = "idle"] /\ st' = [st EXCEPT ![s] = 0]
        /\ UNCHANGED <<now, mails, strayed>>
    BY <1>7, MemoryCommit DEF EndS
  <2>1. entry'.dailyDay = entry.dailyDay /\ entry'.dailyCount = entry.dailyCount
    BY <1>0, <1>7, MemoryCommit
  <2>2. (\A r \in Senders \ {s} : spc'[r] = spc[r] /\ st'[r] = st[r]) /\ spc'[s] = "idle"
    BY <1>0, <2>0
  <2>3. \A d : Mailing(d)' = Mailing(d)
    BY <2>0, <2>2, MailingStep
  <2> QED
    BY <2>0, <2>1, <2>3 DEF MemoryDayInv, Day
<1> QED
  BY <1>3, <1>4, <1>5, <1>6, <1>7 DEF MemorySender

LEMMA MemoryCoolSender ==
  ASSUME MemoryTypes, OverlapInv, MemoryCoolInv, NEW s \in Senders, MemorySender(s)
  PROVE  OverlapInv' /\ MemoryCoolInv'
<1>0. /\ now \in Nat /\ entry.coolUntil \in Nat /\ Cooldown \in Nat \ {0} /\ lastMail \in Int
      /\ entry \in [hash : Nat, expiresAt : Nat, attempts : Nat, coolUntil : Nat, dailyDay : Nat, dailyCount : Nat]
      /\ spc \in [Senders -> {"idle", "send", "commit"}] /\ st \in [Senders -> Nat]
  BY EmailConstants DEF MemoryTypes
<1>1. CASE Memory!Precheck(s)
  <2> PICK t \in Nat : /\ t <= now /\ t >= entry.coolUntil /\ st' = [st EXCEPT ![s] = t]
                       /\ \E d, m : entry' = [entry EXCEPT !.dailyDay = d, !.dailyCount = m]
    BY <1>1, MemoryPrecheck
  <2>1. /\ spc[s] = "idle" /\ spc' = [spc EXCEPT ![s] = "send"] /\ lastMail' = lastMail
        /\ overlap' = IF Sending = {} THEN overlap ELSE overlap \union Sending \union {s}
    BY <1>1, MemoryPrecheck
  <2>2. /\ \A r \in Senders \ {s} : spc'[r] = spc[r] /\ st'[r] = st[r]
        /\ spc'[s] = "send" /\ st'[s] = t /\ entry'.coolUntil = entry.coolUntil
    BY <1>0, <2>1
  <2>3. (\A r \in Senders \ {s} : spc[r] # "idle" => s \in overlap' /\ r \in overlap') /\ overlap \subseteq overlap'
    BY <2>1 DEF Sending
  <2>4. OverlapInv'
    BY <2>2, <2>3 DEF OverlapInv
  <2>5. lastMail # -1 => t - lastMail >= Cooldown
    BY <1>0 DEF MemoryCoolInv
  <2> QED
    BY <2>1, <2>2, <2>3, <2>4, <2>5 DEF MemoryCoolInv, Memory!CooldownKept
<1>2. CASE Memory!CommitSend(s)
  <2> PICK t \in Nat : /\ lastMail' = t
               /\ entry' = [entry EXCEPT !.hash = scode[s], !.expiresAt = t + CodeTTL, !.attempts = 0,
                                         !.coolUntil = t + Cooldown]
    BY <1>2, MemoryCommit
  <2>1. /\ spc[s] = "commit" /\ spc' = [spc EXCEPT ![s] = "idle"] /\ overlap' = overlap \ {s}
    BY <1>2, MemoryCommit DEF EndS
  <2>2. (\A r \in Senders \ {s} : spc'[r] = spc[r]) /\ spc'[s] = "idle" /\ entry'.coolUntil = t + Cooldown
    BY <1>0, <2>1
  <2>3. OverlapInv' /\ \A r \in Senders : spc'[r] # "idle" => r \in overlap'
    BY <2>1, <2>2 DEF OverlapInv
  <2> QED
    BY <2>2, <2>3 DEF MemoryCoolInv, Memory!CooldownKept
<1>3. CASE Memory!PrecheckRefuses(s)
  BY <1>3, MemoryRefuses DEF OverlapInv, MemoryCoolInv, Memory!CooldownKept
<1>4. CASE Memory!SendOk(s) \/ Memory!RollbackPrecheck(s)
  <2>1. /\ lastMail' = lastMail /\ entry'.coolUntil = entry.coolUntil /\ spc[s] = "send"
    BY <1>0, <1>4 DEF Memory!SendOk, Memory!RollbackPrecheck
  <2>2. /\ \A r \in Senders \ {s} : spc'[r] = spc[r] /\ st'[r] = st[r]
        /\ \/ spc'[s] = "commit" /\ overlap' = overlap
           \/ spc'[s] = "idle" /\ overlap' = overlap \ {s}
    BY <1>0, <1>4 DEF Memory!SendOk, Memory!RollbackPrecheck, Memory!EndS
  <2> QED
    BY <2>1, <2>2 DEF OverlapInv, MemoryCoolInv, Memory!CooldownKept
<1> QED
  BY <1>1, <1>2, <1>3, <1>4 DEF MemorySender

\* A verification or the clock touches neither the counter nor the cooldown.
LEMMA MemorySendsInvKept ==
  ASSUME MemorySendsInv, Memory!Next \/ UNCHANGED <<vars, entry>> PROVE MemorySendsInv'
<1>1. MemoryTypes'
  BY MemoryTypesKept DEF MemorySendsInv
<1>2. ASSUME Memory!Tick \/ MemoryVerify \/ UNCHANGED <<vars, entry>>
      PROVE  MemoryDayInv' /\ OverlapInv' /\ MemoryCoolInv'
  <2>0. entry \in [hash : Nat, expiresAt : Nat, attempts : Nat, coolUntil : Nat, dailyDay : Nat, dailyCount : Nat]
    BY DEF MemorySendsInv, MemoryTypes
  <2>1. UNCHANGED <<spc, st, mails, strayed, overlap, lastMail>> /\ (now' = now \/ now' = now + 1)
    BY <1>2 DEF MemoryVerify, Memory!VerifyAbsent, Memory!VerifyExpired, Memory!VerifyRight, Memory!VerifyWrong,
       Memory!Tick, Memory!vars, Memory!sendVars, vars, sendVars
  <2>2. UNCHANGED <<entry.dailyDay, entry.dailyCount, entry.coolUntil>>
    <3>1. CASE Memory!VerifyWrong
      BY <2>0, <3>1 DEF Memory!VerifyWrong
    <3>2. CASE Memory!VerifyExpired \/ Memory!VerifyRight
      BY <2>0, <3>2 DEF Memory!VerifyExpired, Memory!VerifyRight
    <3>3. CASE Memory!Tick \/ Memory!VerifyAbsent \/ UNCHANGED <<vars, entry>>
      BY <3>3 DEF Memory!Tick, Memory!VerifyAbsent, Memory!vars
    <3> QED
      BY <1>2, <3>1, <3>2, <3>3 DEF MemoryVerify
  <2>3. \A d : Mailing(d)' = Mailing(d)
    BY <2>1 DEF Mailing, Day
  <2>4. entry.dailyDay <= Day(now)'
    <3>1. now \in Nat /\ entry.dailyDay \in Nat /\ entry.dailyDay <= Day(now)
      BY <2>0, EmailConstants DEF MemorySendsInv, MemoryTypes, MemoryDayInv
    <3>2. Day(now) \in Nat /\ Day(now + 1) \in Nat /\ Day(now) <= Day(now + 1)
      BY <3>1, DayBounds, DayMonotone
    <3>3. Day(now)' = Day(now) \/ Day(now)' = Day(now + 1)
      BY <2>1 DEF Day
    <3> QED
      BY <3>1, <3>2, <3>3
  <2> QED
    BY <2>1, <2>2, <2>3, <2>4 DEF MemorySendsInv, MemoryDayInv, OverlapInv, MemoryCoolInv, Memory!CooldownKept
<1> QED
  BY <1>1, <1>2, MemoryNames, MemoryDaySender, MemoryCoolSender DEF MemorySendsInv

LEMMA MemorySendsInvInit == ASSUME Memory!Init PROVE MemorySendsInv
<1>1. MemoryTypes
  BY EmailConstants, MemoryNames DEF Memory!Init, MemoryTypes
<1>2. OverlapInv /\ MemoryCoolInv
  BY DEF Memory!Init, OverlapInv, MemoryCoolInv, Memory!CooldownKept
<1>3. \A d : Mailing(d) = {}
  BY DEF Memory!Init, Mailing
<1>4. \A d : Cardinality(Mailing(d)) = 0
  BY <1>3, FS_EmptySet, Zenon
<1>5. \A d \in Days : mails[d] = 0
  BY MemoryNames DEF Memory!Init
<1>6. Day(now) \in Nat /\ entry.dailyDay = 0 /\ entry.dailyCount = 0
  BY DayBounds DEF Memory!Init
<1>7. MemoryDayInv
  BY <1>3, <1>4, <1>5, <1>6, EmailConstants DEF MemoryDayInv
<1> QED
  BY <1>1, <1>2, <1>7 DEF MemorySendsInv

LEMMA MemorySendsInvImplies == ASSUME MemorySendsInv PROVE Memory!DailyCap /\ Memory!CooldownKept
<1>1. Memory!DailyCap
  <2> SUFFICES ASSUME NEW d \in Days, d \notin strayed PROVE mails[d] <= DailyLimit
    BY MemoryNames DEF Memory!DailyCap
  <2>1. mails[d] + Cardinality(Mailing(d)) <= DailyLimit
    BY DEF MemorySendsInv, MemoryDayInv
  <2>2. Cardinality(Mailing(d)) \in Nat /\ mails[d] \in Nat
    BY FiniteParts, FS_CardinalityType DEF MemorySendsInv, MemoryTypes
  <2> QED
    BY <2>1, <2>2, EmailConstants
<1> QED
  BY <1>1 DEF MemorySendsInv, MemoryCoolInv

\* The code that is stored has its own attempts, whatever becomes of older ones.
LEMMA MemoryCodesSender ==
  ASSUME MemoryCodesInv, NEW s \in Senders, MemorySender(s)
  PROVE  MemoryFreshInv' /\ MemoryAttemptInv' /\ Memory!LatestCodeUsable'
<1>0. /\ issued \in Nat /\ issued <= MaxSends /\ MaxSends \in Nat /\ MaxAttempts \in Nat \ {0}
      /\ entry \in [hash : Nat, expiresAt : Nat, attempts : Nat, coolUntil : Nat, dailyDay : Nat, dailyCount : Nat]
      /\ entry.hash \in Nat /\ entry.hash <= issued /\ last \in Nat /\ last <= issued
      /\ spc \in [Senders -> {"idle", "send", "commit"}] /\ scode \in [Senders -> Nat]
      /\ \A c \in Codes : wrong[c] \in Nat /\ (c > issued => wrong[c] = 0)
      /\ used \subseteq 1..issued
  BY EmailConstants DEF MemoryCodesInv, MemoryTypes, MemoryFreshInv
<1>1. ASSUME NEW r \in Senders, spc[r] = "commit"
      PROVE  /\ scode[r] \in 1..issued /\ scode[r] \notin used /\ wrong[scode[r]] = 0 /\ scode[r] # entry.hash
             /\ \A q \in Senders : q # r /\ spc[q] = "commit" => scode[q] # scode[r]
  BY <1>1 DEF MemoryCodesInv, MemoryFreshInv
<1>2. CASE Memory!CommitSend(s)
  <2> DEFINE c == scode[s]
  <2>1. /\ spc[s] = "commit" /\ last' = c /\ UNCHANGED <<now, issued, used, wrong>>
        /\ entry'.hash = c /\ entry'.attempts = 0
    BY <1>0, <1>2, MemoryCommit DEF MemoryCodesInv
  <2>2. (\A r \in Senders \ {s} : spc'[r] = spc[r] /\ scode'[r] = scode[r]) /\ spc'[s] = "idle"
    <3>1. spc' = [spc EXCEPT ![s] = "idle"] /\ scode' = [scode EXCEPT ![s] = 0]
      BY <1>2, MemoryCommit DEF MemoryCodesInv, EndS
    <3> QED
      BY <1>0, <3>1
  <2>3. c \in 1..issued /\ c \notin used /\ wrong[c] = 0
    BY <1>1, <2>1
  <2>4. ASSUME NEW r \in Senders, spc'[r] = "commit"
        PROVE  r # s /\ spc[r] = "commit" /\ scode'[r] = scode[r] /\ scode[r] # c
    BY <1>1, <2>1, <2>2, <2>4
  <2> HIDE DEF c
  <2>5. MemoryFreshInv'
    <3>1. entry'.hash <= issued' /\ last' <= issued'
      BY <1>0, <2>1, <2>3
    <3>2. \A r \in Senders : spc'[r] = "commit" =>
             /\ scode'[r] \in 1..issued' /\ scode'[r] \notin used' /\ wrong'[scode'[r]] = 0
             /\ scode'[r] # entry'.hash
      BY <1>1, <2>1, <2>4
    <3>3. \A r, q \in Senders : r # q /\ spc'[r] = "commit" /\ spc'[q] = "commit" => scode'[r] # scode'[q]
      BY <1>1, <2>4
    <3> QED
      BY <1>0, <2>1, <3>1, <3>2, <3>3 DEF MemoryFreshInv
  <2>6. MemoryAttemptInv' /\ Memory!LatestCodeUsable'
    BY <1>0, <2>1, <2>3 DEF MemoryAttemptInv, Memory!LatestCodeUsable
  <2> QED
    BY <2>5, <2>6
<1>3. CASE Memory!SendOk(s)
  <2>1. /\ spc[s] = "send" /\ issued < MaxSends /\ issued' = issued + 1
        /\ UNCHANGED <<now, entry, last, used, wrong>>
    BY <1>3 DEF Memory!SendOk, Memory!verifyVars
  <2>2. /\ \A r \in Senders \ {s} : spc'[r] = spc[r] /\ scode'[r] = scode[r]
        /\ spc'[s] = "commit" /\ scode'[s] = issued + 1
    BY <1>0, <1>3 DEF Memory!SendOk
  <2>3. issued + 1 \in Codes /\ wrong[issued + 1] = 0 /\ issued + 1 \notin used /\ issued + 1 # entry.hash
    <3>1. issued + 1 \in Codes
      BY <1>0, <2>1 DEF Codes
    <3> QED
      BY <1>0, <3>1
  <2>4. MemoryFreshInv'
    <3>1. /\ entry'.hash <= issued' /\ last' <= issued' /\ used' \subseteq 1..issued'
      BY <1>0, <2>1
    <3>2. \A c \in Codes : c > issued' => wrong'[c] = 0
      BY <1>0, <2>1 DEF Codes
    <3>3. \A r \in Senders : spc'[r] = "commit" =>
             /\ scode'[r] \in 1..issued' /\ scode'[r] \notin used' /\ wrong'[scode'[r]] = 0
             /\ scode'[r] # entry'.hash
      BY <1>0, <1>1, <2>1, <2>2, <2>3
    <3>4. \A r, q \in Senders : r # q /\ spc'[r] = "commit" /\ spc'[q] = "commit" => scode'[r] # scode'[q]
      BY <1>0, <1>1, <2>2
    <3> QED
      BY <3>1, <3>2, <3>3, <3>4 DEF MemoryFreshInv
  <2> QED
    BY <2>1, <2>4 DEF MemoryCodesInv, MemoryAttemptInv, Memory!LatestCodeUsable
<1>4. CASE Memory!Precheck(s) \/ Memory!PrecheckRefuses(s) \/ Memory!RollbackPrecheck(s)
  <2>1. UNCHANGED <<now, issued, last, used, wrong>>
    BY <1>4, MemoryPrecheck, MemoryRefuses DEF MemoryCodesInv, Memory!RollbackPrecheck, Memory!verifyVars
  <2>2. UNCHANGED <<entry.hash, entry.attempts, entry.expiresAt>>
    <3>1. CASE Memory!Precheck(s)
      <4>1. \E d, m : entry' = [entry EXCEPT !.dailyDay = d, !.dailyCount = m]
        BY <3>1, MemoryPrecheck DEF MemoryCodesInv
      <4> QED
        BY <1>0, <4>1
    <3>2. CASE Memory!PrecheckRefuses(s)
      BY <3>2, MemoryRefuses DEF MemoryCodesInv
    <3>3. CASE Memory!RollbackPrecheck(s)
      BY <1>0, <3>3 DEF Memory!RollbackPrecheck
    <3> QED
      BY <1>4, <3>1, <3>2, <3>3
  <2>3. \A r \in Senders : spc'[r] = "commit" => spc[r] = "commit" /\ scode'[r] = scode[r]
    <3>1. CASE Memory!Precheck(s)
      BY <1>0, <3>1, MemoryPrecheck DEF MemoryCodesInv
    <3>2. CASE Memory!PrecheckRefuses(s)
      BY <3>2, MemoryRefuses DEF MemoryCodesInv
    <3>3. CASE Memory!RollbackPrecheck(s)
      BY <1>0, <3>3 DEF Memory!RollbackPrecheck, Memory!EndS
    <3> QED
      BY <1>4, <3>1, <3>2, <3>3
  <2>4. MemoryFreshInv'
    BY <2>1, <2>2, <2>3 DEF MemoryCodesInv, MemoryFreshInv
  <2> QED
    BY <2>1, <2>2, <2>4 DEF MemoryCodesInv, MemoryAttemptInv, Memory!LatestCodeUsable
<1> QED
  BY <1>2, <1>3, <1>4 DEF MemorySender

LEMMA MemoryCodesVerify ==
  ASSUME MemoryCodesInv, Memory!VerifyExpired \/ Memory!VerifyRight \/ Memory!VerifyWrong
  PROVE  MemoryFreshInv' /\ MemoryAttemptInv' /\ Memory!LatestCodeUsable'
<1> DEFINE h == entry.hash
<1>0. /\ issued \in Nat /\ issued <= MaxSends /\ MaxSends \in Nat /\ MaxAttempts \in Nat \ {0}
      /\ entry \in [hash : Nat, expiresAt : Nat, attempts : Nat, coolUntil : Nat, dailyDay : Nat, dailyCount : Nat]
      /\ h \in Nat /\ h <= issued /\ last \in Nat /\ last <= issued /\ now \in Nat
      /\ wrong \in [Codes -> Nat] /\ \A c \in Codes : c > issued => wrong[c] = 0
      /\ used \subseteq 1..issued /\ entry.attempts \in Nat /\ entry.expiresAt \in Nat
  BY EmailConstants DEF MemoryCodesInv, MemoryTypes, MemoryFreshInv
<1>1. /\ UNCHANGED <<now, spc, scode, issued, last>> /\ h # 0
  BY DEF Memory!VerifyExpired, Memory!VerifyRight, Memory!VerifyWrong, Memory!sendVars
<1>2. h \in 1..issued /\ h \in Codes /\ h \notin used /\ entry.attempts = wrong[h] /\ entry.attempts < MaxAttempts
  BY <1>0, <1>1 DEF MemoryCodesInv, MemoryAttemptInv, Codes
<1>3. last # 0 => last \in Codes
  BY <1>0 DEF Codes
<1>4. /\ entry'.expiresAt = entry.expiresAt
      /\ \/ wrong' = wrong /\ used' = used /\ now > entry.expiresAt /\ entry'.hash = 0
         \/ wrong' = wrong /\ used' = used \union {h} /\ entry'.hash = 0
         \/ /\ wrong' = [wrong EXCEPT ![h] = wrong[h] + 1] /\ used' = used
            /\ entry'.attempts = entry.attempts + 1
            /\ entry'.hash = IF entry.attempts + 1 >= MaxAttempts THEN 0 ELSE h
  <2>1. CASE Memory!VerifyExpired
    <3>1. now > entry.expiresAt
      BY <1>0, <2>1 DEF Memory!VerifyExpired, Memory!Stamps
    <3> QED
      BY <1>0, <2>1, <3>1 DEF Memory!VerifyExpired, Memory!verifyVars
  <2>2. CASE Memory!VerifyRight
    BY <1>0, <2>2 DEF Memory!VerifyRight
  <2>3. CASE Memory!VerifyWrong
    BY <1>0, <2>3 DEF Memory!VerifyWrong
  <2> QED
    BY <2>1, <2>2, <2>3
<1> HIDE DEF h
<1>5. /\ used \subseteq used' /\ used' \subseteq used \union {h} /\ (entry'.hash = h \/ entry'.hash = 0)
      /\ \A c \in Codes : wrong'[c] = wrong[c] \/ (c = h /\ wrong'[c] = wrong[c] + 1)
  BY <1>0, <1>2, <1>4
<1>6. MemoryFreshInv'
  <2>1. entry'.hash <= issued /\ used' \subseteq 1..issued
    BY <1>0, <1>2, <1>5
  <2>2. \A c \in Codes : c > issued => wrong'[c] = 0
    BY <1>0, <1>2, <1>5
  <2>3. ASSUME NEW r \in Senders, spc[r] = "commit"
        PROVE  scode[r] \in 1..issued /\ scode[r] \notin used' /\ wrong'[scode[r]] = 0 /\ scode[r] # entry'.hash
    <3>1. /\ scode[r] \in 1..issued /\ scode[r] \notin used /\ wrong[scode[r]] = 0 /\ scode[r] # h
      BY <2>3 DEF MemoryCodesInv, MemoryFreshInv, h
    <3>2. scode[r] \in Codes /\ scode[r] # 0
      BY <1>0, <3>1 DEF Codes
    <3> QED
      BY <1>5, <3>1, <3>2
  <2> QED
    BY <1>0, <1>1, <2>1, <2>2, <2>3 DEF MemoryCodesInv, MemoryFreshInv
<1>7. MemoryAttemptInv'
  BY <1>0, <1>1, <1>2, <1>4 DEF MemoryAttemptInv
<1>8. Memory!LatestCodeUsable'
  <2>1. CASE last = h
    BY <1>0, <1>1, <1>2, <1>4, <2>1 DEF Memory!LatestCodeUsable
  <2>2. CASE last # h
    <3>1. last \in {0} \union used \/ now > entry.expiresAt \/ wrong[last] >= MaxAttempts
      BY <2>2 DEF MemoryCodesInv, Memory!LatestCodeUsable, h
    <3>2. last # 0 => wrong'[last] = wrong[last]
      BY <1>3, <1>5, <2>2
    <3> QED
      BY <1>1, <1>4, <1>5, <3>1, <3>2 DEF Memory!LatestCodeUsable
  <2> QED
    BY <2>1, <2>2
<1> QED
  BY <1>6, <1>7, <1>8

LEMMA MemoryCodesInvKept ==
  ASSUME MemoryCodesInv, Memory!Next \/ UNCHANGED <<vars, entry>> PROVE MemoryCodesInv'
<1>1. MemoryTypes'
  BY MemoryTypesKept DEF MemoryCodesInv
<1>2. ASSUME Memory!Tick \/ Memory!VerifyAbsent \/ UNCHANGED <<vars, entry>>
      PROVE  MemoryFreshInv' /\ MemoryAttemptInv' /\ Memory!LatestCodeUsable'
  <2>1. /\ UNCHANGED <<entry, spc, scode, issued, last, used, wrong>> /\ (now' = now \/ now' = now + 1)
    BY <1>2 DEF Memory!VerifyAbsent, Memory!Tick, Memory!vars, Memory!sendVars, Memory!verifyVars, vars, sendVars,
       verifyVars, codeVars
  <2>2. now > entry.expiresAt => now' > entry'.expiresAt
    BY <2>1, EmailConstants DEF MemoryCodesInv, MemoryTypes
  <2> QED
    BY <2>1, <2>2 DEF MemoryCodesInv, MemoryFreshInv, MemoryAttemptInv, Memory!LatestCodeUsable
<1> QED
  BY <1>1, <1>2, MemoryNames, MemoryCodesSender, MemoryCodesVerify DEF MemoryCodesInv, MemoryVerify

LEMMA MemoryCodesInvInit == ASSUME Memory!Init PROVE MemoryCodesInv
<1>1. MemoryTypes
  BY EmailConstants, MemoryNames DEF Memory!Init, MemoryTypes
<1>2. MemoryFreshInv /\ MemoryAttemptInv /\ Memory!LatestCodeUsable
  BY MemoryNames DEF Memory!Init, MemoryFreshInv, MemoryAttemptInv, Memory!LatestCodeUsable
<1> QED
  BY <1>1, <1>2 DEF MemoryCodesInv

----------------------------------------------------------------------------
(* The properties of the run, of either store                              *)

\* The invariants of the store that runs.
EitherSends ==
    /\ store # "memory" => SendsInv
    /\ store = "memory" => MemorySendsInv

EitherCodes ==
    /\ store # "memory" => CodesInv
    /\ store = "memory" => MemoryCodesInv

\* A step is one of the store that runs.
LEMMA StoreSteps ==
  ASSUME [MCNext]_<<store, vars, entry>>
  PROVE  /\ store' = store
         /\ store # "memory" => [Next]_vars
         /\ store = "memory" => Memory!Next \/ UNCHANGED <<vars, entry>>
<1>1. RedisNext => Next
  BY DEF RedisNext, Next
<1> QED
  BY <1>1 DEF MCNext

\* THEOREM.  Whichever store runs, and however sends interleave, fail, are rolled back
\* or are cancelled: no day sees more than DailyLimit mails unless its counter met
\* a command of another day, and a send that met no other one mails no sooner than
\* the cooldown after the mail before.  On Redis the counter may go in the last second
\* of its day, never sooner, and a day that loses it so sees at most DailyLimit mails
\* more; and the cooldown may be cut short, by less than half a second.
THEOREM SendsStayLimited == MCSpec => []SendsLimited
<1>1. MCInit => EitherSends
  BY SendsInvInit, MemorySendsInvInit DEF MCInit, EitherSends
<1>2. EitherSends /\ [MCNext]_<<store, vars, entry>> => EitherSends'
  BY StoreSteps, SendsInvKept, MemorySendsInvKept DEF EitherSends
<1>3. EitherSends => SendsLimited
  BY SendsInvImplies, MemorySendsInvImplies DEF EitherSends, SendsLimited
<1> QED
  BY <1>1, <1>2, <1>3, PTL DEF MCSpec

\* THEOREM.  A code that was accepted, or guessed at MaxAttempts times, is out of the
\* store: in memory at once, on Redis once the verifications of it have ended, for
\* every code that no two requests met and no failed command touched.
THEOREM SpentCodesAreGone == MCSpec => []SpentGone
<1>1. MCInit => EitherCodes
  BY CodesInvInit, MemoryCodesInvInit DEF MCInit, EitherCodes
<1>2. EitherCodes /\ [MCNext]_<<store, vars, entry>> => EitherCodes'
  BY StoreSteps, CodesInvKept, MemoryCodesInvKept DEF EitherCodes
<1>3. EitherCodes => SpentGone
  BY CodesInvImplies, EmailConstants DEF EitherCodes, SpentGone, MemoryCodesInv, MemoryAttemptInv, Memory!SpentCodeGone
<1> QED
  BY <1>1, <1>2, <1>3, PTL DEF MCSpec

\* THEOREM.  The code of the last mail can be verified until it expires, is accepted
\* or is guessed at too often: no request on behalf of an older code deletes it,
\* spends its attempts or expires it early, with the excuses above.
THEOREM LatestCodeStaysUsable == MCSpec => []LatestUsable
<1>1. MCInit => EitherCodes
  BY CodesInvInit, MemoryCodesInvInit DEF MCInit, EitherCodes
<1>2. EitherCodes /\ [MCNext]_<<store, vars, entry>> => EitherCodes'
  BY StoreSteps, CodesInvKept, MemoryCodesInvKept DEF EitherCodes
<1>3. EitherCodes => LatestUsable
  BY CodesInvImplies DEF EitherCodes, LatestUsable, MemoryCodesInv
<1> QED
  BY <1>1, <1>2, <1>3, PTL DEF MCSpec
=============================================================================
