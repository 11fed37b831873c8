----------------------------- MODULE EmailCode -----------------------------
(***************************************************************************)
(* Verification codes by e-mail: internal/emailcode/store.go on Redis, as  *)
(* registerSendCode and resetSendCode of internal/api/auth_handlers.go     *)
(* send them and RegisterWithCode and ResetPassword of internal/auth check *)
(* them.  One address and one purpose: the keys of two never meet.         *)
(* A code is the number of the mail that carried it.  A request's context  *)
(* may be cancelled before any command, and every command may fail.        *)
(* The clock has ticks finer than the seconds in which EXPIRE, TTL and the *)
(* field exp count.                                                        *)
(***************************************************************************)
EXTENDS Integers, FiniteSets

CONSTANTS
    Senders,      \* send-code requests that may be in flight at once
    Verifiers,    \* verifications that may be in flight at once
    Sec,          \* ticks of the clock in a second
    Cooldown,     \* EmailCodeSendInterval
    CodeTTL,      \* EmailCodeTTL
    DayLen,       \* length of a UTC day
    DailyLimit,   \* EmailCodeDailyLimit
    MaxAttempts,  \* EmailCodeMaxAttempts
    MaxTime,      \* bound: the last moment of the clock
    MaxSends,     \* bound: send-code requests that pass the cooldown
    MaxGuesses    \* bound: wrong guesses at one code

ASSUME EmailAssumption ==
    /\ {Sec, Cooldown, CodeTTL, DayLen, DailyLimit, MaxAttempts} \subseteq Nat \ {0}
    /\ {MaxTime, MaxSends, MaxGuesses} \subseteq Nat \ {0}
    /\ IsFiniteSet(Senders)

VARIABLES
    now,       \* the wall clock, which Redis shares
    cool,      \* moment at which email:cool expires, 0: no such key
    daily,     \* daily[d]: value and expiry of email:daily of day d
    rec,       \* the hash email:code and its expiry
    spc, st, scode,   \* a sender's next command, time.Now() it uses, its code
    vpc, vn, vcode,   \* a verification's next command, the n it writes, the code it read
    begun,     \* send-code requests so far that passed the cooldown
    issued,    \* history: mails sent
    mails,     \* history: mails[d], sent on a slot reserved for day d
    lastMail,  \* history: when the last mail went whose cooldown was started, -1: none
    overlap,   \* history: senders in flight together with another sender
    strayed,   \* history: days whose counter met a command of another day, or a DECR
               \* after it had lapsed
    lapsed,    \* history: days whose counter expired before their end
    last,      \* history: the code stored last, 0: none
    lastExp,   \* history: when that code expires
    used,      \* history: codes accepted
    wrong,     \* history: wrong[c], wrong guesses at code c
    excused    \* history: codes met by two requests at once or by a failed command

sendVars == <<cool, daily, spc, st, scode, begun, issued, mails, lastMail, overlap, strayed, lapsed>>
verifyVars == <<vpc, vn, vcode, used, wrong>>
codeVars == <<rec, last, lastExp, excused>>
vars == <<now, sendVars, verifyVars, codeVars>>

Day(t) == t \div DayLen
EndOfDay(t) == (Day(t) + 1) * DayLen
Days == 0..Day(MaxTime)
Codes == 1..MaxSends

\* time.Unix.
Unix(t) == t \div Sec

\* go-redis sends EXPIRE whole seconds: a duration is cut, and less than a second is one.
Whole(d) == IF d < Sec THEN Sec ELSE Unix(d) * Sec

\* Redis answers TTL in seconds, to the nearest.
Rounded(d) == (2 * d + Sec) \div (2 * Sec)

\* How long a code can be verified: the key may go before its exp.
Lifetime == IF CodeTTL < Sec THEN CodeTTL ELSE Whole(CodeTTL)

\* An expiry beyond the clock: the key has no TTL.
Never == MaxTime + 1
NoKey == [n |-> 0, ttl |-> 0]
NoRec == [h |-> 0, exp |-> 0, n |-> 0, ttl |-> 0]

Init ==
    /\ now \in Sec..MaxTime    \* the epoch is past
    /\ cool = 0 /\ daily = [d \in Days |-> NoKey] /\ rec = NoRec
    /\ spc = [s \in Senders |-> "idle"] /\ st = [s \in Senders |-> 0]
    /\ scode = [s \in Senders |-> 0]
    /\ vpc = [v \in Verifiers |-> "idle"] /\ vn = [v \in Verifiers |-> 0]
    /\ vcode = [v \in Verifiers |-> 0]
    /\ begun = 0 /\ issued = 0 /\ mails = [d \in Days |-> 0] /\ lastMail = -1
    /\ overlap = {} /\ strayed = {} /\ lapsed = {} /\ last = 0 /\ lastExp = 0
    /\ used = {} /\ wrong = [c \in Codes |-> 0] /\ excused = {}

Sending == {s \in Senders : spc[s] # "idle"}
Verifying == {v \in Verifiers : vpc[v] # "idle"}

GotoS(s, label) == spc' = [spc EXCEPT ![s] = label]

\* The request ends; what it held is of no further use.
EndS(s) ==
    /\ spc' = [spc EXCEPT ![s] = "idle"] /\ st' = [st EXCEPT ![s] = 0]
    /\ scode' = [scode EXCEPT ![s] = 0]
    /\ overlap' = overlap \ {s}

----------------------------------------------------------------------------
(* Sending a code                                                          *)

\* precheckSendRedis, first half: TTL of the cooldown key at time.Now().
Precheck(s) ==
    /\ spc[s] = "idle" /\ begun < MaxSends
    /\ now >= cool \/ Rounded(cool - now) = 0
    /\ begun' = begun + 1
    /\ st' = [st EXCEPT ![s] = now]
    /\ overlap' = IF Sending = {} THEN overlap ELSE overlap \union Sending \union {s}
    /\ GotoS(s, "reserve")
    /\ UNCHANGED <<now, cool, daily, scode, issued, mails, lastMail, strayed, lapsed,
                   verifyVars, codeVars>>

\* The CooldownError answer.
Cooling(s) ==
    /\ spc[s] = "idle"
    /\ now < cool /\ Rounded(cool - now) > 0
    /\ UNCHANGED vars

\* Slip: the limit is compared with the value before the increment.
ReserveLate(s) ==
    /\ spc[s] = "reserve"
    /\ LET d == Day(st[s]) n == daily[d].n + 1 IN
        /\ daily' = [daily EXCEPT ![d] = [n |-> n, ttl |-> now + Whole(EndOfDay(st[s]) - st[s])]]
        /\ GotoS(s, IF n > DailyLimit + 1 THEN "undo" ELSE "send")
        /\ strayed' = IF d = Day(now) THEN strayed ELSE strayed \union {d}
    /\ UNCHANGED <<now, cool, st, scode, begun, issued, mails, lastMail, overlap, lapsed,
                   verifyVars, codeVars>>
\* precheckSendRedis, second half: MULTI INCR EXPIRE EXEC on the counter of the
\* day the request began on, and the test against dailyLimit.
Reserve(s) ==
    /\ spc[s] = "reserve"
    /\ LET d == Day(st[s]) n == daily[d].n + 1 IN
        /\ daily' = [daily EXCEPT ![d] = [n |-> n, ttl |-> now + Whole(EndOfDay(st[s]) - st[s])]]
        /\ GotoS(s, IF n > DailyLimit THEN "undo" ELSE "send")
        /\ strayed' = IF d = Day(now) THEN strayed ELSE strayed \union {d}
    /\ UNCHANGED <<now, cool, st, scode, begun, issued, mails, lastMail, overlap, lapsed,
                   verifyVars, codeVars>>

\* DECR keeps the TTL of a key and creates an absent one without a TTL.
Decr(d) ==
    daily' = [daily EXCEPT ![d] = [n |-> @.n - 1, ttl |-> IF @.ttl = 0 THEN Never ELSE @.ttl]]

\* Over the limit: the slot is given back and ErrDailyLimit answered.
Undo(s) ==
    /\ spc[s] = "undo"
    /\ Decr(Day(st[s]))
    /\ strayed' = strayed \union (lapsed \intersect {Day(st[s])})
    /\ EndS(s)
    /\ UNCHANGED <<now, cool, begun, issued, mails, lastMail, lapsed, verifyVars, codeVars>>

\* SendVerificationCode succeeds; CommitSend is called with time.Now().
SendOk(s) ==
    /\ spc[s] = "send"
    /\ issued' = issued + 1
    /\ mails' = [mails EXCEPT ![Day(st[s])] = @ + 1]
    /\ scode' = [scode EXCEPT ![s] = issued + 1]
    /\ st' = [st EXCEPT ![s] = now]
    /\ GotoS(s, "hset")
    /\ UNCHANGED <<now, cool, daily, begun, lastMail, overlap, strayed, lapsed, verifyVars,
                   codeVars>>

\* No such user, no code generated, or the mail is refused.
SendFails(s) ==
    /\ spc[s] = "send"
    /\ GotoS(s, "rollback")
    /\ UNCHANGED <<now, cool, daily, st, scode, begun, issued, mails, lastMail, overlap, strayed,
                   lapsed, verifyVars, codeVars>>

\* RollbackPrecheck: DECR on the counter of the day it is now.
RollbackPrecheck(s) ==
    /\ spc[s] = "rollback"
    /\ Decr(Day(now))
    /\ strayed' = IF Day(st[s]) = Day(now) /\ Day(now) \notin lapsed THEN strayed
                  ELSE strayed \union {Day(now)}
    /\ EndS(s)
    /\ UNCHANGED <<now, cool, begun, issued, mails, lastMail, lapsed, verifyVars, codeVars>>

\* commitSendRedis: HSET h exp n; the key keeps the TTL of the code before it.
CommitHash(s) ==
    /\ spc[s] = "hset"
    /\ rec' = [h |-> scode[s], exp |-> Unix(st[s] + CodeTTL), n |-> 0,
               ttl |-> IF rec.ttl = 0 THEN Never ELSE rec.ttl]
    /\ last' = scode[s] /\ lastExp' = st[s] + Lifetime
    /\ excused' = IF Verifying = {} THEN excused ELSE excused \union {scode[s]}
    /\ GotoS(s, "expire")
    /\ UNCHANGED <<now, cool, daily, st, scode, begun, issued, mails, lastMail, overlap, strayed,
                   lapsed, verifyVars>>

\* commitSendRedis: EXPIRE, of whatever record the key holds by now.
CommitExpire(s) ==
    /\ spc[s] = "expire"
    /\ rec' = IF rec = NoRec THEN NoRec ELSE [rec EXCEPT !.ttl = now + Whole(CodeTTL)]
    /\ excused' = IF rec.h = scode[s] THEN excused ELSE excused \union {scode[s]}
    /\ GotoS(s, "cool")
    /\ UNCHANGED <<now, cool, daily, st, scode, begun, issued, mails, lastMail, overlap, strayed,
                   lapsed, verifyVars, last, lastExp>>

\* commitSendRedis: SET of the cooldown key.
CommitCool(s) ==
    /\ spc[s] = "cool"
    /\ cool' = now + Cooldown
    /\ lastMail' = st[s]
    /\ EndS(s)
    /\ UNCHANGED <<now, daily, begun, issued, mails, strayed, lapsed, verifyVars, codeVars>>

\* A command fails or the client hangs up: what is left is not done.
AbandonSend(s) ==
    /\ spc[s] # "idle"
    /\ excused' = IF spc[s] = "expire" THEN excused \union {scode[s]} ELSE excused
    /\ EndS(s)
    /\ UNCHANGED <<now, cool, daily, begun, issued, mails, lastMail, strayed, lapsed, verifyVars,
                   rec, last, lastExp>>

----------------------------------------------------------------------------
(* Verifying a code                                                        *)

Ahead(v, label) == vpc' = [vpc EXCEPT ![v] = label]

\* Codes the verifications in flight have read, when this one reads too.
Meets(c) == IF Verifying = {} THEN {} ELSE {c} \union {vcode[v] : v \in Verifying}

\* verifyRedis: HGETALL of an absent key, ErrInvalidCode.
VerifyAbsent(v) ==
    /\ vpc[v] = "idle"
    /\ rec = NoRec
    /\ UNCHANGED vars

\* HGETALL of a record past its exp, or one that a late HSET of n left behind.
VerifyExpired(v) ==
    /\ vpc[v] = "idle"
    /\ rec # NoRec /\ Unix(now) > rec.exp
    /\ Ahead(v, "del") /\ vcode' = [vcode EXCEPT ![v] = rec.h]
    /\ excused' = excused \union Meets(rec.h)
    /\ UNCHANGED <<now, sendVars, vn, used, wrong, rec, last, lastExp>>

\* HGETALL and a guess that matches the hash.
VerifyRight(v) ==
    /\ vpc[v] = "idle"
    /\ rec # NoRec /\ Unix(now) <= rec.exp
    /\ used' = used \union {rec.h}
    /\ Ahead(v, "del") /\ vcode' = [vcode EXCEPT ![v] = rec.h]
    /\ excused' = excused \union Meets(rec.h)
    /\ UNCHANGED <<now, sendVars, vn, wrong, rec, last, lastExp>>

\* Slip: the counter is written back as it was read.
VerifyWrongKeepsN(v) ==
    /\ vpc[v] = "idle"
    /\ rec # NoRec /\ Unix(now) <= rec.exp /\ wrong[rec.h] < MaxGuesses
    /\ wrong' = [wrong EXCEPT ![rec.h] = @ + 1]
    /\ vn' = [vn EXCEPT ![v] = rec.n]
    /\ Ahead(v, "hset") /\ vcode' = [vcode EXCEPT ![v] = rec.h]
    /\ excused' = excused \union Meets(rec.h)
    /\ UNCHANGED <<now, sendVars, used, rec, last, lastExp>>
\* HGETALL and a guess that does not match.
VerifyWrong(v) ==
    /\ vpc[v] = "idle"
    /\ rec # NoRec /\ Unix(now) <= rec.exp /\ wrong[rec.h] < MaxGuesses
    /\ wrong' = [wrong EXCEPT ![rec.h] = @ + 1]
    /\ vn' = [vn EXCEPT ![v] = rec.n + 1]
    /\ Ahead(v, "hset") /\ vcode' = [vcode EXCEPT ![v] = rec.h]
    /\ excused' = excused \union Meets(rec.h)
    /\ UNCHANGED <<now, sendVars, used, rec, last, lastExp>>

\* After the attempt is counted: the record goes when the attempts are used up.
AfterCount(v) ==
    IF vn[v] >= MaxAttempts
    THEN Ahead(v, "del") /\ UNCHANGED <<vn, vcode>>
    ELSE Ahead(v, "idle") /\ vn' = [vn EXCEPT ![v] = 0] /\ vcode' = [vcode EXCEPT ![v] = 0]

\* HSET n: on an absent key it leaves a record without a hash, an exp or a TTL.
CountAttempt(v) ==
    /\ vpc[v] = "hset"
    /\ rec' = IF rec = NoRec THEN [NoRec EXCEPT !.n = vn[v], !.ttl = Never]
              ELSE [rec EXCEPT !.n = vn[v]]
    /\ AfterCount(v)
    /\ UNCHANGED <<now, sendVars, used, wrong, last, lastExp, excused>>

\* HSET n fails, an error that verifyRedis ignores.
CountLost(v) ==
    /\ vpc[v] = "hset"
    /\ excused' = excused \union {vcode[v]}
    /\ AfterCount(v)
    /\ UNCHANGED <<now, sendVars, used, wrong, rec, last, lastExp>>

EndV(v) ==
    /\ Ahead(v, "idle")
    /\ vn' = [vn EXCEPT ![v] = 0] /\ vcode' = [vcode EXCEPT ![v] = 0]

\* DEL of the key: the code is used, expired or guessed at too often.
DeleteCode(v) ==
    /\ vpc[v] = "del"
    /\ rec' = NoRec
    /\ EndV(v)
    /\ UNCHANGED <<now, sendVars, used, wrong, last, lastExp, excused>>

\* DEL fails, an error that verifyRedis ignores.
DeleteLost(v) ==
    /\ vpc[v] = "del"
    /\ excused' = excused \union {vcode[v]}
    /\ EndV(v)
    /\ UNCHANGED <<now, sendVars, used, wrong, rec, last, lastExp>>

----------------------------------------------------------------------------
\* The clock advances to t and Redis drops what has expired.
Tick(t) ==
    /\ now' = t
    /\ cool' = IF t >= cool THEN 0 ELSE cool
    /\ daily' = [d \in Days |-> IF t >= daily[d].ttl THEN NoKey ELSE daily[d]]
    /\ lapsed' = lapsed \union {d \in Days : d = Day(t) /\ daily[d].ttl \in 1..t}
    /\ rec' = IF t >= rec.ttl THEN NoRec ELSE rec
    /\ UNCHANGED <<spc, st, scode, begun, issued, mails, lastMail, overlap, strayed,
                   verifyVars, last, lastExp, excused>>

SendStep(s) ==
    \/ Precheck(s) \/ Cooling(s) \/ Reserve(s) \/ Undo(s)
    \/ SendOk(s) \/ SendFails(s) \/ RollbackPrecheck(s)
    \/ CommitHash(s) \/ CommitExpire(s) \/ CommitCool(s) \/ AbandonSend(s)

VerifyStep(v) ==
    \/ VerifyAbsent(v) \/ VerifyExpired(v) \/ VerifyRight(v) \/ VerifyWrong(v)
    \/ CountAttempt(v) \/ CountLost(v) \/ DeleteCode(v) \/ DeleteLost(v)

Next ==
    \/ \E t \in (now + 1)..MaxTime : Tick(t)
    \/ \E s \in Senders : SendStep(s)
    \/ \E v \in Verifiers : VerifyStep(v)

Spec == Init /\ [][Next]_vars

----------------------------------------------------------------------------
(* Properties                                                              *)

\* The counter of a day admits dailyLimit mails however the requests interleave,
\* fail or are cancelled.  It does not where a command met the counter on another
\* day: a rollback after midnight takes a slot off the new day's counter, and an
\* increment after midnight meets a counter that has expired.  The counter may expire
\* within the last second of its day, never sooner: that second admits dailyLimit
\* mails more, and a slot given back then meets a counter that does not have it.
DailyCap ==
    /\ \A d \in Days \ strayed :
          mails[d] <= IF d \in lapsed THEN 2 * DailyLimit ELSE DailyLimit
    /\ \A d \in lapsed : now > (d + 1) * DayLen - Sec

\* A send that met no other one is never about to mail as much as half a second
\* sooner than EmailCodeSendInterval after a mail whose send completed: TTL rounds the
\* last half second away.  Sends in flight together all pass the TTL test, for the
\* key is set after the mail.
CooldownKept ==
    \A s \in Senders :
        spc[s] = "send" /\ s \notin overlap /\ lastMail # -1 =>
            2 * (lastMail + Cooldown - now) < Sec

\* A code that was accepted, or guessed at EmailCodeMaxAttempts times, is out of
\* Redis once the verifications of it have ended: no further guess meets it.
\* Excused are codes that two verifications met at once (the counter is read and
\* written by separate commands), that were stored while a verification of the
\* code before was in flight, or whose HSET or DEL failed unnoticed.
SpentCodeGone ==
    \A c \in Codes \ excused :
        c \in used \/ wrong[c] >= MaxAttempts =>
            rec.h # c \/ \E v \in Verifying : vcode[v] = c

\* The code of the last mail stored can be verified until it expires, is accepted
\* or is guessed at too often: no request on behalf of an older code deletes it,
\* spends its attempts or expires it early.  Excused as above, and a code whose
\* EXPIRE is still to come or was never sent: it has the TTL of the one before.
LatestCodeUsable ==
    \/ last \in {0} \union used \union excused
    \/ now >= lastExp
    \/ wrong[last] >= MaxAttempts
    \/ \E s \in Senders : spc[s] = "expire"
    \/ rec # NoRec /\ rec.h = last /\ rec.n <= wrong[last]
============================================================================
