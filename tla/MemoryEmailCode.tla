-------------------------- MODULE MemoryEmailCode --------------------------
(***************************************************************************)
(* The store of verification codes without Redis: precheckSendMem,         *)
(* RollbackPrecheck, commitSendMem and verifyMem of                        *)
(* internal/emailcode/store.go, which the tests of the handlers run on     *)
(* where production has EmailCode.  Each operation holds the mutex from    *)
(* end to end; the time it goes by was read before it waited for it.       *)
(* One address and one purpose; a code is the number of its mail.          *)
(***************************************************************************)
EXTENDS Integers

CONSTANTS
    Senders,      \* send-code requests that may be in flight at once
    Cooldown, CodeTTL, DayLen, DailyLimit, MaxAttempts,   \* as in EmailCode
    MaxTime,      \* bound: the last moment of the clock
    MaxSends      \* bound: mails sent

MemoryEmailAssumption ==
    /\ {Cooldown, CodeTTL, DayLen, DailyLimit, MaxAttempts} \subseteq Nat \ {0}
    /\ {MaxTime, MaxSends} \subseteq Nat \ {0}

VARIABLES
    now,       \* the wall clock
    entry,     \* the memEntry
    spc, st, scode,   \* a sender's next operation, when its slot was taken, its code
    issued,    \* mails sent
    mails,     \* history: mails[d], sent on a slot reserved for day d
    lastMail,  \* history: the time of the last commit, -1: none
    overlap,   \* history: senders in flight together with another sender
    strayed,   \* history: days whose counter met an operation of another day
    last,      \* history: the code stored last, 0: none
    used,      \* history: codes accepted
    wrong      \* history: wrong[c], wrong guesses at code c

vars == <<now, entry, spc, st, scode, issued, mails, lastMail, overlap, strayed, last, used, wrong>>
sendVars == <<spc, st, scode, issued, mails, lastMail, overlap, strayed, last>>
verifyVars == <<used, wrong>>

Day(t) == t \div DayLen
Days == 0..Day(MaxTime)
Codes == 1..MaxSends

\* time.Now() as an operation has it that may have waited for the mutex.
Stamps == {now - 1, now}

Init ==
    /\ now \in 1..MaxTime
    /\ entry = [hash |-> 0, expiresAt |-> 0, attempts |-> 0, coolUntil |-> 0,
                dailyDay |-> 0, dailyCount |-> 0]
    /\ spc = [s \in Senders |-> "idle"] /\ st = [s \in Senders |-> 0]
    /\ scode = [s \in Senders |-> 0]
    /\ issued = 0 /\ mails = [d \in Days |-> 0] /\ lastMail = -1
    /\ overlap = {} /\ strayed = {} /\ last = 0
    /\ used = {} /\ wrong = [c \in Codes |-> 0]

Sending == {s \in Senders : spc[s] # "idle"}

EndS(s) ==
    /\ spc' = [spc EXCEPT ![s] = "idle"] /\ st' = [st EXCEPT ![s] = 0]
    /\ scode' = [scode EXCEPT ![s] = 0]
    /\ overlap' = overlap \ {s}

----------------------------------------------------------------------------
(* Sending a code                                                          *)

\* dailyCount as precheckSendMem finds it on day d.
CountOn(d) == IF entry.dailyDay = d THEN entry.dailyCount ELSE 0

\* precheckSendMem: past the cooldown, a slot of the day is taken.  A request of
\* yesterday that locks late turns the counter back.
Precheck(s) ==
    /\ spc[s] = "idle" /\ issued < MaxSends
    /\ \E t \in Stamps :
        /\ t >= entry.coolUntil
        /\ CountOn(Day(t)) < DailyLimit
        /\ entry' = [entry EXCEPT !.dailyDay = Day(t), !.dailyCount = CountOn(Day(t)) + 1]
        /\ spc' = [spc EXCEPT ![s] = "send"] /\ st' = [st EXCEPT ![s] = t]
        /\ overlap' = IF Sending = {} THEN overlap ELSE overlap \union Sending \union {s}
        /\ strayed' = IF Day(t) < entry.dailyDay
                      THEN strayed \union {Day(t), entry.dailyDay} ELSE strayed
    /\ UNCHANGED <<now, scode, issued, mails, lastMail, last, verifyVars>>

\* precheckSendMem refuses: CooldownError, or ErrDailyLimit once the day is set.
PrecheckRefuses(s) ==
    /\ spc[s] = "idle"
    /\ \E t \in Stamps :
        \/ t < entry.coolUntil /\ UNCHANGED entry
        \/ /\ t >= entry.coolUntil /\ CountOn(Day(t)) >= DailyLimit
           /\ entry' = [entry EXCEPT !.dailyDay = Day(t), !.dailyCount = CountOn(Day(t))]
    /\ UNCHANGED <<now, sendVars, verifyVars>>

\* SendVerificationCode succeeds.
SendOk(s) ==
    /\ spc[s] = "send" /\ issued < MaxSends
    /\ issued' = issued + 1
    /\ mails' = [mails EXCEPT ![Day(st[s])] = @ + 1]
    /\ scode' = [scode EXCEPT ![s] = issued + 1]
    /\ spc' = [spc EXCEPT ![s] = "commit"]
    /\ UNCHANGED <<now, entry, st, lastMail, overlap, strayed, last, verifyVars>>

\* RollbackPrecheck: the counter, of whatever day it is by now, gives a slot back.
RollbackPrecheck(s) ==
    /\ spc[s] = "send"
    /\ entry' = [entry EXCEPT !.dailyCount = IF @ > 0 THEN @ - 1 ELSE @]
    /\ strayed' = IF entry.dailyDay = Day(st[s]) THEN strayed ELSE strayed \union {entry.dailyDay}
    /\ EndS(s)
    /\ UNCHANGED <<now, issued, mails, lastMail, last, verifyVars>>

\* Slip: the attempts of the code before are kept.
CommitKeepsAttempts(s) ==
    /\ spc[s] = "commit"
    /\ \E t \in Stamps :
        /\ entry' = [entry EXCEPT !.hash = scode[s], !.expiresAt = t + CodeTTL,
                                  !.coolUntil = t + Cooldown]
        /\ lastMail' = t
    /\ last' = scode[s]
    /\ EndS(s)
    /\ UNCHANGED <<now, issued, mails, strayed, verifyVars>>
\* commitSendMem: the code, its attempts and the cooldown, all at once.
CommitSend(s) ==
    /\ spc[s] = "commit"
    /\ \E t \in Stamps :
        /\ entry' = [entry EXCEPT !.hash = scode[s], !.expiresAt = t + CodeTTL, !.attempts = 0,
                                  !.coolUntil = t + Cooldown]
        /\ lastMail' = t
    /\ last' = scode[s]
    /\ EndS(s)
    /\ UNCHANGED <<now, issued, mails, strayed, verifyVars>>

----------------------------------------------------------------------------
(* verifyMem                                                               *)

VerifyAbsent == entry.hash = 0 /\ UNCHANGED vars

VerifyExpired ==
    /\ entry.hash # 0
    /\ \E t \in Stamps : t > entry.expiresAt
    /\ entry' = [entry EXCEPT !.hash = 0]
    /\ UNCHANGED <<now, sendVars, verifyVars>>

VerifyRight ==
    /\ entry.hash # 0
    /\ \E t \in Stamps : t <= entry.expiresAt
    /\ used' = used \union {entry.hash}
    /\ entry' = [entry EXCEPT !.hash = 0]
    /\ UNCHANGED <<now, sendVars, wrong>>

\* A guess that does not match is counted; the last one allowed takes the code away.
VerifyWrong ==
    /\ entry.hash # 0
    /\ \E t \in Stamps : t <= entry.expiresAt
    /\ wrong' = [wrong EXCEPT ![entry.hash] = @ + 1]
    /\ entry' = [entry EXCEPT !.attempts = @ + 1,
                              !.hash = IF entry.attempts + 1 >= MaxAttempts THEN 0 ELSE @]
    /\ UNCHANGED <<now, sendVars, used>>

----------------------------------------------------------------------------
Tick ==
    /\ now < MaxTime
    /\ now' = now + 1
    /\ UNCHANGED <<entry, sendVars, verifyVars>>

Next ==
    \/ Tick
    \/ \E s \in Senders :
        \/ Precheck(s) \/ PrecheckRefuses(s) \/ SendOk(s) \/ RollbackPrecheck(s) \/ CommitSend(s)
    \/ VerifyAbsent \/ VerifyExpired \/ VerifyRight \/ VerifyWrong

Spec == Init /\ [][Next]_vars

----------------------------------------------------------------------------
(* Properties: those of EmailCode, with the excuses the mutex leaves       *)

\* No more than dailyLimit mails go out on a day's slots, unless a rollback or a
\* request of the day before met the counter: the entry has one counter, of the
\* day it was last asked about.
DailyCap == \A d \in Days : mails[d] <= DailyLimit \/ d \in strayed

\* A send that met no other one mails no sooner than Cooldown after the mail before.
CooldownKept ==
    \A s \in Senders :
        spc[s] = "send" /\ s \notin overlap /\ lastMail # -1 => st[s] - lastMail >= Cooldown

\* A code accepted, or guessed at MaxAttempts times, is gone at once: what Redis
\* promises only of codes that no two requests meet holds here without exception.
SpentCodeGone == entry.hash # 0 => entry.hash \notin used /\ wrong[entry.hash] < MaxAttempts

\* The code of the last mail is there until it expires, is accepted or is guessed
\* at too often: no guess at an older code counts against it.
LatestCodeUsable ==
    \/ last \in {0} \union used
    \/ now > entry.expiresAt
    \/ wrong[last] >= MaxAttempts
    \/ entry.hash = last /\ entry.attempts = wrong[last]
=============================================================================
