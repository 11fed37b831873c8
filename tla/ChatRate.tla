----------------------------- MODULE ChatRate ------------------------------
(***************************************************************************)
(* The chat rate limit of one user in one room: AllowChatSend of           *)
(* internal/cache/redis/room_chat.go, called by SendChat on every server.  *)
(* INCR and EXPIRE are two commands; the second one's error is ignored.    *)
(***************************************************************************)
EXTENDS Integers, Sequences, FiniteSets

CONSTANTS
    Calls,     \* calls that may be in flight at once
    PerSecond, \* CHAT_RATE_PER_SECOND
    Second,    \* moments of the clock in a second
    MaxWait,   \* the longest a call takes from INCR to EXPIRE
    MaxTime,   \* bound: the last moment of the clock
    MaxIncrs   \* bound: INCRs in a run

RateAssumption ==
    /\ {PerSecond, Second} \subseteq Nat \ {0}
    /\ {MaxWait, MaxTime, MaxIncrs} \subseteq Nat

VARIABLES
    now,     \* the clock of Redis
    count,   \* room:chat:rate, 0: no such key
    expiry,  \* when that key expires, 0: it has no TTL
    call,    \* call[c]: when its INCR made the key it now puts a TTL on, 0: idle
    incrs,   \* bound: INCRs so far
    sent,    \* history: when calls were allowed
    lost     \* history: an EXPIRE was never executed

vars == <<now, count, expiry, call, incrs, sent, lost>>

Init ==
    /\ now = 1
    /\ count = 0 /\ expiry = 0
    /\ call = [c \in Calls |-> 0]
    /\ incrs = 0
    /\ sent = <<>> /\ lost = FALSE

----------------------------------------------------------------------------
\* Slip: every call puts the TTL on the key anew.
IncrAlwaysExpires(c) ==
    /\ call[c] = 0
    /\ incrs < MaxIncrs
    /\ incrs' = incrs + 1
    /\ count' = count + 1
    /\ call' = [call EXCEPT ![c] = now]
    /\ sent' = IF count < PerSecond THEN Append(sent, now) ELSE sent
    /\ UNCHANGED <<now, expiry, lost>>
\* AllowChatSend: INCR, and the answer n <= maxPerSecond; EXPIRE is to follow if n = 1.
Incr(c) ==
    /\ call[c] = 0
    /\ incrs < MaxIncrs
    /\ incrs' = incrs + 1
    /\ count' = count + 1
    /\ call' = [call EXCEPT ![c] = IF count = 0 THEN now ELSE 0]
    /\ sent' = IF count < PerSecond THEN Append(sent, now) ELSE sent
    /\ UNCHANGED <<now, expiry, lost>>

\* AllowChatSend: EXPIRE key 1s.
Expire(c) ==
    /\ call[c] # 0
    /\ expiry' = IF count = 0 THEN 0 ELSE now + Second
    /\ call' = [call EXCEPT ![c] = 0]
    /\ UNCHANGED <<now, count, incrs, sent, lost>>

\* The client hangs up, the server stops, or Redis fails after INCR: EXPIRE is not
\* executed, and its error is ignored.
ExpireFails(c) ==
    /\ call[c] # 0
    /\ call' = [call EXCEPT ![c] = 0]
    /\ lost' = TRUE
    /\ UNCHANGED <<now, count, expiry, incrs, sent>>

\* The clock advances and Redis drops the key when it has expired.
Tick ==
    /\ now < MaxTime
    /\ \A c \in Calls : call[c] # 0 => now < call[c] + MaxWait
    /\ now' = now + 1
    /\ LET gone == expiry # 0 /\ now + 1 >= expiry
       IN  /\ count' = IF gone THEN 0 ELSE count
           /\ expiry' = IF gone THEN 0 ELSE expiry
    /\ UNCHANGED <<call, incrs, sent, lost>>

Next == Tick \/ \E c \in Calls : Incr(c) \/ Expire(c) \/ ExpireFails(c)

Spec == Init /\ [][Next]_vars

----------------------------------------------------------------------------
(* Properties                                                              *)

\* The calls allowed from a (inclusive) to b (exclusive).
SentWithin(a, b) == {i \in DOMAIN sent : a <= sent[i] /\ sent[i] < b}

\* A fixed window that starts with a user's first message: no second, wherever it
\* begins, sees more than two windows' worth of messages, lost EXPIREs or not.
BurstBound ==
    \A i \in DOMAIN sent : Cardinality(SentWithin(sent[i], sent[i] + Second)) <= 2 * PerSecond

\* No message was allowed for a second and the time of an EXPIRE, and no call is
\* on its way: the next one will be allowed.
Idle == SentWithin(now - Second - MaxWait, now + 1) = {} /\ \A c \in Calls : call[c] = 0

\* A refusal passes: a user whose messages were all refused for a second is
\* allowed again, however often he tried.  Excused is a user whose EXPIRE was lost.
RefusalPasses == Idle => count = 0 \/ lost


\* AllowChatSend allows neither too many messages nor, once the second is over, too few.
RateKept == BurstBound /\ RefusalPasses
============================================================================
