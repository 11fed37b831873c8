----------------------------- MODULE SendLimit -----------------------------
(***************************************************************************)
(* The in-process limits of internal/api/auth_handlers.go on requests for  *)
(* a register code: slidingWindowLimiter.allow for one client address, and *)
(* for an e-mail that has an account the spacing of fakeRegisterCodeOK.    *)
(* allow reads the clock before it takes the mutex, so calls may decide in *)
(* another order than that of their stamps.                                *)
(***************************************************************************)
EXTENDS Integers, Sequences, FiniteSets

CONSTANTS
    Reqs,      \* requests that may be in flight at once
    Limit,     \* calls let through per window (40)
    Win,       \* the window (a minute)
    Interval,  \* EMAIL_CODE_SEND_INTERVAL
    MaxWait,   \* the longest a call waits between time.Now and the mutex
    MaxTime,   \* bound: the last moment of the clock
    MaxCalls   \* bound: calls in a run

LimitAssumption ==
    /\ {Limit, Win, Interval} \subseteq Nat \ {0}
    /\ {MaxWait, MaxTime, MaxCalls} \subseteq Nat

VARIABLES
    now,      \* the clock
    hits,     \* hits[ip]: the stamps kept, by the number of the call let through
    lastHit,  \* regLastHit[email], 0: no entry (the zero time)
    req,      \* req[r]: the next step of a request and the stamp it holds
    calls,    \* bound: calls begun
    passed,   \* history: when calls were let through, as they decided
    answered  \* history: when "code sent" was answered

vars == <<now, hits, lastHit, req, calls, passed, answered>>

Idle == [pc |-> "idle", at |-> 0]

Init ==
    /\ now = Interval    \* the zero time of regLastHit is long past
    /\ hits = <<>> /\ lastHit = 0
    /\ req = [r \in Reqs |-> Idle]
    /\ calls = 0
    /\ passed = <<>> /\ answered = <<>>

----------------------------------------------------------------------------
\* registerSendCode calls allow, which reads the clock.
allowStamp(r) ==
    /\ req[r] = Idle
    /\ calls < MaxCalls
    /\ calls' = calls + 1
    /\ req' = [req EXCEPT ![r] = [pc |-> "lock", at |-> now]]
    /\ UNCHANGED <<now, hits, lastHit, passed, answered>>

\* The calls whose stamps are after the cutoff of a call stamped t.
kept(t) == {i \in DOMAIN hits : hits[i] > t - Win}

\* allow under the mutex: refused (and nothing stored, not even the pruning), or
\* stored and let through; GetByEmail then finds the account.
allow(r) ==
    /\ req[r].pc = "lock"
    /\ LET k == kept(req[r].at)
           n == Len(passed) + 1
       IN  IF Cardinality(k) >= Limit
           THEN /\ req' = [req EXCEPT ![r] = Idle]
                /\ UNCHANGED <<hits, passed>>
           ELSE /\ hits' = [i \in k \union {n} |-> IF i = n THEN req[r].at ELSE hits[i]]
                /\ passed' = Append(passed, now)
                /\ req' = [req EXCEPT ![r] = [pc |-> "fake", at |-> 0]]
    /\ UNCHANGED <<now, lastHit, calls, answered>>

\* Slip: the last hit moves with every request.
FakeMoves(r) ==
    /\ req[r].pc = "fake"
    /\ IF now - lastHit < Interval
       THEN lastHit' = now /\ UNCHANGED answered
       ELSE lastHit' = now /\ answered' = Append(answered, now)
    /\ req' = [req EXCEPT ![r] = Idle]
    /\ UNCHANGED <<now, hits, calls, passed>>
\* fakeRegisterCodeOK, under regMu: "please wait", or the answer a sent code gets.
fakeRegisterCodeOK(r) ==
    /\ req[r].pc = "fake"
    /\ IF now - lastHit < Interval
       THEN UNCHANGED <<lastHit, answered>>
       ELSE lastHit' = now /\ answered' = Append(answered, now)
    /\ req' = [req EXCEPT ![r] = Idle]
    /\ UNCHANGED <<now, hits, calls, passed>>

\* No call is kept from the mutex longer than MaxWait.
Tick ==
    /\ now < MaxTime
    /\ \A r \in Reqs : req[r].pc = "lock" => now < req[r].at + MaxWait
    /\ now' = now + 1
    /\ UNCHANGED <<hits, lastHit, req, calls, passed, answered>>

Next ==
    \/ Tick
    \/ \E r \in Reqs : allowStamp(r) \/ allow(r) \/ fakeRegisterCodeOK(r)

Spec == Init /\ [][Next]_vars

----------------------------------------------------------------------------
(* Properties                                                              *)

\* The moments of a history from a (inclusive) to b (exclusive).
Within(h, a, b) == {i \in DOMAIN h : a <= h[i] /\ h[i] < b}

\* What the limiter promises of the wall clock although its stamps are older: in
\* no stretch of the window less the longest wait are more than Limit calls let
\* through, whatever the order in which they met the mutex.  Two answers about
\* one account are an interval apart.
WindowBound ==
    /\ \A i \in DOMAIN passed :
          Cardinality(Within(passed, passed[i], passed[i] + Win - MaxWait)) <= Limit
    /\ \A i \in DOMAIN answered :
          Cardinality(Within(answered, answered[i], answered[i] + Interval)) = 1

\* A refusal has a cause that passes: Limit calls let through within a window and
\* a wait, or an answer within the interval.  Refused calls are no cause, so a
\* client that retries all the time is not shut out by its own retries.
Excused ==
    \A r \in Reqs :
        req[r].pc # "idle" /\ req'[r].pc = "idle" =>
           \/ Len(answered') > Len(answered)
           \/ /\ req[r].pc = "lock"
              /\ Cardinality(Within(passed, now - Win - MaxWait + 1, now + 1)) >= Limit
           \/ /\ req[r].pc = "fake"
              /\ Within(answered, now - Interval + 1, now + 1) # {}
RefusalHasCause == [][Excused]_vars

\* Both: the limit is kept, and nobody is refused for longer than it asks.
LimitKept == []WindowBound /\ RefusalHasCause
============================================================================
