------------------------------ MODULE Session ------------------------------
(***************************************************************************)
(* Accounts and sessions: internal/auth/auth.go on the Redis SessionCache, *)
(* with the handlers of internal/api/auth_handlers.go.  One account.       *)
(* A token pair is known by the number of its issue.  Whether an e-mailed  *)
(* code is right is the environment's choice (module EmailCode), and so is *)
(* whether a password is; a signature verifies if issuePair has made it.   *)
(* A request's context may be cancelled before any command.                *)
(***************************************************************************)
EXTENDS Naturals

CONSTANTS
    Reqs,        \* requests that may be in flight at once
    AccessTTL,   \* JWTAccessTTL
    RefreshTTL,  \* JWTRefreshTTL
    Leeway,      \* jwt.WithLeeway
    MaxTime,     \* bound: the last moment of the clock
    MaxPairs,    \* bound: token pairs ever issued
    MaxResets,   \* bound: passwords ever set after the first
    LoggedOut    \* bound: the pairs whose tokens a logout is called with

ASSUME SessionAssumption ==
    /\ {AccessTTL, RefreshTTL} \subseteq Nat \ {0}
    /\ {MaxTime, MaxPairs, MaxResets} \subseteq Nat
    /\ Leeway \in Nat
    /\ LoggedOut \subseteq 1..MaxPairs

VARIABLES
    now,       \* the wall clock, which Redis shares
    password,  \* users.password_hash: how many were set before it, 0: no account
    slot,      \* session:refresh: the pair whose refresh token it holds, 0: no such key
    slotTTL,   \* when that key expires
    black,     \* black[t]: when session:blacklist of token t expires, 0: no such key
    issued,    \* pairs issued so far
    iat,       \* iat[i]: when pair i was issued
    req,       \* req[r]: the next command of a request and what it has read
    over,      \* history: requests in flight over a reset
    born,      \* history: born[i], the password the session of pair i began with
    spent,     \* history: pairs that were exchanged for another
    out,       \* history: tokens a logout has blacklisted
    late,      \* history: pairs of sessions that were in flight over a reset
    twice      \* history: pairs that two refreshes matched at once

redisVars == <<slot, slotTTL, black>>
tokenVars == <<issued, iat>>
historyVars == <<born, spent, out, late, twice>>
vars == <<now, password, redisVars, tokenVars, req, over, historyVars>>

Pairs == 1..MaxPairs
Kinds == {"access", "refresh"}
Tokens == Pairs \X Kinds

\* An expiry beyond the clock: the key has no TTL.
Never == MaxTime + 1

\* pc: the next command; pair: the pair presented, 0: a password or a code was;
\* pass: the password read.
Request(pc, pair, pass) == [pc |-> pc, pair |-> pair, pass |-> pass]
Idle == Request("idle", 0, 0)

Init ==
    /\ now = 1 /\ password = 0
    /\ slot = 0 /\ slotTTL = 0 /\ black = [t \in Tokens |-> 0]
    /\ issued = 0 /\ iat = [i \in Pairs |-> 0]
    /\ req = [r \in Reqs |-> Idle] /\ over = {}
    /\ born = [i \in Pairs |-> 0]
    /\ spent = {} /\ out = {} /\ late = {} /\ twice = {}

Begin(r, pc, pair, pass) ==
    req' = [req EXCEPT ![r] = Request(pc, pair, pass)] /\ UNCHANGED over
Goto(r, label) == Begin(r, label, req[r].pair, req[r].pass)
End(r) == req' = [req EXCEPT ![r] = Idle] /\ over' = over \ {r}

----------------------------------------------------------------------------
(* Tokens                                                                  *)

\* The exp claim that sign puts into a token.
Exp(t) == iat[t[1]] + IF t[2] = "access" THEN AccessTTL ELSE RefreshTTL

\* ParseToken: the signature, exp with the parser's leeway, then IsBlacklisted.
ParseToken(t) == t[1] <= issued /\ now < Exp(t) + Leeway /\ black[t] = 0

\* Slip: a refresh does not replace the stored token.
issuePairOnce(r) ==
    /\ req[r].pc = "issue" /\ issued < MaxPairs
    /\ LET i == issued + 1
           from == req[r].pair
       IN  /\ issued' = i
           /\ iat' = [iat EXCEPT ![i] = now]
           /\ slot' = IF from = 0 THEN i ELSE slot
           /\ slotTTL' = now + RefreshTTL
           /\ born' = [born EXCEPT ![i] = IF from = 0 THEN req[r].pass ELSE born[from]]
           /\ late' = IF r \in over \/ from \in late THEN late \union {i} ELSE late
           /\ spent' = IF from = 0 THEN spent ELSE spent \union {from}
    /\ End(r)
    /\ UNCHANGED <<now, password, black, out, twice>>
\* issuePair: sign two tokens, SetRefreshToken.
issuePair(r) ==
    /\ req[r].pc = "issue" /\ issued < MaxPairs
    /\ LET i == issued + 1
           from == req[r].pair
       IN  /\ issued' = i
           /\ iat' = [iat EXCEPT ![i] = now]
           /\ slot' = i
           /\ slotTTL' = now + RefreshTTL
           /\ born' = [born EXCEPT ![i] = IF from = 0 THEN req[r].pass ELSE born[from]]
           /\ late' = IF r \in over \/ from \in late THEN late \union {i} ELSE late
           /\ spent' = IF from = 0 THEN spent ELSE spent \union {from}
    /\ End(r)
    /\ UNCHANGED <<now, password, black, out, twice>>

----------------------------------------------------------------------------
(* Register, Login, Refresh: what comes before issuePair                   *)

\* RegisterWithCode: the lookups find no account and Create, under the unique
\* indexes of the table, makes it.
RegisterWithCode(r) ==
    /\ req[r] = Idle
    /\ password = 0
    /\ password' = 1
    /\ Begin(r, "issue", 0, 1)
    /\ UNCHANGED <<now, redisVars, tokenVars, historyVars>>

\* Login: GetByEmail or GetByUsername, and CheckPassword.
Login(r) ==
    /\ req[r] = Idle
    /\ password # 0
    /\ Begin(r, "issue", 0, password)
    /\ UNCHANGED <<now, password, redisVars, tokenVars, historyVars>>

\* Refresh: ParseToken of a refresh token.
RefreshParse(r) ==
    /\ req[r] = Idle
    /\ \E i \in Pairs :
        /\ ParseToken(<<i, "refresh">>)
        /\ Begin(r, "match", i, 0)
    /\ UNCHANGED <<now, password, redisVars, tokenVars, historyVars>>

\* Refresh: GetRefreshToken returns the token presented; GetByID finds the account.
RefreshMatch(r) ==
    /\ req[r].pc = "match"
    /\ slot = req[r].pair
    /\ Goto(r, "issue")
    /\ twice' = IF \E q \in Reqs : req[q].pc = "issue" /\ req[q].pair = slot
                THEN twice \union {slot} ELSE twice
    /\ UNCHANGED <<now, password, redisVars, tokenVars, born, spent, out, late>>

\* Refresh: the stored token is another one, or none.
RefreshRefused(r) ==
    /\ req[r].pc = "match"
    /\ slot # req[r].pair
    /\ End(r)
    /\ UNCHANGED <<now, password, redisVars, tokenVars, historyVars>>

----------------------------------------------------------------------------
(* Logout                                                                  *)

\* requireAuth has accepted the access token in the header.
LogoutBegin(r) ==
    /\ req[r] = Idle
    /\ \E i \in LoggedOut :
        ParseToken(<<i, "access">>) /\ Begin(r, "access", i, 0)
    /\ UNCHANGED <<now, password, redisVars, tokenVars, historyVars>>

\* After the access token the refresh token in the body, of whatever pair.
NextToken(r) ==
    IF req[r].pc = "access"
    THEN \E i \in LoggedOut : i <= issued /\ Begin(r, "refresh", i, 0)
    ELSE End(r)

\* Slip: both tokens are blacklisted for as long as the access token lives.
BlacklistShort(r) ==
    /\ req[r].pc \in Kinds
    /\ LET t == <<req[r].pair, req[r].pc>>
           end == iat[req[r].pair] + AccessTTL
       IN  /\ ParseToken(t)
           /\ black' = [black EXCEPT ![t] = IF end > now THEN end ELSE Never]
           /\ out' = out \union {t}
    /\ NextToken(r)
    /\ UNCHANGED <<now, password, slot, slotTTL, tokenVars, born, spent, late, twice>>
\* Logout: a token that parses is blacklisted until its exp.  One within the leeway
\* has no time left, and SET with a TTL of 0 sets a key that never expires.
BlacklistToken(r) ==
    /\ req[r].pc \in Kinds
    /\ LET t == <<req[r].pair, req[r].pc>>
       IN  /\ ParseToken(t)
           /\ black' = [black EXCEPT ![t] = IF Exp(t) > now THEN Exp(t) ELSE Never]
           /\ out' = out \union {t}
    /\ NextToken(r)
    /\ UNCHANGED <<now, password, slot, slotTTL, tokenVars, born, spent, late, twice>>

\* Logout passes over a token that does not parse, or whose blacklist entry it
\* could not read.
LogoutSkips(r) ==
    /\ req[r].pc \in Kinds
    /\ NextToken(r)
    /\ UNCHANGED <<now, password, redisVars, tokenVars, historyVars>>

----------------------------------------------------------------------------
(* Reset                                                                   *)

\* A reset goes on to its next command.  What is on its way to issuePair then is
\* in flight over the reset.
Carry(r, label) ==
    /\ req' = [req EXCEPT ![r] = Request(label, 0, 0)]
    /\ over' = (over \union {q \in Reqs : req[q].pc \in {"match", "issue"}}) \ {r}

\* ResetPassword with a good code: GetByEmail, HashPassword, Update.
ResetUpdate(r) ==
    /\ req[r] = Idle
    /\ password # 0 /\ password <= MaxResets
    /\ password' = password + 1
    /\ Carry(r, "delete")
    /\ UNCHANGED <<now, redisVars, tokenVars, historyVars>>

\* Slip: the stored refresh token is forgotten.
ResetDeleteNothing(r) ==
    /\ req[r].pc = "delete"
    /\ Carry(r, "idle")
    /\ UNCHANGED <<now, password, redisVars, tokenVars, historyVars>>
\* ResetPassword: DeleteRefreshToken.
ResetDelete(r) ==
    /\ req[r].pc = "delete"
    /\ slot' = 0 /\ slotTTL' = 0
    /\ Carry(r, "idle")
    /\ UNCHANGED <<now, password, black, tokenVars, historyVars>>

----------------------------------------------------------------------------
\* A command fails or the client hangs up: the rest is not done.  A reset that
\* ends between its two writes leaves the sessions of the old password alive.
Abandon(r) ==
    /\ req[r].pc # "idle"
    /\ IF req[r].pc = "delete"
       THEN Carry(r, "idle") /\ late' = late \union ({slot} \ {0})
       ELSE End(r) /\ UNCHANGED late
    /\ UNCHANGED <<now, password, redisVars, tokenVars, born, spent, out, twice>>

\* The clock advances and Redis drops what has expired.
Tick ==
    /\ now < MaxTime
    /\ now' = now + 1
    /\ slot' = IF now + 1 >= slotTTL THEN 0 ELSE slot
    /\ slotTTL' = IF now + 1 >= slotTTL THEN 0 ELSE slotTTL
    /\ black' = [t \in Tokens |-> IF now + 1 >= black[t] THEN 0 ELSE black[t]]
    /\ UNCHANGED <<password, tokenVars, req, over, historyVars>>

Next ==
    \/ Tick
    \/ \E r \in Reqs :
        \/ RegisterWithCode(r) \/ Login(r)
        \/ RefreshParse(r) \/ RefreshMatch(r) \/ RefreshRefused(r) \/ issuePair(r)
        \/ LogoutBegin(r) \/ BlacklistToken(r) \/ LogoutSkips(r)
        \/ ResetUpdate(r) \/ ResetDelete(r) \/ Abandon(r)

Spec == Init /\ [][Next]_vars

----------------------------------------------------------------------------
(* Properties                                                              *)

\* Once a reset has ended, the stored refresh token belongs to a session that
\* began with the new password, followed through every refresh.  Excused are
\* sessions a Login or Refresh in flight carried over the reset, and those of a
\* reset that ended between Update and DeleteRefreshToken.
ResetEndsSessions ==
    \/ slot \in {0} \union late
    \/ born[slot] = password
    \/ \E r \in Reqs : req[r].pc = "delete"

\* A refresh token that was exchanged is never exchanged again: it is neither the
\* stored one nor held by a refresh past its check.  Excused are tokens that two
\* refreshes matched before either had stored the next.
SpentStaysSpent ==
    \A i \in spent \ twice :
        slot # i /\ \A r \in Reqs : req[r].pc = "issue" => req[r].pair # i

\* A token that Logout has blacklisted does not parse again before its exp,
\* whatever Redis expires: the entry's TTL ends with the token.  In the leeway
\* after exp it does parse again.
LoggedOutRefused == \A t \in out : now < Exp(t) => ~ParseToken(t)
============================================================================
