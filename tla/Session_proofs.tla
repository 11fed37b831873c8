--------------------------- MODULE Session_proofs ---------------------------
(***************************************************************************)
(* Proofs about the parts that MCSession runs: sessions, access to private *)
(* rooms and registration, for any number of requests, users and TTLs.     *)
(***************************************************************************)
EXTENDS MCSession, TLAPS

Labels == {"idle", "match", "issue", "access", "refresh", "delete"}
Requests == [pc : Labels, pair : Nat, pass : Nat]

\* What the proofs need of the types.
SessionTypes ==
    /\ now \in Nat /\ password \in Nat
    /\ issued \in Nat /\ slot \in Nat /\ slot <= issued
    /\ issued <= MaxPairs
    /\ req \in [Reqs -> Requests]
    /\ \A r \in Reqs : req[r].pair <= issued
    /\ \A r \in Reqs : req[r].pc = "match" => req[r].pair # 0
    /\ born \in [Pairs -> Nat]
    /\ spent \subseteq 1..issued /\ late \subseteq 1..issued /\ twice \subseteq 1..issued

\* Two requests about to issue for one pair have been noticed; with it,
\* SpentStaysSpent is inductive.
SpentInv ==
    /\ SpentStaysSpent
    /\ \A q, r \in Reqs :
        q # r /\ req[q].pc = "issue" /\ req[r].pc = "issue" /\ req[q].pair = req[r].pair
            => req[r].pair = 0 \/ req[r].pair \in twice

Pending == \E r \in Reqs : req[r].pc = "delete"

\* What a request that was in flight over no reset may rest its issue on: the
\* current password, or a pair that satisfies ResetEndsSessions itself.
ResetInv ==
    /\ ResetEndsSessions
    /\ password = 0 => issued = 0 /\ \A r \in Reqs : req[r] = Idle
    /\ \A r \in Reqs : req[r].pc = "issue" /\ r \notin over =>
        IF req[r].pair = 0 THEN req[r].pass = password
        ELSE req[r].pair \in late \/ born[req[r].pair] = password \/ Pending

\* Session's state has the types above in every reachable state.
LEMMA TypesStep == SessionTypes /\ [Next]_vars => SessionTypes'
<1> SUFFICES ASSUME SessionTypes, [Next]_vars PROVE SessionTypes'
  OBVIOUS
<1> USE SessionAssumption
<1> USE DEF SessionTypes, Requests, Labels, Idle, Request
<1>1. CASE Tick
  BY <1>1 DEF Tick, tokenVars, historyVars
<1>2. ASSUME NEW r \in Reqs, RegisterWithCode(r) PROVE SessionTypes'
  BY <1>2 DEF RegisterWithCode, Begin, redisVars, tokenVars, historyVars
<1>3. ASSUME NEW r \in Reqs, Login(r) PROVE SessionTypes'
  BY <1>3 DEF Login, Begin, redisVars, tokenVars, historyVars
<1>4. ASSUME NEW r \in Reqs, RefreshParse(r) PROVE SessionTypes'
  BY <1>4 DEF RefreshParse, Begin, ParseToken, Pairs, redisVars, tokenVars, historyVars
<1>5. ASSUME NEW r \in Reqs, RefreshMatch(r) PROVE SessionTypes'
  <2>1. /\ UNCHANGED <<now, password, issued, slot, born, spent, late>>
        /\ req' = [req EXCEPT ![r] = Request("issue", req[r].pair, req[r].pass)]
        /\ twice' \in {twice, twice \union {slot}}
        /\ slot = req[r].pair /\ slot # 0
    BY <1>5 DEF RefreshMatch, Goto, Begin, redisVars, tokenVars
  <2>2. slot \in 1..issued
    BY <2>1
  <2> QED
    BY <2>1, <2>2
<1>6. ASSUME NEW r \in Reqs, RefreshRefused(r) PROVE SessionTypes'
  BY <1>6 DEF RefreshRefused, End, redisVars, tokenVars, historyVars
<1>7. ASSUME NEW r \in Reqs, issuePair(r) PROVE SessionTypes'
  <2> DEFINE i == issued + 1
             from == req[r].pair
  <2>1. /\ issued' = i /\ slot' = i /\ i <= MaxPairs /\ from \in 0..issued
        /\ now' = now /\ password' = password /\ twice' = twice
        /\ born' = [born EXCEPT ![i] = IF from = 0 THEN req[r].pass ELSE born[from]]
        /\ req' = [req EXCEPT ![r] = Idle]
        /\ late' \in {late, late \union {i}}
        /\ spent' = IF from = 0 THEN spent ELSE spent \union {from}
    BY <1>7 DEF issuePair, End
  <2>2. req' \in [Reqs -> Requests] /\ \A q \in Reqs : req'[q].pair <= i
                /\ (req'[q].pc = "match" => req'[q].pair # 0)
    BY <2>1
  <2>3. born' \in [Pairs -> Nat]
    BY <2>1 DEF Pairs
  <2>4. /\ spent' \subseteq 1..i /\ late' \subseteq 1..i /\ twice' \subseteq 1..i
    <3>1. 1..issued \subseteq 1..i /\ i \in 1..i /\ (from # 0 => from \in 1..i)
      BY <2>1
    <3> QED
      BY <2>1, <3>1
  <2> QED
    BY <2>1, <2>2, <2>3, <2>4
<1>8. ASSUME NEW r \in Reqs, LogoutBegin(r) PROVE SessionTypes'
  <2>1. /\ UNCHANGED <<now, password, issued, slot, born, spent, late, twice>>
        /\ \E i \in LoggedOut :
             i <= issued /\ req' = [req EXCEPT ![r] = Request("access", i, 0)]
    BY <1>8 DEF LogoutBegin, ParseToken, Begin, redisVars, tokenVars, historyVars
  <2>2. LoggedOut \subseteq Nat
    OBVIOUS
  <2> QED
    BY <2>1, <2>2
<1>9. ASSUME NEW r \in Reqs, BlacklistToken(r) \/ LogoutSkips(r) PROVE SessionTypes'
  <2>1. /\ UNCHANGED <<now, password, issued, slot, born, spent, late, twice>>
        /\ \/ \E i \in LoggedOut :
                i <= issued /\ req' = [req EXCEPT ![r] = Request("refresh", i, 0)]
           \/ req' = [req EXCEPT ![r] = Idle]
    BY <1>9 DEF BlacklistToken, LogoutSkips, NextToken, Begin, End, redisVars, tokenVars,
                historyVars
  <2>2. LoggedOut \subseteq Nat
    OBVIOUS
  <2> QED
    BY <2>1, <2>2
<1>10. ASSUME NEW r \in Reqs, ResetUpdate(r) \/ ResetDelete(r) \/ Abandon(r) PROVE SessionTypes'
  <2>1. /\ UNCHANGED <<now, issued, born, spent, twice>> /\ password' \in Nat /\ slot' \in {0, slot}
        /\ late' \in {late, late \union ({slot} \ {0})}
    BY <1>10 DEF ResetUpdate, ResetDelete, Abandon, redisVars, tokenVars, historyVars
  <2>2. \/ req' = [req EXCEPT ![r] = Request("delete", 0, 0)]
        \/ req' = [req EXCEPT ![r] = Idle]
    BY <1>10 DEF ResetUpdate, ResetDelete, Abandon, Carry, End
  <2>3. /\ req' \in [Reqs -> Requests]
        /\ \A q \in Reqs : req'[q].pair <= issued /\ (req'[q].pc = "match" => req'[q].pair # 0)
    BY <2>2
  <2> QED
    BY <2>1, <2>3
<1>11. CASE UNCHANGED vars
  BY <1>11 DEF vars, redisVars, tokenVars, historyVars
<1> QED
  BY <1>1, <1>2, <1>3, <1>4, <1>5, <1>6, <1>7, <1>8, <1>9, <1>10, <1>11 DEF Next

\* What every action but issuePair and RefreshMatch does to the refreshes: none
\* moves on to "issue" for a pair, and the stored pair only goes.
Quiet ==
    /\ UNCHANGED <<spent, twice>>
    /\ slot' \in {0, slot}
    /\ \A r \in Reqs : req'[r].pc = "issue" => req'[r].pair = 0 \/ req'[r] = req[r]

\* Every step but a match of Refresh and an issuePair is quiet.
LEMMA OthersAreQuiet ==
    ASSUME SessionTypes, [Next]_vars,
           \A r \in Reqs : ~RefreshMatch(r) /\ ~issuePair(r)
    PROVE  Quiet
<1> USE DEF Quiet, SessionTypes, Requests, Request, Idle, redisVars, historyVars
<1>1. CASE Tick \/ UNCHANGED vars
  BY <1>1 DEF Tick, vars
<1>2. ASSUME NEW r \in Reqs,
             RegisterWithCode(r) \/ Login(r) \/ RefreshParse(r) \/ RefreshRefused(r)
      PROVE  Quiet
  <2>1. UNCHANGED <<spent, twice, slot>>
    BY <1>2 DEF RegisterWithCode, Login, RefreshParse, RefreshRefused
  <2>2. CASE RegisterWithCode(r) \/ Login(r)
    BY <2>1, <2>2 DEF RegisterWithCode, Login, Begin
  <2>3. CASE RefreshParse(r)
    <3>1. \E i \in Pairs : req' = [req EXCEPT ![r] = Request("match", i, 0)]
      BY <2>3 DEF RefreshParse, Begin
    <3> QED
      BY <2>1, <3>1
  <2>4. CASE RefreshRefused(r)
    BY <2>1, <2>4 DEF RefreshRefused, End
  <2> QED
    BY <1>2, <2>2, <2>3, <2>4
<1>3. ASSUME NEW r \in Reqs, LogoutBegin(r) \/ BlacklistToken(r) \/ LogoutSkips(r)
      PROVE  Quiet
  <2>1. /\ UNCHANGED <<spent, twice, slot>>
        /\ \/ \E i \in LoggedOut, label \in {"access", "refresh"} :
                req' = [req EXCEPT ![r] = Request(label, i, 0)]
           \/ req' = [req EXCEPT ![r] = Idle]
    BY <1>3 DEF LogoutBegin, BlacklistToken, LogoutSkips, NextToken, Begin, End
  <2> QED
    BY <2>1
<1>4. ASSUME NEW r \in Reqs, ResetUpdate(r) \/ ResetDelete(r) \/ Abandon(r)
      PROVE  Quiet
  <2>1. /\ UNCHANGED <<spent, twice>> /\ slot' \in {0, slot}
        /\ \/ req' = [req EXCEPT ![r] = Request("delete", 0, 0)]
           \/ req' = [req EXCEPT ![r] = Idle]
    BY <1>4 DEF ResetUpdate, ResetDelete, Abandon, Carry, End
  <2> QED
    BY <2>1
<1> QED
  BY <1>1, <1>2, <1>3, <1>4 DEF Next

\* SpentInv is inductive: a match of Refresh finds the stored token unspent, and
\* issuePair replaces it by a new one.
LEMMA SpentStep == SessionTypes /\ SpentInv /\ [Next]_vars => SpentInv'
<1> SUFFICES ASSUME SessionTypes, SpentInv, [Next]_vars PROVE SpentInv'
  OBVIOUS
<1>1. ASSUME Quiet PROVE SpentInv'
  <2>1. spent \subseteq Nat /\ 0 \notin spent
    BY DEF SessionTypes
  <2> QED
    BY <1>1, <2>1 DEF Quiet, SpentInv, SpentStaysSpent
<1>2. ASSUME NEW r \in Reqs, RefreshMatch(r) PROVE SpentInv'
  <2>1. /\ UNCHANGED <<spent, slot>> /\ slot = req[r].pair
        /\ req' = [req EXCEPT ![r] = Request("issue", slot, req[r].pass)]
        /\ twice' = IF \E q \in Reqs : req[q].pc = "issue" /\ req[q].pair = slot
                    THEN twice \union {slot} ELSE twice
    BY <1>2 DEF RefreshMatch, Goto, Begin, redisVars
  <2>2. \A q \in Reqs : q # r => req'[q] = req[q]
    BY <2>1 DEF SessionTypes
  <2>3. req'[r].pc = "issue" /\ req'[r].pair = slot
    BY <2>1 DEF SessionTypes, Request
  <2>4. SpentStaysSpent'
    BY <2>1, <2>2, <2>3 DEF SpentInv, SpentStaysSpent
  <2>5. ASSUME NEW p \in Reqs, NEW q \in Reqs, p # q, req'[p].pc = "issue", req'[q].pc = "issue",
               req'[p].pair = req'[q].pair
        PROVE  req'[q].pair = 0 \/ req'[q].pair \in twice'
    BY <2>1, <2>2, <2>3, <2>5 DEF SpentInv
  <2> QED
    BY <2>4, <2>5 DEF SpentInv
<1>3. ASSUME NEW r \in Reqs, issuePair(r) PROVE SpentInv'
  <2> DEFINE from == req[r].pair
  <2>1. /\ req[r].pc = "issue" /\ slot' = issued + 1 /\ twice' = twice
        /\ spent' = IF from = 0 THEN spent ELSE spent \union {from}
        /\ req' = [req EXCEPT ![r] = Idle]
    BY <1>3 DEF issuePair, End
  <2>2. \A q \in Reqs : req'[q].pc = "issue" => q # r /\ req'[q] = req[q]
    BY <2>1 DEF SessionTypes, Idle, Request
  <2>3. \A i \in spent' : i # slot'
    BY <2>1 DEF SessionTypes, Requests
  <2>4. ASSUME NEW i \in spent' \ twice', NEW q \in Reqs, req'[q].pc = "issue"
        PROVE  req'[q].pair # i
    <3>1. CASE i \in spent
      BY <2>1, <2>2, <2>4, <3>1 DEF SpentInv, SpentStaysSpent
    <3>2. CASE i = from /\ from # 0
      BY <2>1, <2>2, <2>4, <3>2 DEF SpentInv
    <3> QED
      BY <2>1, <2>4, <3>1, <3>2
  <2>5. SpentStaysSpent'
    BY <2>3, <2>4 DEF SpentStaysSpent
  <2> QED
    BY <2>1, <2>2, <2>5 DEF SpentInv
<1> QED
  BY <1>1, <1>2, <1>3, OthersAreQuiet DEF Next

\* ResetInv is inductive: what is issued rests on the current password, on a pair
\* of such a session, or was in flight over the reset.
LEMMA ResetStep == SessionTypes /\ ResetInv /\ [Next]_vars => ResetInv'
<1> SUFFICES ASSUME SessionTypes, ResetInv, [Next]_vars PROVE ResetInv'
  OBVIOUS
<1> USE DEF Pending, Idle, Request
\* Nothing is issued: a request on its way was so before or has just read the password.
<1> DEFINE Still ==
      /\ UNCHANGED <<password, issued, born>> /\ slot' \in {0, slot}
      /\ password # 0
      /\ \A r \in Reqs :
           /\ req[r].pc = "delete" => req'[r].pc = "delete"
           /\ req'[r].pc = "issue" /\ r \notin over' =>
               \/ req'[r] = req[r] /\ r \notin over
               \/ req'[r].pair = 0 /\ req'[r].pass = password
               \/ req'[r].pair = slot /\ slot # 0
      /\ late' = late
<1>1. ASSUME Still PROVE ResetInv'
  <2>1. Pending => Pending'
    BY <1>1
  <2>2. ResetEndsSessions'
    BY <1>1, <2>1 DEF ResetInv, ResetEndsSessions
  <2>3. ASSUME NEW r \in Reqs, req'[r].pc = "issue", r \notin over'
        PROVE  IF req'[r].pair = 0 THEN req'[r].pass = password'
               ELSE req'[r].pair \in late' \/ born'[req'[r].pair] = password' \/ Pending'
    <3>1. slot # 0 => slot \in late \/ born[slot] = password \/ Pending
      BY DEF ResetInv, ResetEndsSessions
    <3> QED
      BY <1>1, <2>1, <2>3, <3>1 DEF ResetInv
  <2> QED
    BY <1>1, <2>2, <2>3 DEF ResetInv
\* Before the account exists only the registration does anything.
<1>2. CASE password = 0
  <2>1. /\ issued = 0 /\ slot = 0 /\ late = {} /\ \A r \in Reqs : req[r] = Idle
    BY <1>2 DEF ResetInv, SessionTypes
  <2>2. ASSUME NEW r \in Reqs, RegisterWithCode(r) PROVE ResetInv'
    <3>1. password' = 1 /\ slot' = 0 /\ req' = [req EXCEPT ![r] = Request("issue", 0, 1)]
      BY <2>1, <2>2 DEF RegisterWithCode, Begin, redisVars
    <3>2. \A q \in Reqs : req'[q].pc = "issue" => req'[q].pair = 0 /\ req'[q].pass = 1
      BY <2>1, <3>1 DEF SessionTypes
    <3> QED
      BY <3>1, <3>2 DEF ResetInv, ResetEndsSessions
  <2>3. ASSUME Tick \/ UNCHANGED vars PROVE ResetInv'
    <3>1. UNCHANGED <<password, issued, req>> /\ slot' = 0
      BY <2>1, <2>3 DEF Tick, vars, redisVars, tokenVars
    <3> QED
      BY <1>2, <2>1, <3>1 DEF ResetInv, ResetEndsSessions
  <2>4. ASSUME NEW r \in Reqs PROVE /\ ~Login(r) /\ ~RefreshParse(r) /\ ~RefreshMatch(r)
                                    /\ ~RefreshRefused(r) /\ ~issuePair(r) /\ ~LogoutBegin(r)
                                    /\ ~BlacklistToken(r) /\ ~LogoutSkips(r) /\ ~ResetUpdate(r)
                                    /\ ~ResetDelete(r) /\ ~Abandon(r)
    <3>1. req[r].pc = "idle" /\ \A i \in Nat \ {0} : ~(i <= issued)
      BY <2>1
    <3>2. ~Login(r) /\ ~ResetUpdate(r)
      BY <1>2 DEF Login, ResetUpdate
    <3>3. ~RefreshParse(r)
      <4>1. ASSUME NEW i \in Pairs PROVE ~ParseToken(<<i, "refresh">>)
        BY <3>1, SessionAssumption DEF ParseToken, Pairs
      <4> QED
        BY <4>1 DEF RefreshParse
    <3>4. ~LogoutBegin(r)
      <4>1. ASSUME NEW i \in LoggedOut PROVE ~ParseToken(<<i, "access">>)
        BY <3>1, SessionAssumption DEF ParseToken
      <4> QED
        BY <4>1 DEF LogoutBegin
    <3>5. ~RefreshMatch(r) /\ ~RefreshRefused(r) /\ ~issuePair(r) /\ ~ResetDelete(r) /\ ~Abandon(r)
      BY <3>1 DEF RefreshMatch, RefreshRefused, issuePair, ResetDelete, Abandon
    <3>6. ~BlacklistToken(r) /\ ~LogoutSkips(r)
      BY <3>1 DEF BlacklistToken, LogoutSkips, Kinds
    <3> QED
      BY <3>2, <3>3, <3>4, <3>5, <3>6
  <2> QED
    BY <2>2, <2>3, <2>4 DEF Next
<1>3. CASE password # 0
  <2> USE <1>3
  <2>1. ASSUME Tick \/ UNCHANGED vars PROVE ResetInv'
    <3>1. Still
      BY <2>1 DEF Tick, vars, redisVars, tokenVars, historyVars
    <3> QED
      BY <1>1, <3>1
  <2>2. ASSUME NEW r \in Reqs, Login(r) PROVE ResetInv'
    <3>1. Still
      BY <2>2 DEF Login, Begin, redisVars, tokenVars, historyVars, SessionTypes
    <3> QED
      BY <1>1, <3>1
  <2>3. ASSUME NEW r \in Reqs, RefreshParse(r) PROVE ResetInv'
    <3>1. Still
      BY <2>3 DEF RefreshParse, Begin, redisVars, tokenVars, historyVars, SessionTypes
    <3> QED
      BY <1>1, <3>1
  <2>4. ASSUME NEW r \in Reqs, RefreshMatch(r) PROVE ResetInv'
    <3>1. slot # 0
      BY <2>4 DEF RefreshMatch, SessionTypes
    <3>2. Still
      BY <2>4, <3>1 DEF RefreshMatch, Goto, Begin, redisVars, tokenVars, SessionTypes
    <3> QED
      BY <1>1, <3>2
  <2>5. ASSUME NEW r \in Reqs, RefreshRefused(r) PROVE ResetInv'
    <3>1. Still
      BY <2>5 DEF RefreshRefused, End, redisVars, tokenVars, historyVars, SessionTypes
    <3> QED
      BY <1>1, <3>1
  <2>6. ASSUME NEW r \in Reqs, LogoutBegin(r) PROVE ResetInv'
    <3>1. Still
      BY <2>6 DEF LogoutBegin, Begin, redisVars, tokenVars, historyVars, SessionTypes
    <3> QED
      BY <1>1, <3>1
  <2>7. ASSUME NEW r \in Reqs, BlacklistToken(r) \/ LogoutSkips(r) PROVE ResetInv'
    <3>1. /\ UNCHANGED <<password, issued, born, slot, late>> /\ req[r].pc \in Kinds
          /\ \/ /\ \E i \in LoggedOut : req' = [req EXCEPT ![r] = Request("refresh", i, 0)]
                /\ over' = over
             \/ req' = [req EXCEPT ![r] = Idle] /\ over' = over \ {r}
      BY <2>7 DEF BlacklistToken, LogoutSkips, NextToken, Begin, End, redisVars, tokenVars,
                  historyVars
    <3>2. Still
      BY <3>1 DEF SessionTypes, Kinds
    <3> QED
      BY <1>1, <3>2
  <2>8. ASSUME NEW r \in Reqs, issuePair(r) PROVE ResetInv'
    <3> DEFINE i == issued + 1
               from == req[r].pair
    <3>1. /\ issued' = i /\ slot' = i /\ password' = password /\ req[r].pc = "issue"
          /\ born' = [born EXCEPT ![i] = IF from = 0 THEN req[r].pass ELSE born[from]]
          /\ req' = [req EXCEPT ![r] = Idle] /\ over' = over \ {r}
          /\ late' = IF r \in over \/ from \in late THEN late \union {i} ELSE late
      BY <2>8 DEF issuePair, End
    <3>2. /\ i \in Pairs /\ i \notin 0..issued /\ \A q \in Reqs : req[q].pair \in 0..issued
          /\ 0 \notin late
      BY <2>8, SessionAssumption DEF issuePair, SessionTypes, Requests, Pairs
    <3>3. Pending => Pending'
      BY <3>1 DEF SessionTypes
    <3>4. /\ born'[i] = IF from = 0 THEN req[r].pass ELSE born[from]
          /\ \A p \in 0..issued : p # 0 => born'[p] = born[p]
      BY <3>1, <3>2 DEF SessionTypes
    <3>5. ResetEndsSessions'
      BY <3>1, <3>2, <3>3, <3>4 DEF ResetInv, ResetEndsSessions
    <3>6. ASSUME NEW q \in Reqs, req'[q].pc = "issue", q \notin over'
          PROVE  IF req'[q].pair = 0 THEN req'[q].pass = password'
                 ELSE req'[q].pair \in late' \/ born'[req'[q].pair] = password' \/ Pending'
      <4>1. q # r /\ req'[q] = req[q] /\ q \notin over
        BY <3>1, <3>6 DEF SessionTypes
      <4> QED
        BY <3>1, <3>2, <3>3, <3>4, <3>6, <4>1 DEF ResetInv
    <3> QED
      BY <3>1, <3>5, <3>6 DEF ResetInv
  <2>9. ASSUME NEW r \in Reqs, ResetUpdate(r) \/ ResetDelete(r) \/ (Abandon(r) /\ req[r].pc = "delete")
        PROVE  ResetInv'
    <3>1. /\ password' # 0
          /\ \/ req' = [req EXCEPT ![r] = Request("delete", 0, 0)]
             \/ req' = [req EXCEPT ![r] = Request("idle", 0, 0)]
          /\ over' = (over \union {q \in Reqs : req[q].pc \in {"match", "issue"}}) \ {r}
      BY <2>9 DEF ResetUpdate, ResetDelete, Abandon, Carry, SessionTypes
    <3>2. \A q \in Reqs : req'[q].pc = "issue" => q \in over'
      BY <3>1 DEF SessionTypes
    <3>3. ResetEndsSessions'
      <4>1. CASE ResetUpdate(r)
        BY <4>1 DEF ResetUpdate, Carry, SessionTypes, ResetEndsSessions
      <4>2. CASE ResetDelete(r)
        BY <4>2 DEF ResetDelete, ResetEndsSessions
      <4>3. CASE Abandon(r) /\ req[r].pc = "delete"
        BY <4>3 DEF Abandon, redisVars, ResetEndsSessions
      <4> QED
        BY <2>9, <4>1, <4>2, <4>3
    <3> QED
      BY <3>1, <3>2, <3>3 DEF ResetInv
  <2>10. ASSUME NEW r \in Reqs, Abandon(r), req[r].pc # "delete" PROVE ResetInv'
    <3>1. Still
      BY <2>10 DEF Abandon, End, redisVars, tokenVars, SessionTypes
    <3> QED
      BY <1>1, <3>1
  <2>11. ASSUME NEW r \in Reqs PROVE ~RegisterWithCode(r)
    BY DEF RegisterWithCode
  <2> QED
    BY <2>1, <2>2, <2>3, <2>4, <2>5, <2>6, <2>7, <2>8, <2>9, <2>10, <2>11 DEF Next
<1> QED
  BY <1>2, <1>3

\* In every reachable state a refresh token that was exchanged can not be exchanged
\* again, unless two refreshes had matched it at once.
THEOREM SpentTokenStaysSpent == Spec => []SpentStaysSpent
<1>1. Init => SessionTypes /\ SpentInv
  BY SessionAssumption DEF Init, SessionTypes, Requests, Labels, Request, Idle, Pairs, SpentInv,
                           SpentStaysSpent
<1>2. SessionTypes /\ SpentInv /\ [Next]_vars => (SessionTypes /\ SpentInv)'
  BY TypesStep, SpentStep
<1>3. SpentInv => SpentStaysSpent
  BY DEF SpentInv
<1> QED
  BY <1>1, <1>2, <1>3, PTL DEF Spec

\* In every reachable state without a reset in progress the stored refresh token
\* belongs to a session that began with the current password, unless that session
\* was in flight over a reset.
THEOREM ResetEndsOldSessions == Spec => []ResetEndsSessions
<1>1. Init => SessionTypes /\ ResetInv
  BY SessionAssumption DEF Init, SessionTypes, Requests, Labels, Request, Idle, Pairs, ResetInv,
                           ResetEndsSessions
<1>2. SessionTypes /\ ResetInv /\ [Next]_vars => (SessionTypes /\ ResetInv)'
  BY TypesStep, ResetStep
<1>3. ResetInv => ResetEndsSessions
  BY DEF ResetInv
<1> QED
  BY <1>1, <1>2, <1>3, PTL DEF Spec
----------------------------------------------------------------------------
(* Logout.                                                                 *)

\* The entry of a blacklisted token outlives the token.
OutInv ==
    /\ iat \in [Pairs -> Nat] /\ black \in [Tokens -> Nat]
    /\ \A r \in Reqs : req[r].pc \in Kinds => req[r].pair # 0
    /\ \A t \in out : t \in Tokens /\ t[1] <= issued /\ (black[t] >= Exp(t) \/ now >= Exp(t))

\* A token's exp is a time.
LEMMA ExpIsTime ==
  ASSUME OutInv, NEW t \in Tokens PROVE Exp(t) \in Nat
BY SessionAssumption DEF OutInv, Tokens, Exp

\* No step lets the blacklist entry of a token end before the token.
LEMMA OutStep == SessionTypes /\ OutInv /\ [Next]_vars => OutInv'
<1> SUFFICES ASSUME SessionTypes, OutInv, [Next]_vars PROVE OutInv'
  OBVIOUS
<1> USE DEF OutInv
<1>0. /\ now \in Nat /\ issued \in Nat
      /\ \A r \in Reqs : req[r].pair \in Nat /\ req[r].pair <= issued
      /\ req \in [Reqs -> Requests] /\ issued <= MaxPairs /\ MaxPairs \in Nat
  BY SessionAssumption DEF SessionTypes, Requests
<1>1. CASE Tick
  <2>1. UNCHANGED <<iat, issued, req, out>> /\ now' = now + 1
    BY <1>1 DEF Tick, tokenVars, historyVars
  <2>2. black' = [t \in Tokens |-> IF now + 1 >= black[t] THEN 0 ELSE black[t]]
    BY <1>1 DEF Tick
  <2>3. black' \in [Tokens -> Nat]
    BY <2>2
  <2>4. \A t : Exp(t)' = Exp(t)
    BY <2>1 DEF Exp
  <2>5. ASSUME NEW t \in out PROVE black'[t] >= Exp(t) \/ now + 1 >= Exp(t)
    <3>1. t \in Tokens /\ Exp(t) \in Nat /\ black[t] \in Nat
      BY ExpIsTime
    <3>2. black'[t] = IF now + 1 >= black[t] THEN 0 ELSE black[t]
      BY <2>2, <3>1
    <3> QED
      BY <1>0, <3>1, <3>2
  <2> QED
    BY <2>1, <2>3, <2>4, <2>5
<1>2. ASSUME NEW r \in Reqs, issuePair(r) PROVE OutInv'
  <2>1. issued < MaxPairs /\ issued' = issued + 1 /\ iat' = [iat EXCEPT ![issued + 1] = now]
        /\ UNCHANGED <<now, black, out>> /\ req' = [req EXCEPT ![r] = Idle]
    BY <1>2 DEF issuePair, End
  <2>2. issued + 1 \in Pairs
    BY <1>0, <2>1, SessionAssumption DEF Pairs
  <2>3. iat' \in [Pairs -> Nat]
    BY <1>0, <2>1, <2>2
  <2>4. ASSUME NEW t \in out PROVE Exp(t)' = Exp(t) /\ t[1] <= issued'
    <3>1. t[1] \in Pairs /\ t[1] <= issued
      BY DEF Tokens
    <3>2. t[1] # issued + 1 /\ t[1] <= issued + 1
      BY <1>0, <3>1 DEF Pairs
    <3> QED
      BY <2>1, <3>1, <3>2 DEF Exp
  <2> QED
    BY <1>0, <2>1, <2>3, <2>4 DEF Idle, Request, Kinds
<1>3. ASSUME NEW r \in Reqs, BlacklistToken(r) PROVE OutInv'
  <2> DEFINE t == <<req[r].pair, req[r].pc>>
             end == IF Exp(t) > now THEN Exp(t) ELSE Never
  <2>1. req[r].pc \in Kinds /\ black' = [black EXCEPT ![t] = end] /\ out' = out \union {t}
        /\ t[1] <= issued /\ UNCHANGED <<now, issued, iat>> /\ NextToken(r)
    BY <1>3 DEF BlacklistToken, ParseToken, tokenVars
  <2>2. t \in Tokens
    BY <1>0, <2>1 DEF Tokens, Pairs
  <2>3. Exp(t) \in Nat /\ end \in Nat /\ (end >= Exp(t) \/ now >= Exp(t))
    BY <1>0, <2>2, ExpIsTime, SessionAssumption DEF Never
  <2>4. \A u : Exp(u)' = Exp(u)
    BY <2>1 DEF Exp
  <2> HIDE DEF end, t
  <2>5. black' \in [Tokens -> Nat]
    BY <2>1, <2>2, <2>3
  <2>6. ASSUME NEW u \in out'
        PROVE  u \in Tokens /\ u[1] <= issued /\ (black'[u] >= Exp(u) \/ now >= Exp(u))
    BY <2>1, <2>2, <2>3, <2>6
  <2>7. \A q \in Reqs : req'[q].pc \in Kinds => req'[q].pair # 0
    BY <1>0, <2>1, SessionAssumption DEF NextToken, Begin, End, Idle, Request, Kinds
  <2> QED
    BY <2>1, <2>4, <2>5, <2>6, <2>7
<1>4. ASSUME NEW r \in Reqs, RegisterWithCode(r) \/ Login(r) \/ RefreshParse(r) \/ RefreshMatch(r)
                 \/ RefreshRefused(r) \/ LogoutBegin(r) \/ LogoutSkips(r)
                 \/ ResetUpdate(r) \/ ResetDelete(r) \/ Abandon(r)
      PROVE  OutInv'
  <2>1. UNCHANGED <<now, black, iat, issued, out>>
    BY <1>4 DEF RegisterWithCode, Login, RefreshParse, RefreshMatch, RefreshRefused, LogoutBegin,
                LogoutSkips, ResetUpdate, ResetDelete, Abandon, redisVars, tokenVars, historyVars
  <2>2. \/ \E pc \in {"issue", "match"} : \E i, p : req' = [req EXCEPT ![r] = Request(pc, i, p)]
        \/ \E i \in LoggedOut, pc \in Kinds : req' = [req EXCEPT ![r] = Request(pc, i, 0)]
        \/ \E pc \in {"idle", "delete"} : req' = [req EXCEPT ![r] = Request(pc, 0, 0)]
    <3>1. CASE RegisterWithCode(r) \/ Login(r) \/ RefreshParse(r) \/ RefreshMatch(r)
      BY <3>1 DEF RegisterWithCode, Login, RefreshParse, RefreshMatch, Begin, Goto
    <3>2. CASE RefreshRefused(r) \/ ResetUpdate(r) \/ ResetDelete(r) \/ Abandon(r)
      BY <3>2 DEF RefreshRefused, ResetUpdate, ResetDelete, Abandon, End, Carry, Idle
    <3>3. CASE LogoutBegin(r) \/ LogoutSkips(r)
      BY <3>3 DEF LogoutBegin, LogoutSkips, NextToken, Begin, End, Idle, Kinds
    <3> QED
      BY <1>4, <3>1, <3>2, <3>3
  <2>3. \A q \in Reqs : req'[q].pc \in Kinds => req'[q].pair # 0
    BY <1>0, <2>2, SessionAssumption DEF Request, Kinds
  <2>4. \A t : Exp(t)' = Exp(t)
    BY <2>1 DEF Exp
  <2> QED
    BY <2>1, <2>3, <2>4
<1>5. CASE UNCHANGED vars
  BY <1>5 DEF vars, redisVars, tokenVars, historyVars, Exp
<1> QED
  BY <1>1, <1>2, <1>3, <1>4, <1>5 DEF Next

\* A token that Logout has blacklisted is refused until its exp, whatever Redis
\* expires in between.
THEOREM LoggedOutStaysRefused == Spec => []LoggedOutRefused
<1>1. Init => SessionTypes /\ OutInv
  BY SessionAssumption DEF Init, SessionTypes, OutInv, Requests, Labels, Idle, Request, Kinds
<1>2. SessionTypes /\ OutInv => LoggedOutRefused
  <2> SUFFICES ASSUME SessionTypes, OutInv, NEW t \in out, now < Exp(t) PROVE ~ParseToken(t)
    BY DEF LoggedOutRefused
  <2>1. Exp(t) \in Nat /\ now \in Nat /\ black[t] \in Nat
    BY ExpIsTime DEF OutInv, SessionTypes
  <2>2. black[t] >= Exp(t)
    BY <2>1 DEF OutInv
  <2> QED
    BY <2>1, <2>2 DEF ParseToken
<1> QED
  BY <1>1, <1>2, TypesStep, OutStep, PTL DEF Spec
----------------------------------------------------------------------------
(* Access to private rooms.                                                *)

RoomPairs == Rooms \X Users
GuestRequests ==
    [pc : Access!Steps, for : Access!Purposes, room : Rooms, user : Users, right : BOOLEAN]
AccessRequests ==
    {Access!NoReq} \union GuestRequests \union [pc : {"close"}, room : Rooms]

\* What the proofs need of the types.
AccessTypes ==
    /\ accessNow \in Nat \ {0}
    /\ access \in [Rooms -> SUBSET Users] /\ expiry \in [Rooms -> Nat]
    /\ member \subseteq RoomPairs /\ token \in [RoomPairs -> Nat]
    /\ accessReq \in [Reqs -> AccessRequests]
    /\ grant \in [RoomPairs -> Nat] /\ closed \in [Rooms -> Nat]

\* The set of a room's grants does not expire before the last of them, and its keys
\* are deleted only once the row is gone, which never comes back.
GrantInv ==
    /\ \A r \in Rooms : r \in db <=> closed[r] = 0
    /\ \A q \in Reqs : accessReq[q].pc = "close" => accessReq[q].room \notin db
    /\ \A p \in RoomPairs : grant[p] <= accessNow
    /\ \A p \in RoomPairs : p[1] \in db /\ grant[p] # 0 /\ accessNow < grant[p] + GrantTTL =>
            p[2] \in access[p[1]] /\ expiry[p[1]] >= grant[p] + GrantTTL

\* No token outlives its TTL, counted from now in an open room and from its closing
\* in a closed one.
TokenInv ==
    \A p \in RoomPairs :
        \/ p \in lateTokens
        \/ token[p] <= (IF closed[p[1]] = 0 THEN accessNow ELSE closed[p[1]]) + TokenTTL

\* A request in progress for a room that is gone had loaded it before.
OverInv ==
    \A q \in Reqs :
        accessReq[q].pc \in Access!Steps /\ closed[accessReq[q].room] # 0 => q \in overtaken

\* A request that is in progress, other than a closing, names a room and a user.
LEMMA RequestInProgress ==
  ASSUME AccessTypes, NEW q \in Reqs, accessReq[q].pc \in Access!Steps
  PROVE  accessReq[q] \in GuestRequests
BY DEF AccessTypes, AccessRequests, GuestRequests, Access!NoReq, Access!Steps

\* A request that goes on stays a request.
LEMMA GotoKeepsTypes ==
  ASSUME AccessTypes, NEW q \in Reqs, accessReq[q] \in GuestRequests,
         NEW label \in Access!Steps, Access!Goto(q, label)
  PROVE  accessReq' \in [Reqs -> AccessRequests]
<1>1. [accessReq[q] EXCEPT !.pc = label] \in GuestRequests
  BY DEF GuestRequests
<1>2. accessReq' = [accessReq EXCEPT ![q] = [accessReq[q] EXCEPT !.pc = label]]
  BY DEF Access!Goto
<1> QED
  BY <1>1, <1>2 DEF AccessTypes, AccessRequests

\* The state of RoomAccess has the types above in every reachable state.
LEMMA AccessTypesStep == AccessTypes /\ [Access!Next]_(Access!vars) => AccessTypes'
<1> SUFFICES ASSUME AccessTypes, [Access!Next]_(Access!vars) PROVE AccessTypes'
  OBVIOUS
<1> USE AccountsAssumption DEF Access!AccessAssumption
<1> USE DEF AccessTypes, RoomPairs, Access!roomVars, Access!historyVars
<1>1. CASE Access!Tick
  BY <1>1 DEF Access!Tick
<1>2. ASSUME NEW p \in Access!Pairs, Access!Leave(p) PROVE AccessTypes'
  BY <1>2 DEF Access!Leave
<1>3. ASSUME NEW q \in Reqs, NEW purpose \in Access!Purposes, NEW p \in Access!Pairs,
             NEW right \in BOOLEAN, Access!Begin(q, purpose, p[1], p[2], right)
      PROVE  AccessTypes'
  BY <1>3 DEF Access!Begin, Access!Pairs, AccessRequests, GuestRequests, Access!Steps
<1>4. ASSUME NEW q \in Reqs, Access!HasRoomAccess(q) PROVE AccessTypes'
  <2>1. accessReq[q] \in GuestRequests
    BY <1>4, RequestInProgress DEF Access!HasRoomAccess, Access!Steps
  <2>2. accessReq' \in [Reqs -> AccessRequests]
    BY <1>4, <2>1, GotoKeepsTypes DEF Access!HasRoomAccess, Access!Steps
  <2> QED
    BY <1>4, <2>2 DEF Access!HasRoomAccess
<1>5. ASSUME NEW q \in Reqs, Access!CheckPassword(q) PROVE AccessTypes'
  <2>1. accessReq[q] \in GuestRequests
    BY <1>5, RequestInProgress DEF Access!CheckPassword, Access!Steps
  <2>2. accessReq' \in [Reqs -> AccessRequests]
    BY <1>5, <2>1, GotoKeepsTypes DEF Access!CheckPassword, Access!Steps, Access!End, AccessRequests
  <2> QED
    BY <1>5, <2>2 DEF Access!CheckPassword
<1>6. ASSUME NEW q \in Reqs, Access!GrantRoomAccess(q) PROVE AccessTypes'
  <2>1. accessReq[q] \in GuestRequests
    BY <1>6, RequestInProgress DEF Access!GrantRoomAccess, Access!Steps
  <2>2. accessReq' \in [Reqs -> AccessRequests]
    BY <1>6, <2>1, GotoKeepsTypes DEF Access!GrantRoomAccess, Access!Steps
  <2>3. /\ access' \in [Rooms -> SUBSET Users] /\ expiry' \in [Rooms -> Nat]
        /\ grant' \in [RoomPairs -> Nat]
    BY <1>6, <2>1 DEF Access!GrantRoomAccess, Access!Pair, GuestRequests
  <2> QED
    BY <1>6, <2>2, <2>3 DEF Access!GrantRoomAccess
<1>7. ASSUME NEW q \in Reqs, Access!GrantFails(q) PROVE AccessTypes'
  <2>1. accessReq[q] \in GuestRequests
    BY <1>7, RequestInProgress DEF Access!GrantFails, Access!Steps
  <2>2. accessReq' \in [Reqs -> AccessRequests]
    BY <1>7, <2>1, GotoKeepsTypes DEF Access!GrantFails, Access!Steps
  <2> QED
    BY <1>7, <2>2 DEF Access!GrantFails
<1>8. ASSUME NEW q \in Reqs, Access!Pass(q) PROVE AccessTypes'
  <2>1. accessReq[q] \in GuestRequests
    BY <1>8, RequestInProgress DEF Access!Pass, Access!Steps
  <2> QED
    <3>1. Access!Pair(q) \in RoomPairs
      BY <2>1 DEF Access!Pair, GuestRequests
    <3>2. accessNow + TokenTTL \in Nat
      OBVIOUS
    <3>3. member' \subseteq RoomPairs /\ token' \in [RoomPairs -> Nat]
      <4> HIDE DEF RoomPairs
      <4> QED
        BY <1>8, <3>1, <3>2 DEF Access!Pass
    <3>4. accessReq' \in [Reqs -> AccessRequests]
      BY <1>8 DEF Access!Pass, Access!End, AccessRequests
    <3> QED
      BY <1>8, <3>3, <3>4 DEF Access!Pass
<1>9. ASSUME NEW q \in Reqs, NEW r \in Rooms, Access!DeleteRow(q, r) PROVE AccessTypes'
  BY <1>9 DEF Access!DeleteRow, AccessRequests
<1>10. ASSUME NEW q \in Reqs, Access!DeleteKeys(q) PROVE AccessTypes'
  BY <1>10 DEF Access!DeleteKeys, Access!End, AccessRequests
<1>11. ASSUME NEW q \in Reqs, Access!HangUp(q) PROVE AccessTypes'
  BY <1>11 DEF Access!HangUp, Access!End, AccessRequests
<1>12. CASE UNCHANGED Access!vars
  BY <1>12 DEF Access!vars
<1> QED
  BY <1>1, <1>2, <1>3, <1>4, <1>5, <1>6, <1>7, <1>8, <1>9, <1>10, <1>11, <1>12
     DEF Access!Next, Access!Step
\* Only whoever manages the room or has shown its password gets anywhere.
LEMMA EarnedStep ==
  AccessTypes /\ Access!AccessEarned /\ [Access!Next]_(Access!vars) => Access!AccessEarned'
<1> SUFFICES ASSUME AccessTypes, Access!AccessEarned, [Access!Next]_(Access!vars)
             PROVE  Access!AccessEarned'
  OBVIOUS
<1> DEFINE Earned == Manages \union shown
           AtDoor(q) == accessReq[q].pc \in {"grant", "pass"}
<1> USE DEF Access!Pairs, Access!roomVars, Access!historyVars
<1>0. /\ \A p \in RoomPairs : p \in member \/ token[p] # 0 \/ p[2] \in access[p[1]] => p \in Earned
      /\ \A q \in Reqs : AtDoor(q) => Access!Pair(q) \in Earned
  <2>1. \A q \in Reqs : AtDoor(q) => Access!Pair(q) \in RoomPairs
    BY RequestInProgress DEF Access!Steps, GuestRequests, Access!Pair, RoomPairs
  <2> QED
    BY <2>1 DEF Access!AccessEarned, RoomPairs
<1> SUFFICES /\ \A p \in RoomPairs :
                   p \in member' \/ token'[p] # 0 \/ p[2] \in access'[p[1]] => p \in Earned'
             /\ \A q \in Reqs : AtDoor(q)' => (Access!Pair(q) \in Earned)'
  BY DEF Access!AccessEarned, RoomPairs
<1> HIDE DEF Earned
<1>1. CASE Access!Tick
  BY <1>0, <1>1 DEF Access!Tick, AccessTypes, RoomPairs, Earned, Access!Pair
<1>2. ASSUME NEW p \in Access!Pairs, Access!Leave(p)
      PROVE  /\ member' \subseteq member /\ UNCHANGED <<token, access, accessReq, shown>>
  BY <1>2 DEF Access!Leave
<1>3. ASSUME NEW q \in Reqs, NEW purpose \in Access!Purposes, NEW p \in Access!Pairs,
             NEW right \in BOOLEAN, Access!Begin(q, purpose, p[1], p[2], right)
      PROVE  /\ UNCHANGED <<member, token, access, shown>>
             /\ \A r \in Reqs : AtDoor(r)' => (Access!Pair(r) \in Earned)'
  BY <1>0, <1>3 DEF Access!Begin, AccessTypes, Access!Pair, Earned
<1>4. ASSUME NEW q \in Reqs, Access!HasRoomAccess(q)
      PROVE  /\ UNCHANGED <<member, token, access, shown>>
             /\ \A r \in Reqs : AtDoor(r)' => (Access!Pair(r) \in Earned)'
  <2>1. accessReq[q] \in GuestRequests
    BY <1>4, RequestInProgress DEF Access!HasRoomAccess, Access!Steps
  <2>2. Access!Pair(q) \in RoomPairs /\ Access!Pair(q)[1] = accessReq[q].room
        /\ Access!Pair(q)[2] = accessReq[q].user
    BY <2>1 DEF GuestRequests, Access!Pair, RoomPairs
  <2>3. \/ Access!Pair(q) \in Earned /\ Access!Goto(q, "pass")
        \/ Access!Goto(q, "password")
    BY <1>0, <1>4, <2>2 DEF Access!HasRoomAccess
  <2>4. UNCHANGED <<member, token, access, shown>>
    BY <1>4 DEF Access!HasRoomAccess
  <2> QED
    BY <1>0, <2>1, <2>3, <2>4 DEF Access!Goto, AccessTypes, Access!Pair, Earned, GuestRequests
<1>5. ASSUME NEW q \in Reqs, Access!CheckPassword(q)
      PROVE  /\ UNCHANGED <<member, token, access>> /\ Earned \subseteq Earned'
             /\ \A r \in Reqs : AtDoor(r)' => (Access!Pair(r) \in Earned)'
  <2>1. accessReq[q] \in GuestRequests
    BY <1>5, RequestInProgress DEF Access!CheckPassword, Access!Steps
  <2> QED
    BY <1>0, <1>5, <2>1 DEF Access!CheckPassword, Access!Goto, Access!End, Access!NoReq,
                            AccessTypes, Access!Pair, Earned, GuestRequests
<1>6. ASSUME NEW q \in Reqs, Access!GrantRoomAccess(q)
      PROVE  /\ \A p \in RoomPairs :
                   p \in member' \/ token'[p] # 0 \/ p[2] \in access'[p[1]] => p \in Earned'
             /\ \A r \in Reqs : AtDoor(r)' => (Access!Pair(r) \in Earned)'
  <2>1. accessReq[q] \in GuestRequests
    BY <1>6, RequestInProgress DEF Access!GrantRoomAccess, Access!Steps
  <2>2. UNCHANGED <<member, token, shown>>
    BY <1>6 DEF Access!GrantRoomAccess
  <2>3. \A p \in RoomPairs : p[2] \in access'[p[1]] => p[2] \in access[p[1]] \/ p = Access!Pair(q)
    BY <1>6, <2>1 DEF Access!GrantRoomAccess, AccessTypes, GuestRequests, Access!Pair, RoomPairs
  <2>4. Access!Pair(q) \in Earned
    BY <1>0, <1>6 DEF Access!GrantRoomAccess
  <2> QED
    BY <1>0, <1>6, <2>1, <2>2, <2>3, <2>4
       DEF Access!GrantRoomAccess, Access!Goto, AccessTypes, Access!Pair, Earned, GuestRequests
<1>7. ASSUME NEW q \in Reqs, Access!GrantFails(q)
      PROVE  /\ UNCHANGED <<member, token, access, shown>>
             /\ \A r \in Reqs : AtDoor(r)' => (Access!Pair(r) \in Earned)'
  <2>1. accessReq[q] \in GuestRequests
    BY <1>7, RequestInProgress DEF Access!GrantFails, Access!Steps
  <2> QED
    BY <1>0, <1>7, <2>1 DEF Access!GrantFails, Access!Goto, AccessTypes, Access!Pair, Earned,
                            GuestRequests
<1>8. ASSUME NEW q \in Reqs, Access!Pass(q)
      PROVE  /\ \A p \in RoomPairs :
                   p \in member' \/ token'[p] # 0 \/ p[2] \in access'[p[1]] => p \in Earned'
             /\ \A r \in Reqs : AtDoor(r)' => (Access!Pair(r) \in Earned)'
  <2>1. Access!Pair(q) \in Earned
    BY <1>0, <1>8 DEF Access!Pass
  <2>2. UNCHANGED <<access, shown>> /\ member' \subseteq member \union {Access!Pair(q)}
        /\ accessReq' = [accessReq EXCEPT ![q] = Access!NoReq]
    BY <1>8 DEF Access!Pass, Access!End
  <2>3. \A p \in RoomPairs : token'[p] = token[p] \/ p = Access!Pair(q)
    BY <1>8 DEF Access!Pass, AccessTypes
  <2> QED
    BY <1>0, <2>1, <2>2, <2>3 DEF AccessTypes, Access!NoReq, Access!Pair, Earned
<1>9. ASSUME NEW q \in Reqs, NEW r \in Rooms, Access!DeleteRow(q, r)
      PROVE  /\ UNCHANGED <<member, token, access, shown>>
             /\ \A p \in Reqs : AtDoor(p)' => (Access!Pair(p) \in Earned)'
  BY <1>0, <1>9 DEF Access!DeleteRow, AccessTypes, Access!Pair, Earned
<1>10. ASSUME NEW q \in Reqs, Access!DeleteKeys(q)
       PROVE  /\ UNCHANGED <<token, shown>> /\ member' \subseteq member
              /\ \A r \in Rooms : access'[r] \subseteq access[r]
              /\ \A r \in Reqs : AtDoor(r)' => (Access!Pair(r) \in Earned)'
  BY <1>0, <1>10 DEF Access!DeleteKeys, Access!End, Access!NoReq, AccessTypes, Access!Pair, Earned
<1>11. ASSUME NEW q \in Reqs, Access!HangUp(q)
       PROVE  /\ UNCHANGED <<member, token, access, shown>>
              /\ \A r \in Reqs : AtDoor(r)' => (Access!Pair(r) \in Earned)'
  BY <1>0, <1>11 DEF Access!HangUp, Access!End, Access!NoReq, AccessTypes, Access!Pair, Earned
<1>12. CASE UNCHANGED Access!vars
  BY <1>0, <1>12 DEF Access!vars, Earned, Access!Pair
<1>13. CASE \E p \in Access!Pairs : Access!Leave(p)
  BY <1>0, <1>2, <1>13 DEF Earned, Access!Pair
<1>14. CASE \E q \in Reqs : \/ Access!DeleteKeys(q) \/ Access!CheckPassword(q) \/ Access!HangUp(q)
                             \/ Access!HasRoomAccess(q) \/ Access!GrantFails(q)
                             \/ \E r \in Rooms : Access!DeleteRow(q, r)
                             \/ \E purpose \in Access!Purposes, p \in Access!Pairs, right \in BOOLEAN :
                                   Access!Begin(q, purpose, p[1], p[2], right)
  <2>1. /\ member' \subseteq member /\ UNCHANGED token /\ Earned \subseteq Earned'
        /\ \A r \in Rooms : access'[r] \subseteq access[r]
        /\ \A r \in Reqs : AtDoor(r)' => (Access!Pair(r) \in Earned)'
    BY <1>3, <1>4, <1>5, <1>7, <1>9, <1>10, <1>11, <1>14 DEF Earned
  <2> QED
    BY <1>0, <2>1 DEF RoomPairs
<1>15. CASE \E q \in Reqs : Access!GrantRoomAccess(q) \/ Access!Pass(q)
  BY <1>6, <1>8, <1>15
<1> QED
  BY <1>1, <1>12, <1>13, <1>14, <1>15 DEF Access!Next, Access!Step
\* In an open room nobody's grant ends before its TTL.
LEMMA GrantStep ==
  AccessTypes /\ GrantInv /\ [Access!Next]_(Access!vars) => GrantInv'
<1> SUFFICES ASSUME AccessTypes, GrantInv, [Access!Next]_(Access!vars) PROVE GrantInv'
  OBVIOUS
<1> USE AccountsAssumption DEF Access!AccessAssumption
<1> USE DEF GrantInv, Access!roomVars, Access!historyVars
<1>0. /\ accessNow \in Nat \ {0} /\ GrantTTL \in Nat
      /\ \A p \in RoomPairs : p[1] \in Rooms /\ p[2] \in Users /\ p = <<p[1], p[2]>> /\ grant[p] \in Nat
      /\ \A r \in Rooms : expiry[r] \in Nat
  BY DEF AccessTypes, RoomPairs
<1>1. CASE Access!Tick
  <2>1. UNCHANGED <<db, accessReq, grant, closed>> /\ accessNow' = accessNow + 1
    BY <1>1 DEF Access!Tick
  <2>2. \A r \in Rooms : accessNow + 1 < expiry[r] =>
          access'[r] = access[r] /\ expiry'[r] = expiry[r]
    BY <1>0, <1>1 DEF Access!Tick
  <2>3. ASSUME NEW p \in RoomPairs, p[1] \in db, grant[p] # 0, accessNow + 1 < grant[p] + GrantTTL
        PROVE  p[2] \in access'[p[1]] /\ expiry'[p[1]] >= grant[p] + GrantTTL
    <3>1. p[2] \in access[p[1]] /\ expiry[p[1]] >= grant[p] + GrantTTL
      BY <1>0, <2>3
    <3>2. accessNow + 1 < expiry[p[1]]
      BY <1>0, <2>3, <3>1
    <3> QED
      BY <1>0, <2>2, <3>1, <3>2
  <2>4. \A p \in RoomPairs : grant[p] <= accessNow + 1
    BY <1>0
  <2> QED
    BY <2>1, <2>3, <2>4
<1>2. ASSUME NEW q \in Reqs, Access!GrantRoomAccess(q) PROVE GrantInv'
  <2> DEFINE r == accessReq[q].room
             u == accessReq[q].user
  <2>1. accessReq[q] \in GuestRequests
    BY <1>2, RequestInProgress DEF Access!GrantRoomAccess, Access!Steps
  <2>2. r \in Rooms /\ u \in Users /\ <<r, u>> \in RoomPairs
    BY <2>1 DEF GuestRequests, RoomPairs
  <2>3. /\ access' = [access EXCEPT ![r] = @ \union {u}]
        /\ expiry' = [expiry EXCEPT ![r] = accessNow + GrantTTL]
        /\ grant' = [grant EXCEPT ![<<r, u>>] = accessNow]
        /\ UNCHANGED <<accessNow, db, closed>>
    BY <1>2 DEF Access!GrantRoomAccess, Access!Pair
  <2>4. \A c \in Reqs : accessReq'[c].pc = "close" => accessReq'[c].room \notin db
    BY <1>2, <2>1 DEF Access!GrantRoomAccess, Access!Goto, AccessTypes, GuestRequests
  <2> HIDE DEF r, u
  <2>5. ASSUME NEW p \in RoomPairs
        PROVE  /\ grant'[p] <= accessNow
               /\ p[1] \in db /\ grant'[p] # 0 /\ accessNow < grant'[p] + GrantTTL =>
                    p[2] \in access'[p[1]] /\ expiry'[p[1]] >= grant'[p] + GrantTTL
    <3>1. CASE p = <<r, u>>
      <4>1. grant'[p] = accessNow
        BY <2>2, <2>3, <3>1 DEF AccessTypes
      <4>2. p[1] = r /\ p[2] = u /\ u \in access'[r] /\ expiry'[r] = accessNow + GrantTTL
        BY <2>2, <2>3, <3>1 DEF AccessTypes
      <4> QED
        BY <1>0, <4>1, <4>2
    <3>2. CASE p # <<r, u>>
      <4>1. grant'[p] = grant[p] /\ grant[p] <= accessNow
        BY <2>3, <3>2 DEF AccessTypes
      <4>2. access[p[1]] \subseteq access'[p[1]]
        BY <1>0, <2>3 DEF AccessTypes
      <4>3. expiry'[p[1]] = expiry[p[1]] \/ expiry'[p[1]] = accessNow + GrantTTL
        BY <1>0, <2>3 DEF AccessTypes
      <4> QED
        BY <1>0, <4>1, <4>2, <4>3
    <3> QED
      BY <3>1, <3>2
  <2> QED
    BY <2>3, <2>4, <2>5
<1>3. ASSUME NEW q \in Reqs, NEW r \in Rooms, Access!DeleteRow(q, r) PROVE GrantInv'
  <2>1. /\ r \in db /\ db' = db \ {r} /\ closed' = [closed EXCEPT ![r] = accessNow]
        /\ accessReq' = [accessReq EXCEPT ![q] = [pc |-> "close", room |-> r]]
        /\ UNCHANGED <<accessNow, access, expiry, grant>>
    BY <1>3 DEF Access!DeleteRow
  <2>2. \A c \in Rooms : c \in db' <=> closed'[c] = 0
    BY <1>0, <2>1 DEF AccessTypes
  <2>3. \A c \in Reqs : accessReq'[c].pc = "close" => accessReq'[c].room \notin db'
    BY <2>1 DEF AccessTypes
  <2> QED
    BY <2>1, <2>2, <2>3
<1>4. ASSUME NEW q \in Reqs, Access!DeleteKeys(q) PROVE GrantInv'
  <2>1. accessReq[q].room \notin db
    BY <1>4 DEF Access!DeleteKeys
  <2>2. \A r \in db \cap Rooms : access'[r] = access[r] /\ expiry'[r] = expiry[r]
    BY <1>4, <2>1 DEF Access!DeleteKeys, AccessTypes
  <2>3. /\ accessReq' = [accessReq EXCEPT ![q] = Access!NoReq]
        /\ UNCHANGED <<accessNow, db, grant, closed>>
    BY <1>4 DEF Access!DeleteKeys, Access!End
  <2> QED
    BY <1>0, <2>2, <2>3 DEF AccessTypes, Access!NoReq
<1>5. ASSUME NEW q \in Reqs,
             Access!HasRoomAccess(q) \/ Access!CheckPassword(q) \/ Access!GrantFails(q)
             \/ Access!Pass(q) \/ Access!HangUp(q)
      PROVE  GrantInv'
  <2>1. UNCHANGED <<accessNow, db, access, expiry, grant, closed>>
    BY <1>5 DEF Access!HasRoomAccess, Access!CheckPassword, Access!GrantFails, Access!Pass, Access!HangUp
  <2>2. accessReq[q].pc \in Access!Steps
    BY <1>5 DEF Access!HasRoomAccess, Access!CheckPassword, Access!GrantFails, Access!Pass,
                Access!HangUp, Access!Steps
  <2>3. \/ \E label \in Access!Steps : Access!Goto(q, label)
        \/ Access!End(q)
    BY <1>5 DEF Access!HasRoomAccess, Access!CheckPassword, Access!GrantFails, Access!Pass,
                Access!HangUp, Access!Steps
  <2>4. accessReq[q] \in GuestRequests
    BY <2>2, RequestInProgress
  <2>5. \A c \in Reqs : accessReq'[c].pc = "close" => accessReq'[c].room \notin db
    BY <2>3, <2>4 DEF Access!Goto, Access!End, Access!NoReq, Access!Steps, AccessTypes, GuestRequests
  <2> QED
    BY <2>1, <2>5
<1>6. ASSUME NEW p \in Access!Pairs, Access!Leave(p) PROVE GrantInv'
  BY <1>6 DEF Access!Leave
<1>7. ASSUME NEW q \in Reqs, NEW purpose \in Access!Purposes, NEW p \in Access!Pairs,
             NEW right \in BOOLEAN, Access!Begin(q, purpose, p[1], p[2], right)
      PROVE  GrantInv'
  BY <1>7 DEF Access!Begin, AccessTypes
<1>8. CASE UNCHANGED Access!vars
  BY <1>8 DEF Access!vars
<1> QED
  BY <1>1, <1>2, <1>3, <1>4, <1>5, <1>6, <1>7, <1>8 DEF Access!Next, Access!Step

\* A request loads a room that is there, and is known when the row goes meanwhile.
LEMMA OverStep ==
  AccessTypes /\ GrantInv /\ OverInv /\ [Access!Next]_(Access!vars) => OverInv'
<1> SUFFICES ASSUME AccessTypes, GrantInv, OverInv, [Access!Next]_(Access!vars) PROVE OverInv'
  OBVIOUS
<1> USE DEF OverInv, Access!roomVars, Access!historyVars
<1>1. ASSUME NEW q \in Reqs, NEW purpose \in Access!Purposes, NEW p \in Access!Pairs,
             NEW right \in BOOLEAN, Access!Begin(q, purpose, p[1], p[2], right)
      PROVE  OverInv'
  <2>1. /\ p[1] \in Rooms /\ p[1] \in db /\ UNCHANGED <<closed, overtaken>>
        /\ \A x \in Reqs \ {q} : accessReq'[x] = accessReq[x]
        /\ accessReq'[q].room = p[1]
    BY <1>1 DEF Access!Begin, Access!Pairs, AccessTypes
  <2>2. closed[p[1]] = 0
    BY <2>1 DEF GrantInv
  <2> QED
    BY <2>1, <2>2
<1>2. ASSUME NEW q \in Reqs, NEW r \in Rooms, Access!DeleteRow(q, r) PROVE OverInv'
  <2>1. /\ closed' = [closed EXCEPT ![r] = accessNow]
        /\ overtaken' = overtaken \union {x \in Reqs : accessReq[x].pc \in Access!Steps /\ accessReq[x].room = r}
        /\ \A x \in Reqs \ {q} : accessReq'[x] = accessReq[x]
        /\ accessReq'[q].pc = "close"
    BY <1>2 DEF Access!DeleteRow, AccessTypes
  <2>2. accessReq'[q].pc \notin Access!Steps
    BY <2>1 DEF Access!Steps
  <2>3. ASSUME NEW x \in Reqs \ {q}, accessReq[x].pc \in Access!Steps, closed'[accessReq[x].room] # 0
        PROVE  x \in overtaken'
    BY <2>1, <2>3 DEF AccessTypes
  <2> QED
    BY <2>1, <2>2, <2>3
<1>3. ASSUME NEW q \in Reqs, NEW label \in Access!Steps, Access!Goto(q, label), accessReq[q].pc \in Access!Steps,
             closed' = closed
      PROVE  OverInv'
  <2>1. /\ overtaken' = overtaken /\ \A x \in Reqs \ {q} : accessReq'[x] = accessReq[x]
        /\ accessReq'[q] = [accessReq[q] EXCEPT !.pc = label]
    BY <1>3 DEF Access!Goto, AccessTypes
  <2>2. accessReq[q] \in GuestRequests
    BY <1>3, RequestInProgress
  <2>3. accessReq'[q].room = accessReq[q].room
    BY <2>1, <2>2 DEF GuestRequests
  <2> QED
    BY <1>3, <2>1, <2>3
<1>4. ASSUME NEW q \in Reqs, Access!End(q), closed' = closed PROVE OverInv'
  <2>1. /\ overtaken' = overtaken \ {q} /\ \A x \in Reqs \ {q} : accessReq'[x] = accessReq[x]
        /\ accessReq'[q].pc \notin Access!Steps
    BY <1>4 DEF Access!End, Access!NoReq, Access!Steps, AccessTypes
  <2> QED
    BY <1>4, <2>1
<1>5. ASSUME NEW q \in Reqs,
             Access!HasRoomAccess(q) \/ Access!CheckPassword(q) \/ Access!GrantRoomAccess(q)
             \/ Access!GrantFails(q) \/ Access!Pass(q) \/ Access!DeleteKeys(q) \/ Access!HangUp(q)
      PROVE  OverInv'
  <2>1. closed' = closed
    BY <1>5 DEF Access!HasRoomAccess, Access!CheckPassword, Access!GrantRoomAccess, Access!GrantFails,
                Access!Pass, Access!DeleteKeys, Access!HangUp
  <2>2. \/ Access!End(q)
        \/ accessReq[q].pc \in Access!Steps /\ \E label \in Access!Steps : Access!Goto(q, label)
    BY <1>5 DEF Access!HasRoomAccess, Access!CheckPassword, Access!GrantRoomAccess, Access!GrantFails,
                Access!Pass, Access!DeleteKeys, Access!HangUp, Access!Steps
  <2> QED
    BY <1>3, <1>4, <2>1, <2>2
<1>6. CASE UNCHANGED <<accessReq, overtaken, closed>>
  BY <1>6
<1>7. CASE Access!Tick \/ (\E p \in Access!Pairs : Access!Leave(p)) \/ UNCHANGED Access!vars
  BY <1>6, <1>7 DEF Access!Tick, Access!Leave, Access!vars
<1> QED
  BY <1>1, <1>2, <1>5, <1>7 DEF Access!Next, Access!Step

\* No token of a closed room outlives the TTL counted from its closing.
LEMMA TokenStep ==
  AccessTypes /\ GrantInv /\ OverInv /\ TokenInv /\ [Access!Next]_(Access!vars) => TokenInv'
<1> SUFFICES ASSUME AccessTypes, GrantInv, OverInv, TokenInv, [Access!Next]_(Access!vars) PROVE TokenInv'
  OBVIOUS
<1> USE AccountsAssumption DEF Access!AccessAssumption
<1> USE DEF TokenInv, Access!roomVars, Access!historyVars
<1>0. /\ accessNow \in Nat \ {0} /\ TokenTTL \in Nat
      /\ \A p \in RoomPairs : p[1] \in Rooms /\ token[p] \in Nat /\ closed[p[1]] \in Nat
  BY DEF AccessTypes, RoomPairs
<1>1. CASE Access!Tick
  <2>1. UNCHANGED <<token, closed, lateTokens>> /\ accessNow' = accessNow + 1
    BY <1>1 DEF Access!Tick
  <2> QED
    BY <1>0, <2>1
<1>2. ASSUME NEW q \in Reqs, Access!Pass(q) PROVE TokenInv'
  <2> DEFINE pair == Access!Pair(q)
             issues == accessReq[q].for = "token"
  <2>1. /\ token' = IF issues THEN [token EXCEPT ![pair] = accessNow + TokenTTL] ELSE token
        /\ lateTokens' = IF issues /\ q \in overtaken THEN lateTokens \union {pair} ELSE lateTokens
        /\ closed[accessReq[q].room] # 0 => q \in overtaken
        /\ UNCHANGED <<accessNow, closed>>
    BY <1>2 DEF Access!Pass, Access!Steps, OverInv
  <2>2. accessReq[q] \in GuestRequests
    BY <1>2, RequestInProgress DEF Access!Pass, Access!Steps
  <2>3. pair \in RoomPairs /\ pair[1] = accessReq[q].room
    BY <2>2 DEF GuestRequests, Access!Pair, RoomPairs
  <2> HIDE DEF pair, issues
  <2>4. ASSUME NEW p \in RoomPairs
        PROVE  \/ p \in lateTokens'
               \/ token'[p] <= (IF closed[p[1]] = 0 THEN accessNow ELSE closed[p[1]]) + TokenTTL
    <3>1. CASE issues /\ p = pair
      <4>1. token'[p] = accessNow + TokenTTL
        BY <2>1, <3>1 DEF AccessTypes
      <4> QED
        BY <1>0, <2>1, <2>3, <3>1, <4>1
    <3>2. CASE ~(issues /\ p = pair)
      <4>1. token'[p] = token[p] /\ lateTokens \subseteq lateTokens'
        BY <2>1, <3>2 DEF AccessTypes
      <4> QED
        BY <4>1
    <3> QED
      BY <3>1, <3>2
  <2> QED
    BY <2>1, <2>4
<1>3. ASSUME NEW q \in Reqs, NEW r \in Rooms, Access!DeleteRow(q, r) PROVE TokenInv'
  <2>1. /\ closed[r] = 0 /\ closed' = [closed EXCEPT ![r] = accessNow]
        /\ UNCHANGED <<accessNow, token, lateTokens>>
    BY <1>3 DEF Access!DeleteRow, GrantInv
  <2> QED
    BY <1>0, <2>1 DEF AccessTypes
<1>4. CASE UNCHANGED <<accessNow, token, closed, lateTokens>>
  BY <1>4
<1>5. ASSUME NEW q \in Reqs,
             Access!HasRoomAccess(q) \/ Access!CheckPassword(q) \/ Access!GrantRoomAccess(q)
             \/ Access!GrantFails(q) \/ Access!DeleteKeys(q) \/ Access!HangUp(q)
             \/ \E purpose \in Access!Purposes, p \in Access!Pairs, right \in BOOLEAN :
                   Access!Begin(q, purpose, p[1], p[2], right)
      PROVE  UNCHANGED <<accessNow, token, closed, lateTokens>>
  BY <1>5 DEF Access!HasRoomAccess, Access!CheckPassword, Access!GrantRoomAccess, Access!GrantFails,
              Access!DeleteKeys, Access!HangUp, Access!Begin
<1>6. CASE (\E p \in Access!Pairs : Access!Leave(p)) \/ UNCHANGED Access!vars
  BY <1>4, <1>6 DEF Access!Leave, Access!vars
<1> QED
  BY <1>1, <1>2, <1>3, <1>4, <1>5, <1>6 DEF Access!Next, Access!Step

AccessInv == AccessTypes /\ Access!AccessEarned /\ GrantInv /\ OverInv /\ TokenInv

\* AccessInv holds at the start and is kept by every step.
LEMMA AccessInvariant == Access!Spec => []AccessInv
<1>1. Access!Init => AccessInv
  <2> SUFFICES ASSUME Access!Init PROVE AccessInv
    OBVIOUS
  <2> USE AccountsAssumption DEF Access!AccessAssumption, Access!Init, Access!Pairs
  <2>1. AccessTypes
    BY DEF AccessTypes, RoomPairs, AccessRequests
  <2>2. Access!AccessEarned
    BY DEF Access!AccessEarned, Access!NoReq
  <2>3. GrantInv
    BY DEF GrantInv, Access!NoReq, RoomPairs
  <2>4. TokenInv
    BY DEF TokenInv, RoomPairs
  <2>5. OverInv
    BY DEF OverInv, Access!NoReq, Access!Steps
  <2> QED
    BY <2>1, <2>2, <2>3, <2>4, <2>5 DEF AccessInv
<1>2. AccessInv /\ [Access!Next]_(Access!vars) => AccessInv'
  BY AccessTypesStep, EarnedStep, GrantStep, OverStep, TokenStep DEF AccessInv
<1> QED
  BY <1>1, <1>2, PTL DEF Access!Spec

\* Through whatever chain of grants, expiries, kicks and rejoins, whoever is in a
\* private room or on the way in manages it or has shown its password, and keeps the
\* grant for its TTL while the room is open.
THEOREM AccessStaysEarned == Access!Spec => []AccessAsEarned
<1>1. AccessInv => AccessAsEarned
  BY DEF AccessInv, AccessAsEarned, Access!AccessAsEarned, GrantInv, Access!GrantLasts, Access!Pairs,
         RoomPairs
<1> QED
  BY <1>1, AccessInvariant, PTL

\* A token's TTL after a room was closed nobody listens on its channel any more, but
\* for tokens issued by a request that was under way when the row was deleted.
THEOREM TokensDoEnd == Access!Spec => []TokensEnd
<1>1. AccessInv => TokensEnd
  <2> SUFFICES ASSUME AccessInv, NEW p \in RoomPairs, closed[p[1]] # 0,
                      accessNow >= closed[p[1]] + TokenTTL
               PROVE  ~(accessNow < token[p]) \/ p \in lateTokens
    BY DEF TokensEnd, Access!TokensEnd, Access!Listens, Access!Pairs, RoomPairs
  <2>1. /\ accessNow \in Nat /\ token[p] \in Nat /\ closed[p[1]] \in Nat /\ TokenTTL \in Nat
    BY AccountsAssumption DEF AccessInv, AccessTypes, RoomPairs, Access!AccessAssumption
  <2> QED
    BY <2>1 DEF AccessInv, TokenInv
<1> QED
  BY <1>1, AccessInvariant, PTL
----------------------------------------------------------------------------
(* Registration.                                                           *)

SendLabels == {"look", "mail", "sent", "error"}
RegisterLabels == {"verify", "del", "byEmail", "byName", "create", "issue",
                   "ok", "invalid", "conflict", "error"}
SendRequests == [pc : SendLabels, email : Emails]
RegisterRequests == [pc : RegisterLabels, email : Emails, name : Names,
                     code : Senders \union {NoCode}, spelling : {"lower"}]

\* What the proofs need of the types: every name is stored in lower case.
RegistrationTypes ==
    /\ regReq \in [Senders \union Reqs -> {Accounts!Idle} \union SendRequests \union RegisterRequests]
    /\ \A c \in Senders : regReq[c] \in {Accounts!Idle} \union SendRequests
    /\ \A r \in Reqs : regReq[r] \in {Accounts!Idle} \union RegisterRequests
    /\ accounts \subseteq [email : Emails, name : Names, spelling : {"lower"}, by : Reqs]
    /\ codes \in [Emails -> Senders \union {NoCode}]

Made(r) == \E a \in accounts : a.by = r
Taken(r) == \E a \in accounts : a.by # r /\ (a.email = regReq[r].email \/ a.name = regReq[r].name)
Proved(r) == regReq[r].code \in DOMAIN mailed /\ mailed[regReq[r].code] = regReq[r].email

\* A code is mailed once and to one address, the store has it for that address only,
\* and it is this code that a request past Verify has shown.
CodeInv ==
    /\ \A c \in DOMAIN mailed : c \in Senders /\ regReq[c].pc = "sent"
    /\ \A e \in Emails : codes[e] # NoCode => codes[e] \in DOMAIN mailed /\ mailed[codes[e]] = e
    /\ \A r \in Reqs : regReq[r].pc \in {"del", "byEmail", "byName", "create"} => Proved(r)

\* An account's request has got past the INSERT and is what the account was made of.
AccountInv ==
    /\ Accounts!OneAccount
    /\ \A a \in accounts : /\ regReq[a.by].pc \in {"issue", "ok", "error"}
                           /\ regReq[a.by].email = a.email
                           /\ Proved(a.by)

AnswerInv ==
    /\ \A r \in Reqs : /\ regReq[r].pc \in {"issue", "ok"} => Made(r)
                       /\ regReq[r].pc = "conflict" => Taken(r)
                       /\ regReq[r].pc = "error" /\ Made(r) => r \in faulted
    /\ Accounts!ErrorHasCause

RegistrationInv == RegistrationTypes /\ CodeInv /\ AccountInv /\ AnswerInv

\* A request that goes on changes nothing but its label.
LEMMA RequestGoesOn ==
  ASSUME RegistrationTypes, NEW r \in Senders \union Reqs, regReq[r].pc # "idle", NEW label,
         Accounts!Goto(r, label)
  PROVE  /\ regReq' = [regReq EXCEPT ![r] = [regReq[r] EXCEPT !.pc = label]]
         /\ \A s \in Senders \union Reqs : s # r => regReq'[s] = regReq[s]
         /\ regReq'[r].pc = label /\ regReq'[r].email = regReq[r].email
         /\ r \in Reqs => /\ regReq'[r].name = regReq[r].name
                           /\ regReq'[r].code = regReq[r].code
                           /\ regReq'[r].spelling = regReq[r].spelling
         /\ r \in Reqs /\ label \in RegisterLabels =>
               regReq'[r] \in RegisterRequests
         /\ r \in Senders /\ label \in SendLabels => regReq'[r] \in SendRequests
<1>1. regReq[r] \in SendRequests \union RegisterRequests
  BY DEF RegistrationTypes, Accounts!Idle
<1>2. r \in Reqs => regReq[r] \in RegisterRequests
  BY DEF RegistrationTypes, Accounts!Idle
<1>3. r \in Senders => regReq[r] \in SendRequests
  BY DEF RegistrationTypes, Accounts!Idle
<1>4. regReq' = [regReq EXCEPT ![r] = [regReq[r] EXCEPT !.pc = label]]
  BY DEF Accounts!Goto
<1>5. regReq'[r] = [regReq[r] EXCEPT !.pc = label]
  BY <1>4 DEF RegistrationTypes
<1>6. \A s \in Senders \union Reqs : s # r => regReq'[s] = regReq[s]
  BY <1>4 DEF RegistrationTypes
<1>7. regReq'[r].pc = label /\ regReq'[r].email = regReq[r].email
  BY <1>1, <1>5 DEF SendRequests, RegisterRequests
<1>8. r \in Reqs => /\ regReq'[r].name = regReq[r].name
                    /\ regReq'[r].code = regReq[r].code
                    /\ regReq'[r].spelling = regReq[r].spelling
                    /\ label \in RegisterLabels => regReq'[r] \in RegisterRequests
  BY <1>2, <1>5 DEF RegisterRequests
<1>9. r \in Senders /\ label \in SendLabels => regReq'[r] \in SendRequests
  BY <1>3, <1>5 DEF SendRequests
<1> QED
  BY <1>4, <1>6, <1>7, <1>8, <1>9

\* The state of Registration has the types above in every reachable state.
LEMMA RegistrationTypesStep ==
  RegistrationTypes /\ CodeInv /\ [Accounts!Next]_(Accounts!vars) => RegistrationTypes'
<1> SUFFICES ASSUME RegistrationTypes, CodeInv, [Accounts!Next]_(Accounts!vars)
             PROVE  RegistrationTypes'
  OBVIOUS
<1> USE AccountsAssumption DEF Accounts!RegistrationAssumption
<1>1. ASSUME NEW r \in Senders \union Reqs, regReq[r].pc # "idle", NEW label, Accounts!Goto(r, label),
             r \in Senders => label \in SendLabels, r \in Reqs => label \in RegisterLabels
      PROVE  /\ regReq' \in [Senders \union Reqs ->
                              {Accounts!Idle} \union SendRequests \union RegisterRequests]
             /\ \A c \in Senders : regReq'[c] \in {Accounts!Idle} \union SendRequests
             /\ \A q \in Reqs : regReq'[q] \in {Accounts!Idle} \union RegisterRequests
  BY <1>1, RequestGoesOn DEF RegistrationTypes
<1>2. ASSUME NEW r \in Senders, Accounts!SendBegin(r) PROVE RegistrationTypes'
  BY <1>2 DEF Accounts!SendBegin, RegistrationTypes, SendRequests, SendLabels
<1>3. ASSUME NEW r \in Senders, Accounts!SendLook(r) PROVE RegistrationTypes'
  BY <1>1, <1>3 DEF Accounts!SendLook, RegistrationTypes, SendLabels
<1>4. ASSUME NEW r \in Senders, Accounts!SendMail(r) PROVE RegistrationTypes'
  <2>1. regReq[r].email \in Emails
    BY <1>4 DEF Accounts!SendMail, RegistrationTypes, SendRequests, Accounts!Idle
  <2>2. codes' \in [Emails -> Senders \union {NoCode}]
    BY <1>4, <2>1 DEF Accounts!SendMail, RegistrationTypes
  <2> QED
    BY <1>1, <1>4, <2>2 DEF Accounts!SendMail, RegistrationTypes, SendLabels
<1>5. ASSUME NEW e \in Emails, Accounts!Lapse(e) PROVE RegistrationTypes'
  BY <1>5 DEF Accounts!Lapse, RegistrationTypes
<1>6. ASSUME NEW r \in Reqs, Accounts!RegisterBegin(r) PROVE RegistrationTypes'
  <2>1. PICK e \in Emails, n \in Names, s \in Accounts!Spellings, c \in DOMAIN mailed \union {NoCode} :
          regReq' = [regReq EXCEPT ![r] = [pc |-> "verify", email |-> e, name |-> n, code |-> c,
                                           spelling |-> "lower"]]
    BY <1>6 DEF Accounts!RegisterBegin, Accounts!normalizeUsername
  <2>2. [pc |-> "verify", email |-> e, name |-> n, code |-> c, spelling |-> "lower"]
          \in RegisterRequests
    BY DEF CodeInv, RegisterRequests, RegisterLabels
  <2> QED
    BY <1>6, <2>1, <2>2 DEF Accounts!RegisterBegin, RegistrationTypes
<1>7. ASSUME NEW r \in Reqs, Accounts!Verify(r) \/ Accounts!ByEmail(r) \/ Accounts!ByName(r)
                             \/ Accounts!Issue(r)
      PROVE  RegistrationTypes'
  BY <1>1, <1>7 DEF Accounts!Verify, Accounts!ByEmail, Accounts!ByName, Accounts!Issue,
                    RegistrationTypes, RegisterLabels
<1>8. ASSUME NEW r \in Reqs, Accounts!Delete(r) PROVE RegistrationTypes'
  <2>1. codes' \in [Emails -> Senders \union {NoCode}]
    BY <1>8 DEF Accounts!Delete, RegistrationTypes
  <2> QED
    BY <1>1, <1>8, <2>1 DEF Accounts!Delete, RegistrationTypes, RegisterLabels
<1>9. ASSUME NEW r \in Reqs, Accounts!Create(r) \/ Accounts!CreateUnanswered(r)
      PROVE  RegistrationTypes'
  <2>1. regReq[r].pc = "create" /\ UNCHANGED codes
        /\ \E label \in {"conflict", "issue", "error"} : Accounts!Goto(r, label)
        /\ accounts' \in {accounts, accounts \union {Accounts!Row(r)}}
    BY <1>9 DEF Accounts!Create, Accounts!CreateUnanswered
  <2>2. regReq[r] \in RegisterRequests
    BY <2>1 DEF RegistrationTypes, Accounts!Idle
  <2>3. Accounts!Row(r) \in [email : Emails, name : Names, spelling : {"lower"}, by : Reqs]
    BY <2>2 DEF Accounts!Row, RegisterRequests
  <2> QED
    BY <1>1, <2>1, <2>3 DEF RegistrationTypes, RegisterLabels
<1>10. ASSUME NEW r \in Senders \union Reqs, Accounts!Fails(r) \/ Accounts!Refused(r)
       PROVE  RegistrationTypes'
  BY <1>1, <1>10 DEF Accounts!Fails, Accounts!Refused, Accounts!Commands, RegistrationTypes,
                     RegisterLabels, SendLabels
<1>11. CASE Accounts!Done \/ UNCHANGED Accounts!vars
  BY <1>11 DEF Accounts!Done, Accounts!vars, RegistrationTypes
<1> QED
  BY <1>2, <1>3, <1>4, <1>5, <1>6, <1>7, <1>8, <1>9, <1>10, <1>11 DEF Accounts!Next
\* No step mails a code twice, stores it for another address, or lets a request past
\* Verify without the code that was mailed to its address.
LEMMA CodeStep ==
  RegistrationInv /\ [Accounts!Next]_(Accounts!vars) => CodeInv'
<1> SUFFICES ASSUME RegistrationInv, [Accounts!Next]_(Accounts!vars) PROVE CodeInv'
  OBVIOUS
<1> USE AccountsAssumption DEF Accounts!RegistrationAssumption, RegistrationInv
<1> USE DEF CodeInv, Proved
<1>0. NoCode \notin Senders /\ \A c \in Senders : c \notin Reqs
  OBVIOUS
<1>1. ASSUME NEW r \in Senders, Accounts!SendBegin(r) PROVE CodeInv'
  BY <1>0, <1>1 DEF Accounts!SendBegin, RegistrationTypes, Accounts!Idle
<1>2. ASSUME NEW r \in Senders, Accounts!SendLook(r) PROVE CodeInv'
  BY <1>0, <1>2, RequestGoesOn DEF Accounts!SendLook
<1>3. ASSUME NEW r \in Senders, Accounts!SendMail(r) PROVE CodeInv'
  <2>1. r \notin DOMAIN mailed /\ regReq[r].email \in Emails
    BY <1>3 DEF Accounts!SendMail, RegistrationTypes, SendRequests, Accounts!Idle
  <2>2. /\ DOMAIN mailed' = DOMAIN mailed \union {r} /\ mailed'[r] = regReq[r].email
        /\ \A c \in DOMAIN mailed : mailed'[c] = mailed[c]
    BY <1>3, <2>1 DEF Accounts!SendMail
  <2>3. codes' = [codes EXCEPT ![regReq[r].email] = r]
    BY <1>3 DEF Accounts!SendMail
  <2>4. \A c \in Senders : c # r => regReq'[c] = regReq[c]
    BY <1>3, RequestGoesOn DEF Accounts!SendMail
  <2>5. regReq'[r].pc = "sent" /\ \A q \in Reqs : regReq'[q] = regReq[q]
    BY <1>0, <1>3, RequestGoesOn DEF Accounts!SendMail
  <2>6. \A e \in Emails : codes'[e] # NoCode => codes'[e] \in DOMAIN mailed' /\ mailed'[codes'[e]] = e
    BY <2>1, <2>2, <2>3 DEF RegistrationTypes
  <2> QED
    BY <1>0, <2>2, <2>4, <2>5, <2>6
<1>4. ASSUME NEW e \in Emails, Accounts!Lapse(e) PROVE CodeInv'
  BY <1>4 DEF Accounts!Lapse, RegistrationTypes
<1>5. ASSUME NEW r \in Reqs, Accounts!RegisterBegin(r) PROVE CodeInv'
  BY <1>0, <1>5 DEF Accounts!RegisterBegin, RegistrationTypes
<1>6. ASSUME NEW r \in Reqs, Accounts!Verify(r) PROVE CodeInv'
  <2>1. regReq[r] \in RegisterRequests
    BY <1>6 DEF Accounts!Verify, RegistrationTypes, Accounts!Idle
  <2>2. regReq[r].email \in Emails
    BY <2>1 DEF RegisterRequests
  <2>3. UNCHANGED <<codes, mailed>>
    BY <1>6 DEF Accounts!Verify
  <2>4. /\ regReq'[r].pc \in {"del", "invalid"} /\ regReq'[r].code = regReq[r].code
        /\ regReq'[r].email = regReq[r].email
        /\ \A s \in Senders \union Reqs : s # r => regReq'[s] = regReq[s]
    BY <1>6, RequestGoesOn DEF Accounts!Verify
  <2>5. regReq'[r].pc = "del" => codes[regReq[r].email] = regReq[r].code /\ regReq[r].code # NoCode
    BY <1>6, RequestGoesOn DEF Accounts!Verify
  <2> QED
    BY <1>0, <2>2, <2>3, <2>4, <2>5
<1>7. ASSUME NEW r \in Reqs, Accounts!Delete(r) PROVE CodeInv'
  <2>1. UNCHANGED mailed /\ \A e \in Emails : codes'[e] \in {codes[e], NoCode}
    BY <1>7 DEF Accounts!Delete, RegistrationTypes
  <2>2. /\ regReq[r].pc = "del" /\ regReq'[r].code = regReq[r].code
        /\ regReq'[r].email = regReq[r].email
        /\ \A s \in Senders \union Reqs : s # r => regReq'[s] = regReq[s]
    BY <1>7, RequestGoesOn DEF Accounts!Delete
  <2> QED
    BY <1>0, <2>1, <2>2
<1>8. ASSUME NEW r \in Reqs, Accounts!ByEmail(r) \/ Accounts!ByName(r) \/ Accounts!Issue(r)
                             \/ Accounts!Create(r) \/ Accounts!CreateUnanswered(r)
      PROVE  CodeInv'
  <2>1. UNCHANGED <<codes, mailed>>
    BY <1>8 DEF Accounts!ByEmail, Accounts!ByName, Accounts!Issue, Accounts!Create, Accounts!CreateUnanswered
  <2>2. \E label \in RegisterLabels :
          /\ Accounts!Goto(r, label) /\ regReq[r].pc # "idle"
          /\ label = "byName" => regReq[r].pc = "byEmail"
          /\ label = "create" => regReq[r].pc = "byName"
          /\ label \notin {"del", "byEmail"}
    BY <1>8 DEF Accounts!ByEmail, Accounts!ByName, Accounts!Issue, Accounts!Create,
                Accounts!CreateUnanswered, RegisterLabels
  <2> QED
    BY <1>0, <2>1, <2>2, RequestGoesOn
<1>9. ASSUME NEW r \in Senders \union Reqs, Accounts!Fails(r) \/ Accounts!Refused(r)
      PROVE  CodeInv'
  <2>1. /\ UNCHANGED <<codes, mailed>> /\ Accounts!Goto(r, "error")
        /\ regReq[r].pc # "idle" /\ regReq[r].pc # "sent"
    BY <1>9 DEF Accounts!Fails, Accounts!Refused, Accounts!Commands
  <2> QED
    BY <1>0, <2>1, RequestGoesOn
<1>10. CASE Accounts!Done \/ UNCHANGED Accounts!vars
  BY <1>10 DEF Accounts!Done, Accounts!vars
<1> QED
  BY <1>1, <1>2, <1>3, <1>4, <1>5, <1>6, <1>7, <1>8, <1>9, <1>10 DEF Accounts!Next

\* A step that adds no account keeps AccountInv, if codes stay mailed where they were
\* and requests past the INSERT stay there with the address and the code they had.
LEMMA AccountsUndisturbed ==
  ASSUME AccountInv, UNCHANGED accounts,
         \A c \in DOMAIN mailed : c \in DOMAIN mailed' /\ mailed'[c] = mailed[c],
         \A a \in accounts : /\ regReq'[a.by].pc \in {"issue", "ok", "error"}
                             /\ regReq'[a.by].email = regReq[a.by].email
                             /\ regReq'[a.by].code = regReq[a.by].code
  PROVE  AccountInv'
BY DEF AccountInv, Proved, Accounts!OneAccount

\* No step makes a second account of an address or a name, or one whose address was
\* not proved.
LEMMA AccountStep ==
  RegistrationInv /\ [Accounts!Next]_(Accounts!vars) => AccountInv'
<1> SUFFICES ASSUME RegistrationInv, [Accounts!Next]_(Accounts!vars) PROVE AccountInv'
  OBVIOUS
<1> USE AccountsAssumption DEF Accounts!RegistrationAssumption
<1>0. /\ RegistrationTypes /\ CodeInv /\ AccountInv /\ \A c \in Senders : c \notin Reqs
      /\ \A a \in accounts : a.by \in Reqs /\ a.spelling = "lower"
                             /\ regReq[a.by].pc \in {"issue", "ok", "error"}
  BY DEF RegistrationInv, RegistrationTypes, AccountInv
<1>1. ASSUME NEW r \in Senders, Accounts!SendBegin(r) \/ Accounts!SendLook(r) \/ Accounts!SendMail(r)
      PROVE  AccountInv'
  <2>1. UNCHANGED accounts /\ \A q \in Reqs : regReq'[q] = regReq[q]
    BY <1>0, <1>1, RequestGoesOn DEF Accounts!SendBegin, Accounts!SendLook, Accounts!SendMail,
                                     RegistrationTypes
  <2>2. \A c \in DOMAIN mailed : c \in DOMAIN mailed' /\ mailed'[c] = mailed[c]
    BY <1>0, <1>1 DEF Accounts!SendBegin, Accounts!SendLook, Accounts!SendMail, CodeInv
  <2> QED
    BY <1>0, <2>1, <2>2, AccountsUndisturbed
<1>2. ASSUME NEW e \in Emails, Accounts!Lapse(e) PROVE AccountInv'
  BY <1>0, <1>2, AccountsUndisturbed DEF Accounts!Lapse
<1>3. ASSUME NEW r \in Reqs, Accounts!RegisterBegin(r) PROVE AccountInv'
  <2>1. \A a \in accounts : a.by # r
    BY <1>0, <1>3 DEF Accounts!RegisterBegin, Accounts!Idle
  <2>2. UNCHANGED <<accounts, mailed>> /\ \A q \in Reqs : q # r => regReq'[q] = regReq[q]
    BY <1>0, <1>3 DEF Accounts!RegisterBegin, RegistrationTypes
  <2> QED
    BY <1>0, <2>1, <2>2, AccountsUndisturbed
<1>4. ASSUME NEW r \in Senders \union Reqs, UNCHANGED <<accounts, mailed>>, regReq[r].pc # "idle",
             NEW label, Accounts!Goto(r, label),
             regReq[r].pc \notin {"issue", "ok", "error"} \/ label \in {"ok", "error"}
      PROVE  AccountInv'
  <2>1. \A q \in Reqs : q # r => regReq'[q] = regReq[q]
    BY <1>0, <1>4, RequestGoesOn
  <2>2. r \in Reqs => /\ regReq'[r].pc = label /\ regReq'[r].email = regReq[r].email
                      /\ regReq'[r].code = regReq[r].code
    BY <1>0, <1>4, RequestGoesOn
  <2> QED
    BY <1>0, <1>4, <2>1, <2>2, AccountsUndisturbed
<1>5. ASSUME NEW r \in Reqs, Accounts!Verify(r) \/ Accounts!Delete(r) \/ Accounts!ByEmail(r)
                             \/ Accounts!ByName(r) \/ Accounts!Issue(r)
      PROVE  AccountInv'
  <2>1. /\ UNCHANGED <<accounts, mailed>> /\ regReq[r].pc # "idle"
        /\ \E label : /\ Accounts!Goto(r, label)
                      /\ regReq[r].pc \notin {"issue", "ok", "error"} \/ label = "ok"
    BY <1>5 DEF Accounts!Verify, Accounts!Delete, Accounts!ByEmail, Accounts!ByName, Accounts!Issue
  <2> QED
    BY <1>4, <2>1
<1>6. ASSUME NEW r \in Senders \union Reqs, Accounts!Fails(r) \/ Accounts!Refused(r)
      PROVE  AccountInv'
  <2>1. UNCHANGED <<accounts, mailed>> /\ regReq[r].pc # "idle" /\ Accounts!Goto(r, "error")
    BY <1>6 DEF Accounts!Fails, Accounts!Refused, Accounts!Commands
  <2> QED
    BY <1>4, <2>1
<1>7. ASSUME NEW r \in Reqs, regReq[r].pc = "create", UNCHANGED <<accounts, mailed>>,
             Accounts!Goto(r, "conflict")
      PROVE  AccountInv'
  BY <1>4, <1>7
<1>8. ASSUME NEW r \in Reqs, regReq[r].pc = "create", ~Accounts!Collides(Accounts!Row(r)),
             accounts' = accounts \union {Accounts!Row(r)}, UNCHANGED mailed,
             NEW label \in {"issue", "error"}, Accounts!Goto(r, label)
      PROVE  AccountInv'
  <2> DEFINE row == Accounts!Row(r)
  <2>1. regReq[r] \in RegisterRequests
    BY <1>0, <1>8 DEF RegistrationTypes, Accounts!Idle
  <2>2. row.email = regReq[r].email /\ row.name = regReq[r].name /\ row.spelling = "lower" /\ row.by = r
    BY <2>1 DEF Accounts!Row, RegisterRequests
  <2> HIDE DEF row
  <2>3. \A a \in accounts : a.email # row.email /\ a.name # row.name
    BY <1>0, <1>8, <2>2 DEF Accounts!Collides, row
  <2>4. Accounts!OneAccount'
    BY <1>0, <1>8, <2>3 DEF Accounts!OneAccount, AccountInv, row
  <2>5. \A q \in Reqs : q # r => regReq'[q] = regReq[q]
    BY <1>0, <1>8, RequestGoesOn
  <2>6. regReq'[r].pc = label /\ regReq'[r].email = regReq[r].email /\ regReq'[r].code = regReq[r].code
    BY <1>0, <1>8, RequestGoesOn
  <2>7. Proved(r)
    BY <1>0, <1>8 DEF CodeInv
  <2>8. ASSUME NEW a \in accounts'
        PROVE  regReq'[a.by].pc \in {"issue", "ok", "error"} /\ regReq'[a.by].email = a.email
               /\ Proved(a.by)'
    <3>1. CASE a = row
      BY <1>8, <2>2, <2>6, <2>7, <3>1 DEF Proved
    <3>2. CASE a \in accounts
      <4>1. a.by \in Reqs /\ a.by # r
        BY <1>0, <1>8, <3>2
      <4> QED
        BY <1>0, <1>8, <2>5, <3>2, <4>1 DEF AccountInv, Proved
    <3> QED
      BY <1>8, <3>1, <3>2 DEF row
  <2> QED
    BY <2>4, <2>8 DEF AccountInv
<1>9. ASSUME NEW r \in Reqs, Accounts!Create(r) \/ Accounts!CreateUnanswered(r) PROVE AccountInv'
  BY <1>7, <1>8, <1>9 DEF Accounts!Create, Accounts!CreateUnanswered
<1>10. CASE Accounts!Done \/ UNCHANGED Accounts!vars
  BY <1>0, <1>10, AccountsUndisturbed DEF Accounts!Done, Accounts!vars
<1> QED
  BY <1>1, <1>2, <1>3, <1>5, <1>6, <1>9, <1>10 DEF Accounts!Next

\* No step answers what is not so.
LEMMA AnswerStep ==
  RegistrationInv /\ [Accounts!Next]_(Accounts!vars) => AnswerInv'
<1> SUFFICES ASSUME RegistrationInv, [Accounts!Next]_(Accounts!vars) PROVE AnswerInv'
  OBVIOUS
<1> USE AccountsAssumption DEF Accounts!RegistrationAssumption
<1>0. /\ RegistrationTypes /\ AnswerInv /\ \A c \in Senders : c \notin Reqs
      /\ \A a \in accounts : a.by \in Reqs /\ regReq[a.by].pc \in {"issue", "ok", "error"}
      /\ DOMAIN regReq = Senders \union Reqs
  BY DEF RegistrationInv, RegistrationTypes, AccountInv
<1>1. ASSUME NEW r \in Senders \union Reqs, accounts \subseteq accounts', faulted \subseteq faulted',
             UNCHANGED migrated, DOMAIN regReq' = Senders \union Reqs,
             \A q \in Senders \union Reqs : q # r => regReq'[q] = regReq[q],
             \A a \in accounts' : a \in accounts \/ a.by = r,
             r \in Reqs => /\ regReq'[r].pc \in {"issue", "ok"} => Made(r)'
                           /\ regReq'[r].pc = "conflict" => Taken(r)'
                           /\ regReq'[r].pc = "error" /\ Made(r)' => r \in faulted',
             regReq'[r].pc = "error" => ~migrated \/ r \in faulted'
      PROVE  AnswerInv'
  <2>1. ASSUME NEW q \in Reqs, q # r
        PROVE  /\ regReq'[q].pc \in {"issue", "ok"} => Made(q)'
               /\ regReq'[q].pc = "conflict" => Taken(q)'
               /\ regReq'[q].pc = "error" /\ Made(q)' => q \in faulted'
    BY <1>0, <1>1, <2>1 DEF AnswerInv, Made, Taken
  <2>2. Accounts!ErrorHasCause'
    BY <1>0, <1>1 DEF AnswerInv, Accounts!ErrorHasCause
  <2> QED
    BY <1>1, <2>1, <2>2 DEF AnswerInv
<1>2. ASSUME NEW r \in Senders \union Reqs, NEW label, regReq[r].pc # "idle", Accounts!Goto(r, label)
      PROVE  /\ DOMAIN regReq' = Senders \union Reqs
             /\ \A q \in Senders \union Reqs : q # r => regReq'[q] = regReq[q]
             /\ regReq'[r].pc = label /\ regReq'[r].email = regReq[r].email
             /\ r \in Reqs => regReq'[r].name = regReq[r].name
  BY <1>0, <1>2, RequestGoesOn
<1>3. ASSUME NEW r \in Senders, Accounts!SendBegin(r) \/ Accounts!SendLook(r) \/ Accounts!SendMail(r)
      PROVE  AnswerInv'
  <2>1. UNCHANGED <<accounts, faulted, migrated>>
    BY <1>3 DEF Accounts!SendBegin, Accounts!SendLook, Accounts!SendMail
  <2>2. /\ DOMAIN regReq' = Senders \union Reqs /\ regReq'[r].pc # "error"
        /\ \A q \in Senders \union Reqs : q # r => regReq'[q] = regReq[q]
    <3>1. CASE Accounts!SendBegin(r)
      BY <1>0, <3>1 DEF Accounts!SendBegin, RegistrationTypes
    <3>2. CASE Accounts!SendLook(r) \/ Accounts!SendMail(r)
      <4>1. PICK label \in {"mail", "sent"} : Accounts!Goto(r, label)
        BY <3>2 DEF Accounts!SendLook, Accounts!SendMail
      <4>2. regReq[r].pc # "idle"
        BY <3>2 DEF Accounts!SendLook, Accounts!SendMail
      <4> QED
        BY <1>2, <4>1, <4>2
    <3> QED
      BY <1>3, <3>1, <3>2
  <2> QED
    BY <1>0, <1>1, <2>1, <2>2
<1>4. ASSUME NEW e \in Emails, Accounts!Lapse(e) PROVE AnswerInv'
  BY <1>0, <1>4 DEF Accounts!Lapse, AnswerInv, Made, Taken, Accounts!ErrorHasCause
<1>5. ASSUME NEW r \in Reqs, Accounts!RegisterBegin(r) PROVE AnswerInv'
  <2>1. UNCHANGED <<accounts, faulted, migrated>>
    BY <1>5 DEF Accounts!RegisterBegin
  <2>2. /\ DOMAIN regReq' = Senders \union Reqs /\ regReq'[r].pc = "verify"
        /\ \A q \in Senders \union Reqs : q # r => regReq'[q] = regReq[q]
    BY <1>5 DEF Accounts!RegisterBegin, RegistrationInv, RegistrationTypes
  <2> QED
    BY <1>1, <2>1, <2>2
<1>6. ASSUME NEW r \in Reqs, Accounts!Verify(r) \/ Accounts!Delete(r) \/ Accounts!ByEmail(r)
                             \/ Accounts!ByName(r) \/ Accounts!Issue(r)
      PROVE  AnswerInv'
  <2>1. UNCHANGED <<accounts, faulted, migrated>>
    BY <1>6 DEF Accounts!Verify, Accounts!Delete, Accounts!ByEmail, Accounts!ByName, Accounts!Issue
  <2>2. PICK label : /\ Accounts!Goto(r, label) /\ regReq[r].pc # "idle"
                     /\ label \notin {"error", "issue"}
                     /\ label = "ok" => regReq[r].pc = "issue"
                     /\ label = "conflict" =>
                           /\ regReq[r].pc \in {"byEmail", "byName"}
                           /\ \E a \in accounts : a.email = regReq[r].email \/ a.name = regReq[r].name
    BY <1>6 DEF Accounts!Verify, Accounts!Delete, Accounts!ByEmail, Accounts!ByName, Accounts!Issue,
                Accounts!GetByEmail, Accounts!GetByUsername
  <2>3. label = "ok" => Made(r)'
    BY <1>0, <2>1, <2>2 DEF AnswerInv, Made
  <2>4. label = "conflict" => Taken(r)'
    BY <1>0, <1>2, <2>1, <2>2 DEF Taken
  <2> QED
    BY <1>1, <1>2, <2>1, <2>2, <2>3, <2>4
<1>7. ASSUME NEW r \in Reqs, Accounts!Create(r) PROVE AnswerInv'
  <2>1. regReq[r].pc = "create" /\ UNCHANGED <<faulted, migrated>>
    BY <1>7 DEF Accounts!Create
  <2>2. CASE Accounts!Collides(Accounts!Row(r))
    <3>1. Accounts!Goto(r, "conflict") /\ UNCHANGED accounts
      BY <1>7, <2>2 DEF Accounts!Create
    <3>2. PICK a \in accounts : a.email = regReq[r].email \/ a.name = regReq[r].name
      BY <2>2 DEF Accounts!Collides, Accounts!Row
    <3>3. a.by # r
      BY <1>0, <2>1
    <3>4. Taken(r)'
      BY <1>2, <2>1, <3>1, <3>2, <3>3 DEF Taken
    <3> QED
      BY <1>1, <1>2, <2>1, <3>1, <3>4
  <2>3. CASE ~Accounts!Collides(Accounts!Row(r))
    <3>1. Accounts!Goto(r, "issue") /\ accounts' = accounts \union {Accounts!Row(r)}
      BY <1>7, <2>3 DEF Accounts!Create
    <3>2. Accounts!Row(r).by = r
      BY DEF Accounts!Row
    <3>3. Made(r)'
      BY <3>1, <3>2 DEF Made
    <3> QED
      BY <1>1, <1>2, <2>1, <3>1, <3>2, <3>3
  <2> QED
    BY <2>2, <2>3
<1>8. ASSUME NEW r \in Reqs, Accounts!CreateUnanswered(r) PROVE AnswerInv'
  <2>1. /\ accounts' = accounts \union {Accounts!Row(r)} /\ faulted' = faulted \union {r}
        /\ UNCHANGED migrated /\ Accounts!Goto(r, "error") /\ regReq[r].pc # "idle"
    BY <1>8 DEF Accounts!CreateUnanswered
  <2>2. Accounts!Row(r).by = r
    BY DEF Accounts!Row
  <2> QED
    BY <1>1, <1>2, <2>1, <2>2
<1>9. ASSUME NEW r \in Senders \union Reqs, Accounts!Fails(r) PROVE AnswerInv'
  <2>1. /\ UNCHANGED <<accounts, migrated>> /\ faulted' = faulted \union {r}
        /\ Accounts!Goto(r, "error") /\ regReq[r].pc # "idle"
    BY <1>9 DEF Accounts!Fails, Accounts!Commands
  <2> QED
    BY <1>1, <1>2, <2>1
<1>10. ASSUME NEW r \in Senders \union Reqs, Accounts!Refused(r) PROVE AnswerInv'
  <2>1. /\ UNCHANGED <<accounts, migrated, faulted>> /\ ~migrated /\ Accounts!Goto(r, "error")
        /\ regReq[r].pc \in {"look", "byEmail", "byName", "create"}
    BY <1>10 DEF Accounts!Refused, Accounts!HasEmail
  <2>2. ~Made(r)'
    BY <1>0, <2>1 DEF Made
  <2> QED
    BY <1>1, <1>2, <2>1, <2>2
<1>11. CASE Accounts!Done \/ UNCHANGED Accounts!vars
  BY <1>0, <1>11 DEF Accounts!Done, Accounts!vars, AnswerInv, Made, Taken, Accounts!ErrorHasCause
<1> QED
  BY <1>3, <1>4, <1>5, <1>6, <1>7, <1>8, <1>9, <1>10, <1>11 DEF Accounts!Next

\* However registrations interleave, fail and lose answers: no two accounts share an
\* address or a name, each address was proved by its code, and the answers are true.
THEOREM RegistrationsAreSound == Accounts!Spec => []RegistrationSound
<1>1. Accounts!Init => RegistrationInv
  BY DEF Accounts!Init, RegistrationInv, RegistrationTypes, CodeInv, AccountInv, AnswerInv,
         Accounts!Idle, Accounts!OneAccount, Accounts!ErrorHasCause, Made, Taken
<1>2. RegistrationInv /\ [Accounts!Next]_(Accounts!vars) => RegistrationInv'
  BY RegistrationTypesStep, CodeStep, AccountStep, AnswerStep DEF RegistrationInv
<1>3. RegistrationInv => RegistrationSound
  <2> SUFFICES ASSUME RegistrationInv PROVE Accounts!RegistrationSound
    BY DEF RegistrationSound
  <2>1. Accounts!AddressProved
    BY DEF Accounts!AddressProved, RegistrationInv, AccountInv, Proved
  <2>2. Accounts!AnswersTrue
    BY DEF Accounts!AnswersTrue, RegistrationInv, AccountInv, AnswerInv, Made, Taken
  <2> QED
    BY <2>1, <2>2 DEF Accounts!RegistrationSound, RegistrationInv, AccountInv, AnswerInv
<1> QED
  BY <1>1, <1>2, <1>3, PTL DEF Accounts!Spec
============================================================================
