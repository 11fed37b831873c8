---------------------------- MODULE RoomAccess -----------------------------
(***************************************************************************)
(* Who gets into a private room: canAccessRoom and the handlers of         *)
(* internal/api/room_handlers.go that call it, the grants of               *)
(* internal/cache/redis/room_access.go and the Ably tokens of              *)
(* internal/realtime/ably/jwt.go.  A grant is a member of a set that has   *)
(* one TTL for the whole room; a token is checked by Ably alone, until it  *)
(* expires.  Whether the password a client sends is right is the           *)
(* environment's choice.  Module RoomLifecycle has the other keys.         *)
(***************************************************************************)
EXTENDS Integers

CONSTANTS
    Rooms,      \* private rooms
    Users,
    Reqs,       \* requests that may be in flight at once
    Manages,    \* pairs <<room, user>>: owners, and admins in every room
    GrantTTL,   \* roomAccessKeyTTL (30 days)
    TokenTTL,   \* ABLY_JWT_TTL
    MaxTime     \* bound: the last moment of the clock

AccessAssumption ==
    /\ Manages \subseteq Rooms \X Users
    /\ {GrantTTL, TokenTTL} \subseteq Nat \ {0}
    /\ MaxTime \in Nat

VARIABLES
    now,      \* the clock of the servers, Redis and Ably
    db,       \* rooms with a row
    access,   \* access[r]: the set room:access
    expiry,   \* expiry[r]: when that key expires, 0: no such key
    member,   \* pairs <<room, user>>: presence
    token,    \* token[<<r, u>>]: when the last token of u for r expires, 0: none
    req,      \* req[q]: what a request does next
    shown,    \* history: pairs whose right password a request has shown
    grant,    \* history: grant[<<r, u>>]: when u was last granted access, 0: never
    closed,   \* history: closed[r]: when the row was deleted, 0: not yet
    over,     \* history: requests in flight whose room was deleted after they loaded it
    late      \* history: pairs whose token was issued by such a request

roomVars == <<db, access, expiry, member, token>>
historyVars == <<shown, grant, closed, late>>
vars == <<now, roomVars, req, over, historyVars>>

Pairs == Rooms \X Users
Purposes == {"join", "token", "read"}
NoReq == [pc |-> "idle"]
Steps == {"check", "password", "grant", "pass"}

Init ==
    /\ now = 1
    /\ db = Rooms
    /\ access = [r \in Rooms |-> {}] /\ expiry = [r \in Rooms |-> 0]
    /\ member = {} /\ token = [p \in Pairs |-> 0]
    /\ req = [q \in Reqs |-> NoReq]
    /\ shown = {} /\ grant = [p \in Pairs |-> 0]
    /\ closed = [r \in Rooms |-> 0] /\ over = {} /\ late = {}

Pair(q) == <<req[q].room, req[q].user>>
Goto(q, label) == req' = [req EXCEPT ![q].pc = label] /\ UNCHANGED over
End(q) == req' = [req EXCEPT ![q] = NoReq] /\ over' = over \ {q}

----------------------------------------------------------------------------
(* canAccessRoom                                                           *)

\* Slip: the room is taken from the request and not looked up.
BeginUnseen(q, purpose, r, u, right) ==
    /\ req[q] = NoReq
    /\ req' = [req EXCEPT ![q] =
          [pc |-> IF <<r, u>> \in Manages THEN "pass" ELSE "check",
           for |-> purpose, room |-> r, user |-> u, right |-> right]]
    /\ UNCHANGED <<now, roomVars, over, historyVars>>
\* loadRoom finds the room; canManageRoom passes its owner and admins.  right: the
\* request carries the room's password.
Begin(q, purpose, r, u, right) ==
    /\ req[q] = NoReq
    /\ r \in db
    /\ req' = [req EXCEPT ![q] =
          [pc |-> IF <<r, u>> \in Manages THEN "pass" ELSE "check",
           for |-> purpose, room |-> r, user |-> u, right |-> right]]
    /\ UNCHANGED <<now, roomVars, over, historyVars>>

\* Slip: any grant of the room passes.
HasRoomAccessAny(q) ==
    /\ req[q].pc = "check"
    /\ \/ access[req[q].room] # {} /\ Goto(q, "pass")
       \/ Goto(q, "password")
    /\ UNCHANGED <<now, roomVars, historyVars>>
\* HasRoomAccess: a grant passes; without one, or when Redis fails, the password decides.
HasRoomAccess(q) ==
    /\ req[q].pc = "check"
    /\ \/ req[q].user \in access[req[q].room] /\ Goto(q, "pass")
       \/ Goto(q, "password")
    /\ UNCHANGED <<now, roomVars, historyVars>>

\* CheckPassword: grant, or 403.
CheckPassword(q) ==
    /\ req[q].pc = "password"
    /\ IF req[q].right THEN Goto(q, "grant") ELSE End(q)
    /\ shown' = IF req[q].right THEN shown \union {Pair(q)} ELSE shown
    /\ UNCHANGED <<now, roomVars, grant, closed, late>>

\* GrantRoomAccess: SADD and EXPIRE in one transaction, for the set of the room.
GrantRoomAccess(q) ==
    LET r == req[q].room
    IN  /\ req[q].pc = "grant"
        /\ access' = [access EXCEPT ![r] = @ \union {req[q].user}]
        /\ expiry' = [expiry EXCEPT ![r] = now + GrantTTL]
        /\ grant' = [grant EXCEPT ![Pair(q)] = now]
        /\ Goto(q, "pass")
        /\ UNCHANGED <<now, db, member, token, shown, closed, late>>

\* GrantRoomAccess fails: the error is ignored and the request passes.
GrantFails(q) ==
    /\ req[q].pc = "grant"
    /\ Goto(q, "pass")
    /\ UNCHANGED <<now, roomVars, historyVars>>

\* The handler goes on: join enters the presence, ablyToken signs a token of the
\* room's channel, snapshot and the chat handlers only read or post.
Pass(q) ==
    /\ req[q].pc = "pass"
    /\ LET joins == req[q].for = "join"
           issues == req[q].for = "token"
           isLate == issues /\ q \in over
       IN  /\ member' = IF joins THEN member \union {Pair(q)} ELSE member
           /\ token' = IF issues THEN [token EXCEPT ![Pair(q)] = now + TokenTTL] ELSE token
           /\ late' = IF isLate THEN late \union {Pair(q)} ELSE late
    /\ End(q)
    /\ UNCHANGED <<now, db, access, expiry, shown, grant, closed>>

----------------------------------------------------------------------------
(* Leaving and closing                                                     *)

\* leave and kick: presence only; the grant and the token stay.
Leave(p) ==
    /\ p \in member
    /\ member' = member \ {p}
    /\ UNCHANGED <<now, db, access, expiry, token, req, over, historyVars>>

\* delete, and closeEmptyRoom: the row, then the keys.
DeleteRow(q, r) ==
    /\ req[q] = NoReq
    /\ r \in db
    /\ db' = db \ {r}
    /\ closed' = [closed EXCEPT ![r] = now]
    /\ over' = over \union {x \in Reqs : req[x].pc \in Steps /\ req[x].room = r}
    /\ req' = [req EXCEPT ![q] = [pc |-> "close", room |-> r]]
    /\ UNCHANGED <<now, access, expiry, member, token, shown, grant, late>>

\* DeleteRoomPresence and DeleteRoomAccess; either may fail.
DeleteKeys(q) ==
    LET r == req[q].room
    IN  /\ req[q].pc = "close"
        /\ \/ UNCHANGED member
           \/ member' = {p \in member : p[1] # r}
        /\ \/ UNCHANGED <<access, expiry>>
           \/ access' = [access EXCEPT ![r] = {}] /\ expiry' = [expiry EXCEPT ![r] = 0]
        /\ End(q)
        /\ UNCHANGED <<now, db, token, historyVars>>

\* The client hangs up and the next command fails.
HangUp(q) ==
    /\ req[q].pc \in Steps
    /\ End(q)
    /\ UNCHANGED <<now, roomVars, historyVars>>

\* The clock advances and Redis drops the sets that have expired.
Tick ==
    LET Gone(r) == now + 1 >= expiry[r]
    IN  /\ now < MaxTime
        /\ now' = now + 1
        /\ access' = [r \in Rooms |-> IF Gone(r) THEN {} ELSE access[r]]
        /\ expiry' = [r \in Rooms |-> IF Gone(r) THEN 0 ELSE expiry[r]]
        /\ UNCHANGED <<db, member, token, req, over, historyVars>>

Step(q) ==
    \/ HasRoomAccess(q) \/ CheckPassword(q)
    \/ GrantRoomAccess(q) \/ GrantFails(q) \/ Pass(q)

Next ==
    \/ Tick
    \/ \E p \in Pairs : Leave(p)
    \/ \E q \in Reqs :
        \/ Step(q) \/ DeleteKeys(q) \/ HangUp(q)
        \/ \E r \in Rooms : DeleteRow(q, r)
        \/ \E purpose \in Purposes, p \in Pairs, right \in BOOLEAN :
              Begin(q, purpose, p[1], p[2], right)

Spec == Init /\ [][Next]_vars

----------------------------------------------------------------------------
(* Properties                                                              *)

\* Whoever is a member, holds a token or a grant, or has a request past the check,
\* manages the room or has once shown its password, through whatever chain
\* of grants, expiries, kicks and rejoins.
AccessEarned ==
    \A p \in Pairs :
        \/ p \in member
        \/ token[p] # 0
        \/ p[2] \in access[p[1]]
        \/ \E q \in Reqs : req[q].pc \in {"grant", "pass"} /\ Pair(q) = p
        => p \in Manages \union shown

\* A grant holds for its TTL in an open room, since others' grants only put off
\* the expiry of the set: nobody loses access to a room because of someone else.
GrantLasts ==
    \A p \in Pairs :
        p[1] \in db /\ grant[p] # 0 /\ now < grant[p] + GrantTTL => p[2] \in access[p[1]]

\* A client listens on the room's channel for as long as Ably takes its token.
Listens(p) == now < token[p]

\* Closing a room ends listening on its channel within the life of a token, though
\* nothing revokes tokens: only requests under way when the row was deleted can
\* still issue one, whatever grants the room has left in Redis.
TokensEnd ==
    \A p \in Pairs :
        closed[p[1]] # 0 /\ now >= closed[p[1]] + TokenTTL => ~Listens(p) \/ p \in late

\* Access is neither wider nor shorter than the passwords shown give reason for.
AccessAsEarned == AccessEarned /\ GrantLasts
============================================================================
