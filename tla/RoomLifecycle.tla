---------------------------- MODULE RoomLifecycle ---------------------------
(***************************************************************************)
(* Rooms from creation to teardown: the handlers of internal/api/          *)
(* room_handlers.go, CloseRoom, RunEmptyRoomCleanup and closeEmptyRoom of  *)
(* internal/room/hub.go, on the room rows in PostgreSQL and the Redis keys *)
(* of a room: its presence (module RedisPresence), its playback state, its *)
(* access grants and its chat.  A handler loads the row first and works on *)
(* the keys afterwards; nothing locks a room in between.                   *)
(*                                                                         *)
(* Rooms are numbered in the order of their creation; ids are never used   *)
(* twice.  Permission checks that only turn a request away are left out.   *)
(***************************************************************************)
EXTENDS RedisPresence, Naturals, FiniteSets

CONSTANTS
    Job,            \* the slot of the cleanup goroutine; the others are HTTP requests
    ListAsked,      \* rows RunEmptyRoomCleanup asks List for (500)
    PageMax,        \* largest page normalizePage accepts (100)
    PageDefault,    \* page size it falls back to (50)
    Visited         \* bound: the rooms requests are made for; the others are only created

ASSUME LifecycleAssumption ==
    /\ Rooms \subseteq Nat /\ Visited \subseteq Rooms
    /\ Job \in Reqs
    /\ {ListAsked, PageMax, PageDefault} \subseteq Nat \ {0}

VARIABLES
    db,             \* rooms with a row
    fresh,          \* rooms not created yet
    state,          \* rooms with a room:state key
    access,         \* room:access sets, as pairs of room and user
    chat,           \* rooms with chat keys
    hand,           \* hand[q]: what the handler in slot q does next
    todo,           \* candidates the cleanup has not looked at yet
    tainted         \* history: rooms whose teardown met a request or a failure

rkeys == <<state, access, chat>>
rows  == <<db, fresh>>
lvars == <<vars, rows, rkeys, hand, todo, tainted>>

Free == [pc |-> "free", room |-> NoRoom, user |-> NoRoom]

LInit ==
    /\ Init
    /\ db = {} /\ fresh = Rooms
    /\ state = {} /\ access = {} /\ chat = {}
    /\ hand = [q \in Reqs |-> Free]
    /\ todo = {}
    /\ tainted = {}

Do(q, label) == hand' = [hand EXCEPT ![q].pc = label]
Return(q) == hand' = [hand EXCEPT ![q] = Free]

\* create: the row only; the owner is not a member yet.
Create(r) ==
    /\ r \in fresh /\ \A s \in fresh : r <= s
    /\ db' = db \union {r}
    /\ fresh' = fresh \ {r}
    /\ UNCHANGED <<vars, rkeys, hand, todo, tainted>>

Kinds == {"grant", "join", "leave", "control", "chat", "delete"}

\* Slip: the handler trusts the room id of the URL.
LoadUnchecked(q, kind, r, u) ==
    /\ q # Job /\ hand[q] = Free /\ req[q] = Idle
    /\ r \notin fresh
    /\ hand' = [hand EXCEPT ![q] = [pc |-> kind, room |-> r, user |-> u]]
    /\ UNCHANGED <<vars, rows, rkeys, todo, tainted>>
\* loadRoom and the permission checks: a request for an existing room begins.
Load(q, kind, r, u) ==
    /\ q # Job /\ hand[q] = Free /\ req[q] = Idle
    /\ r \in db
    /\ hand' = [hand EXCEPT ![q] = [pc |-> kind, room |-> r, user |-> u]]
    /\ UNCHANGED <<vars, rows, rkeys, todo, tainted>>

\* canAccessRoom of a private room, no grant yet, the password is right:
\* GrantRoomAccess.  The handler goes on to join or to send a chat message, or ends
\* (token, snapshot and chat history).
Grant(q) ==
    /\ hand[q].pc = "grant"
    /\ access' = access \union {<<hand[q].room, hand[q].user>>}
    /\ Do(q, "join") \/ Do(q, "chat") \/ Return(q)
    /\ UNCHANGED <<vars, rows, state, chat, todo, tainted>>

Join(q) ==
    /\ hand[q].pc = "join"
    /\ JoinRoom(hand[q].room, hand[q].user)
    /\ Return(q)
    /\ UNCHANGED <<rows, rkeys, todo, tainted>>

\* leave, and kick of any user; the commands after the first run in req[q].
Leave(q) ==
    /\ hand[q].pc = "leave"
    /\ RemoveMember(q, hand[q].room, hand[q].user)
    /\ Return(q)
    /\ UNCHANGED <<rows, rkeys, todo, tainted>>

\* control: SetRoomState at the end of ApplyControl.
Control(q) ==
    /\ hand[q].pc = "control"
    /\ state' = state \union {hand[q].room}
    /\ Return(q)
    /\ UNCHANGED <<vars, rows, access, chat, todo, tainted>>

\* postRoomChat: SendChat writes its keys.
Chat(q) ==
    /\ hand[q].pc = "chat"
    /\ chat' = chat \union {hand[q].room}
    /\ Return(q)
    /\ UNCHANGED <<vars, rows, state, access, todo, tainted>>

\* The other commands of removeMember.
LeaveStep(q) == RemoveStep(q) /\ UNCHANGED <<rows, rkeys, hand, todo, tainted>>

\* The client hangs up: the commands a handler, or removeMember, has left all fail.
HangUp(q) ==
    /\ \/ hand[q].pc \in Kinds /\ Return(q) /\ UNCHANGED req
       \/ hand[q] = Free /\ req[q] # Idle /\ Done(q) /\ UNCHANGED hand
    /\ UNCHANGED <<keys, joined, rows, rkeys, todo, tainted>>

----------------------------------------------------------------------------
(* Teardown.  delete and the cleanup run the same sequence of deletions;   *)
(* they differ in what a failure does.                                     *)

\* Another request has loaded room r and has not ended.
Engaged(q, r) == \E p \in Reqs \ {q} : hand[p].room = r \/ req[p].room = r

\* delete: the row; a row that is gone ends the request with 404.
DeleteRow(q) ==
    LET r == hand[q].room
    IN  /\ hand[q].pc = "delete"
        /\ IF r \in db THEN Do(q, "close_state") ELSE Return(q)
        /\ db' = db \ {r}
        /\ tainted' = IF r \in db /\ Engaged(q, r) THEN tainted \union {r} ELSE tainted
        /\ UNCHANGED <<vars, fresh, rkeys, todo>>

CloseState(q) ==
    /\ hand[q].pc = "close_state"
    /\ state' = state \ {hand[q].room}
    /\ Do(q, "close_presence")
    /\ UNCHANGED <<vars, rows, access, chat, todo, tainted>>

\* DeleteRoomPresence: HGETALL, then the transaction.
ClosePresenceRead(q) ==
    /\ hand[q].pc = "close_presence"
    /\ DeleteRead(q, hand[q].room)
    /\ Do(q, "close_members")
    /\ UNCHANGED <<rows, rkeys, todo, tainted>>

ClosePresence(q) ==
    /\ hand[q].pc = "close_members"
    /\ DeleteExec(q)
    /\ Done(q)
    /\ Do(q, "close_access")
    /\ UNCHANGED <<rows, rkeys, todo, tainted>>

\* Slip: grants are left to their 30 days' TTL.
CloseAccessByTTL(q) ==
    /\ hand[q].pc = "close_access"
    /\ Do(q, "close_chat")
    /\ UNCHANGED <<vars, rows, rkeys, todo, tainted>>
CloseAccess(q) ==
    /\ hand[q].pc = "close_access"
    /\ access' = {g \in access : g[1] # hand[q].room}
    /\ Do(q, "close_chat")
    /\ UNCHANGED <<vars, rows, state, chat, todo, tainted>>

\* deleteRoomChat; the room_closed event ends the teardown.
CloseChat(q) ==
    /\ hand[q].pc = "close_chat"
    /\ chat' = chat \ {hand[q].room}
    /\ IF q = Job THEN Do(q, "closed") ELSE Return(q)
    /\ UNCHANGED <<vars, rows, state, access, todo, tainted>>

\* One deletion fails.  In CloseRoom a failed DeleteRoomState ends the request; all
\* other errors are ignored and the teardown goes on.
CloseFails(q) ==
    /\ \/ /\ hand[q].pc = "close_state"
          /\ IF q = Job THEN Do(q, "close_presence") ELSE Return(q)
          /\ UNCHANGED req
       \/ /\ hand[q].pc \in {"close_presence", "close_members"}
          /\ Do(q, "close_access")
          /\ Done(q)
       \/ /\ hand[q].pc = "close_access"
          /\ Do(q, "close_chat")
          /\ UNCHANGED req
       \/ /\ hand[q].pc = "close_chat"
          /\ IF q = Job THEN Do(q, "closed") ELSE Return(q)
          /\ UNCHANGED req
    /\ tainted' = tainted \union {hand[q].room}
    /\ UNCHANGED <<keys, joined, rows, rkeys, todo>>

CloseStep(q) ==
    CloseState(q) \/ ClosePresenceRead(q) \/ ClosePresence(q) \/ CloseAccess(q) \/ CloseChat(q)

----------------------------------------------------------------------------
(* RunEmptyRoomCleanup.  The three lists are read one after the other.     *)

normalizePage(limit) == IF limit > PageMax THEN PageDefault ELSE limit

\* List: the newest rows.
ListRooms(limit) ==
    {r \in db : Cardinality({s \in db : s > r}) < normalizePage(limit)}

Candidates(label, next, found) ==
    /\ hand[Job].pc = label
    /\ Do(Job, next)
    /\ todo' = todo \union found
    /\ UNCHANGED <<vars, rows, rkeys, tainted>>

ReadPending == Candidates("free", "list_active", pending)
ReadActive == Candidates("list_active", "list_db", active)
\* Slip: only the two Redis sets are scanned.
SkipDb == Candidates("list_db", "pick", {})
ReadDb == Candidates("list_db", "pick", ListRooms(ListAsked))

\* MemberCount of the next candidate.
Count(r) ==
    /\ hand[Job].pc = "pick"
    /\ r \in todo
    /\ hand' = [hand EXCEPT ![Job] =
          [pc |-> IF members[r] = {} THEN "drop" ELSE "clear", room |-> r, user |-> NoRoom]]
    /\ todo' = todo \ {r}
    /\ UNCHANGED <<vars, rows, rkeys, tainted>>

\* closeEmptyRoom: the row may be gone already.
DropRow ==
    LET r == hand[Job].room
    IN  /\ hand[Job].pc = "drop"
        /\ db' = db \ {r}
        /\ Do(Job, "close_state")
        /\ tainted' = IF r \in db /\ Engaged(Job, r) THEN tainted \union {r} ELSE tainted
        /\ UNCHANGED <<vars, fresh, rkeys, todo>>

\* ClearPendingEmpty, after the room was found occupied or has been closed.
Clear ==
    /\ hand[Job].pc \in {"clear", "closed"}
    /\ ClearPendingEmpty(hand[Job].room)
    /\ hand' = [hand EXCEPT ![Job] = [Free EXCEPT !.pc = "pick"]]
    /\ UNCHANGED <<req, rows, rkeys, todo, tainted>>

Finish ==
    /\ hand[Job].pc = "pick" /\ todo = {}
    /\ Return(Job)
    /\ UNCHANGED <<vars, rows, rkeys, todo, tainted>>

\* A list cannot be read, the row cannot be deleted, or room_closed cannot be
\* published: the run ends.
Abort ==
    /\ hand[Job].pc \in {"list_active", "list_db", "drop", "closed"}
    /\ Return(Job)
    /\ todo' = {}
    /\ UNCHANGED <<vars, rows, rkeys, tainted>>

\* MemberCount fails: the candidate is passed over.
CountFails(r) ==
    /\ hand[Job].pc = "pick"
    /\ r \in todo
    /\ todo' = todo \ {r}
    /\ UNCHANGED <<vars, rows, rkeys, hand, tainted>>

\* ClearPendingEmpty fails: the error is ignored.
ClearFails ==
    /\ hand[Job].pc \in {"clear", "closed"}
    /\ hand' = [hand EXCEPT ![Job] = [Free EXCEPT !.pc = "pick"]]
    /\ UNCHANGED <<vars, rows, rkeys, todo, tainted>>

JobStep ==
    \/ ReadPending \/ ReadActive \/ ReadDb
    \/ \E r \in Rooms : Count(r)
    \/ DropRow \/ Clear \/ Finish

----------------------------------------------------------------------------
HandlerStep(q) ==
    \/ Grant(q) \/ Join(q) \/ Leave(q) \/ Control(q) \/ Chat(q)
    \/ LeaveStep(q) \/ DeleteRow(q)

LNext ==
    \/ \E r \in Rooms : Create(r)
    \/ \E q \in Reqs, kind \in Kinds, r \in Visited, u \in Users : Load(q, kind, r, u)
    \/ \E q \in Reqs : HandlerStep(q) \/ HangUp(q) \/ CloseStep(q) \/ CloseFails(q)
    \/ JobStep
    \/ Abort \/ ClearFails \/ \E r \in Rooms : CountFails(r)

LSpec == LInit /\ [][LNext]_lvars

\* Requests and the cleanup make progress.  Cleanups keep being started: that is
\* CleanupRecurs of module CleanupJob.  Redis and PostgreSQL are not down for ever: a
\* cleanup that again and again tries to read a list, count a room or delete a row
\* succeeds.
LFairSpec ==
    /\ LSpec
    /\ \A q \in Reqs : WF_lvars(HandlerStep(q)) /\ WF_lvars(CloseStep(q))
    /\ WF_lvars(JobStep)
    /\ SF_lvars(ReadActive) /\ SF_lvars(ReadDb)
    /\ \A r \in Rooms : SF_lvars(Count(r)) /\ SF_lvars(DropRow /\ hand[Job].room = r)

----------------------------------------------------------------------------
Leftovers(r) ==
    \/ r \in state \/ r \in chat \/ members[r] # {}
    \/ \E u \in Users : <<r, u>> \in access

Closed(r) == r \notin db /\ r \notin fresh

\* No request has anything to do with room r.
Quiet(r) == \A q \in Reqs : hand[q].room # r /\ req[q].room # r

\* Teardown is complete: once nothing works on a closed room any more, no key of it
\* exists, unless a request had loaded the room when its row was deleted or one of
\* the deletions failed.
TeardownComplete == \A r \in Rooms : Closed(r) /\ Quiet(r) /\ Leftovers(r) => r \in tainted

\* The rooms a cleanup that starts now would look at.
Scanned == pending \union active \union ListRooms(ListAsked)

\* A room that stays empty is closed by a later cleanup, whether or not anybody has
\* ever joined it and however the races over room:pending_empty go, unless newer rooms
\* push its row off the page List returns while no Redis set names it.
EmptyRoomIsClosed ==
    \A r \in Rooms : r \in db /\ members[r] = {} ~>
        r \notin db \/ members[r] # {} \/ r \notin Scanned
=============================================================================
