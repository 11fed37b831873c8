------------------------------ MODULE RoomViews -----------------------------
(***************************************************************************)
(* The handlers that show a room's playback state, beside the control      *)
(* requests of RoomControl that change it: GET state, POST snapshot, GET   *)
(* rooms, and the listings for administrators and for debugging, which     *)
(* read the state twice.  Every read may fail.                             *)
(***************************************************************************)
EXTENDS RoomControl

\* The request that looks at the room, one at a time: what its first read returned,
\* what it shows, whether a read failed, whether the state it read last had played to
\* its end, and as history what GET state would have shown at each of its reads.
VARIABLE look

vvars == <<vars, look>>

None == [pc |-> "none"]

VInit == Init /\ look = None

Kinds == {"state", "snapshot", "rooms", "admin", "debug"}

Looking(pc, kind, before, item, failed, seen) ==
    [pc |-> pc, kind |-> kind, before |-> before, item |-> item, failed |-> failed,
     over |-> st # NoState /\ AtEnd(st, now), seen |-> seen \union {StateView(st, now)}]

\* The administrators' listing always reads again, the debug listing when the snapshot
\* has no state.
ReadsAgain(kind, read) == kind = "admin" \/ (kind = "debug" /\ Found(read) = NoState)

\* The first read.  GET state answers an error of it.  GET rooms shows no action.
LookFirst(kind, read) ==
    /\ look.pc # "second"
    /\ look' = IF kind = "state" /\ read = NoRead THEN None
               ELSE Looking(IF ReadsAgain(kind, read) THEN "second" ELSE "shown", kind, read,
                            IF kind = "rooms"
                            THEN [video |-> EnrichRoomFromCache(read), action |-> "none"]
                            ELSE Snapshot(read, now),
                            read = NoRead, {})
    /\ UNCHANGED vars

\* The second read.  The debug listing answers an error of it.
LookSecond(read) ==
    /\ look.pc = "second"
    /\ look' = IF look.kind = "debug" /\ read = NoRead THEN None
               ELSE Looking("shown", look.kind, look.before,
                            IF look.kind = "admin" THEN AdminItem(look.before, read, now)
                                                   ELSE DebugItem(read),
                            look.failed \/ read = NoRead, look.seen)
    /\ UNCHANGED vars

LookNext ==
    \E read \in {st, NoRead} : LookSecond(read) \/ \E kind \in Kinds : LookFirst(kind, read)

VNext == LookNext \/ (Next /\ UNCHANGED look)

VSpec == VInit /\ [][VNext]_vvars

----------------------------------------------------------------------------
\* What a view shows as running was running at one of its reads, although the state
\* changes, expires and plays on between them, and reads fail; except that
\*   - the administrators' listing takes the video of its first read when the state it
\*     reads last names none, and
\*   - the list of rooms and the debug listing's second read do not project: a video
\*     that has played to its end is shown as it was stored.
ShownRuns ==
    look.pc = "shown" /\ look.item.video # NoVideo /\ look.item.action # "pause" =>
        \/ \E v \in look.seen : /\ v.video = look.item.video
                                /\ look.kind = "rooms" \/ v.action = look.item.action
        \/ look.kind = "admin" /\ \E v \in look.seen : v.video = NoVideo
        \/ look.kind \in {"rooms", "debug"} /\ look.over

\* A room shown without a video had none at one of the reads, or a read failed: that
\* error is swallowed (hub.go:91) and the room that plays is shown empty and paused.
ShownEmpty ==
    look.pc = "shown" /\ look.item.video = NoVideo =>
        look.failed \/ \E v \in look.seen : v.video = NoVideo

ViewsHonest == ShownRuns /\ ShownEmpty
=============================================================================
