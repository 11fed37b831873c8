----------------------------- MODULE RoomControl ----------------------------
(***************************************************************************)
(* Concurrent control requests of one room's owner and of administrators:  *)
(* ApplyControl of internal/room/hub.go, which reads the room state, works *)
(* out the next one, writes it and publishes room.sync, three calls to two *)
(* services with no lock around them.                                      *)
(***************************************************************************)
EXTENDS Playback, FiniteSets

CONSTANTS
    Reqs,          \* slots for requests in progress
    Msgs,          \* control messages without their control_version
    MaxVersion,    \* bound: no request starts once this version is stored, or
                   \* more versions have been published
    MaxNow         \* bound of the clock

\* Every video a message names, and none.
Videos ==
    {NoVideo} \union {msg.video : msg \in Msgs}
    \union UNION {{msg.queue[i] : i \in DOMAIN msg.queue} : msg \in Msgs}

\* validPlaybackAction.
Actions == {"play", "pause", "seek", "next", "switch"}

\* What cleanQueue returns: no empty entry.
Queues == Seq(Videos \ {NoVideo})

\* A decoded room:state, and a message the handler has checked.  Mode "" is any text
\* that names no mode.
RoomStates ==
    [video : Videos, queue : Queues, action : Actions, position : Int,
     mode : {"sequential", "loop"}, duration : Int, version : Nat, updatedAt : Nat]
Messages ==
    [action : Actions, position : Int, video : Videos, queue : Queues,
     mode : {"sequential", "loop", ""}, duration : Int]

\* Seconds are whole, and an absent key and a failed read differ from every state.
ASSUME ControlAssumption ==
    /\ Msgs \subseteq Messages /\ MaxNow \in Nat
    /\ NoState \notin RoomStates /\ NoRead \notin RoomStates \union {NoState}

VARIABLES
    st,            \* room:state, NoState when the key is absent
    req,           \* req[q]: the request in slot q
    syncs,         \* versions published as room.sync, in order
    written,       \* history: versions ever stored
    raced,         \* history: two requests have been in progress at once
    restarted,     \* history: room:state has expired
    now            \* wall clock

vars == <<st, req, syncs, written, raced, restarted, now>>

Idle == [pc |-> "idle"]

Init ==
    /\ st = NoState
    /\ req = [q \in Reqs |-> Idle]
    /\ syncs = <<>>
    /\ written = {}
    /\ raced = FALSE
    /\ restarted = FALSE
    /\ now = 0

\* The control_version a client may send: none, or one it has been told.
Known == {0} \union {syncs[i] : i \in DOMAIN syncs}

\* A request passes the handler's checks and takes the time.
Begin(q, msg, cv) ==
    /\ req[q] = Idle
    /\ Version(st) < MaxVersion /\ Len(syncs) <= MaxVersion
    /\ req' = [req EXCEPT ![q] = [pc |-> "get", msg |-> msg, client |-> cv, at |-> now]]
    /\ raced' = (raced \/ \E p \in Reqs \ {q} : req[p] # Idle)
    /\ UNCHANGED <<st, syncs, written, restarted, now>>

Stale(cv, s) == s # NoState /\ cv > 0 /\ cv < s.version

\* Slip: the client's version is compared the wrong way round.
GetRefusesNewer(q) ==
    /\ req[q].pc = "get"
    /\ req' = [req EXCEPT ![q] =
                 IF st # NoState /\ req[q].client > st.version THEN Idle
                 ELSE [pc |-> "set", new |-> ControlledState(st, req[q].msg, req[q].at)]]
    /\ UNCHANGED <<st, syncs, written, raced, restarted, now>>
\* GetRoomState, the version check, and the new state.
Get(q) ==
    /\ req[q].pc = "get"
    /\ req' = [req EXCEPT ![q] =
                 IF Stale(req[q].client, st) THEN Idle
                 ELSE [pc |-> "set", new |-> ControlledState(st, req[q].msg, req[q].at)]]
    /\ UNCHANGED <<st, syncs, written, raced, restarted, now>>

\* Slip: the version advances by two, once in the handler and once in the cache.
SetTwice(q) ==
    /\ req[q].pc = "set"
    /\ st' = [req[q].new EXCEPT !.version = @ + 1]
    /\ written' = written \union {req[q].new.version + 1}
    /\ req' = [req EXCEPT ![q] = [pc |-> "publish", version |-> req[q].new.version + 1]]
    /\ UNCHANGED <<syncs, raced, restarted, now>>
\* SetRoomState.
Set(q) ==
    /\ req[q].pc = "set"
    /\ st' = req[q].new
    /\ written' = written \union {req[q].new.version}
    /\ req' = [req EXCEPT ![q] = [pc |-> "publish", version |-> req[q].new.version]]
    /\ UNCHANGED <<syncs, raced, restarted, now>>

Publish(q) ==
    /\ req[q].pc = "publish"
    /\ syncs' = Append(syncs, req[q].version)
    /\ req' = [req EXCEPT ![q] = Idle]
    /\ UNCHANGED <<st, written, raced, restarted, now>>

\* A backend call fails or the client hangs up: the request ends where it is.
Fail(q) ==
    /\ req[q] # Idle
    /\ req' = [req EXCEPT ![q] = Idle]
    /\ UNCHANGED <<st, syncs, written, raced, restarted, now>>

Tick ==
    /\ now < MaxNow
    /\ now' = now + 1
    /\ UNCHANGED <<st, req, syncs, written, raced, restarted>>

\* roomStateTTL, seven days after the last SetRoomState: the version restarts at 1.
Expire ==
    /\ st # NoState
    /\ ~restarted      \* bound: once in a run
    /\ st' = NoState
    /\ restarted' = TRUE
    /\ UNCHANGED <<req, syncs, written, raced, now>>

Step(q) == Get(q) \/ Set(q) \/ Publish(q) \/ Fail(q)

Next ==
    \/ \E q \in Reqs, msg \in Msgs, cv \in Known : Begin(q, msg, cv)
    \/ \E q \in Reqs : Step(q)
    \/ Expire
    \/ Tick

Spec == Init /\ [][Next]_vars

----------------------------------------------------------------------------
(* Versions.                                                               *)

\* Until two requests overlap, and until the state expires, viewers receive the
\* versions in the order in which they were stored.
SyncsInOrder ==
    raced \/ restarted \/ \A i, j \in DOMAIN syncs : i < j => syncs[i] < syncs[j]

\* What the check of control_version is for: a request that carries a version and
\* passes was made by a client that knows the state it replaces.  It fails when two
\* requests overlap, and for a client that remembers a version from before the
\* state expired.
PassedIsCurrent ==
    [][\A q \in Reqs :
          req[q].pc = "get" /\ req'[q].pc = "set" /\ req[q].client > 0 /\ st # NoState
          => raced \/ restarted \/ req[q].client = st.version]_vars

\* Even with lost updates no version is skipped: who sees version v knows that
\* 1..v-1 have been stored before it.
NoVersionGap == \A v \in written : 1..v \subseteq written

\* What viewers can rely on: versions without gaps, and in order while nothing races.
VersionsInOrder == NoVersionGap /\ SyncsInOrder

----------------------------------------------------------------------------
(* Playback of the stored state.                                           *)

Times == now..MaxNow
SameView(s, t) == s.video = t.video /\ s.action = t.action /\ s.position = t.position

\* A viewer who projects a snapshot taken at time t further to time w sees what a
\* snapshot taken at w shows: viewers who joined at different times agree.  (For
\* positions below zero and clocks behind the stored time the clamps break it.)
ProjectionComposes ==
    st # NoState /\ st.position >= 0 =>
        \A t \in Times, w \in Times :
            t <= w => SameView(projectState(projectState(st, t), w), projectState(st, w))

NoDuplicates(queue) == \A i, j \in DOMAIN queue : queue[i] = queue[j] => i = j

NextMsg == [action |-> "next", position |-> 0, video |-> NoVideo, queue |-> <<>>,
            mode |-> "", duration |-> 0]

\* Pressing "next" as often as the queue is long plays every item in order; a loop is
\* then back at its start, and the automatic advance agrees with the owner's.  After
\* the last item of a sequential queue, where the automatic advance stays on it
\* paused, "next" stores no video at all, and "next" again starts the queue over.
NextPlaysAll ==
    st # NoState /\ st.queue # <<>> /\ NoDuplicates(st.queue) =>
        \A mode \in {"loop", "sequential"} :
            LET n == Len(st.queue)
                first == [st EXCEPT !.video = Head(st.queue), !.mode = mode]
                pressed[k \in 0..(n + 1)] ==
                    IF k = 0 THEN first ELSE ControlledState(pressed[k - 1], NextMsg, now)
            IN  /\ \A k \in 1..(n - 1) : pressed[k].video = st.queue[k + 1]
                /\ \A k \in 0..(n - 1) :
                      NextVideoAfterEnd(pressed[k].video, st.queue, mode) = pressed[k + 1].video
                /\ IF mode = "loop" THEN pressed[n].video = Head(st.queue)
                   ELSE /\ pressed[n].video = NoVideo
                        /\ pressed[n + 1].video = Head(st.queue)
=============================================================================
