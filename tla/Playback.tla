------------------------------ MODULE Playback ------------------------------
(***************************************************************************)
(* The pure part of room playback: internal/room/project.go and the        *)
(* functions of internal/room/hub.go that compute a room state from the    *)
(* previous one.  A video is an opaque value, positions, durations and     *)
(* times are whole seconds; duration 0 is an unknown duration.             *)
(***************************************************************************)
EXTENDS Integers, Sequences

CONSTANTS NoVideo,      \* the empty video_id
          NoState,      \* no room:state key
          NoRead        \* GetRoomState failed

\* indexOf, counting from 1; 0 where Go returns -1.
indexOf(queue, v) ==
    IF \E i \in DOMAIN queue : queue[i] = v
    THEN CHOOSE i \in DOMAIN queue :
            queue[i] = v /\ \A j \in 1..(i - 1) : queue[j] # v
    ELSE 0

\* Slip: a sequential queue starts over as well.
AfterAlwaysWraps(i, queue, mode) == queue[(i % Len(queue)) + 1]
\* The item after position i: round the corner in loop mode, none at the end of a
\* sequential queue.
After(i, queue, mode) ==
    CASE mode = "loop" -> queue[(i % Len(queue)) + 1]
      [] mode # "loop" /\ i < Len(queue) -> queue[i + 1]
      [] OTHER -> NoVideo

\* The owner's "next": a current video outside the queue starts the queue.
nextInQueue(current, queue, mode) ==
    IF queue = <<>> THEN NoVideo
    ELSE IF indexOf(queue, current) = 0 THEN Head(queue)
    ELSE After(indexOf(queue, current), queue, mode)

\* The automatic advance: a current video outside the queue ends playback.
NextVideoAfterEnd(current, queue, mode) ==
    IF queue = <<>> \/ indexOf(queue, current) = 0 THEN NoVideo
    ELSE After(indexOf(queue, current), queue, mode)

----------------------------------------------------------------------------
(* Projection of a stored state to the time of a request.                  *)

clampPos(pos, duration) ==
    IF pos < 0 THEN 0
    ELSE IF duration > 0 /\ pos > duration THEN duration ELSE pos

Elapsed(st, now) == IF now < st.updatedAt THEN 0 ELSE now - st.updatedAt

AtEnd(st, now) ==
    st.action = "play" /\ st.duration > 0
    /\ st.position + Elapsed(st, now) >= st.duration

ProjectedPlayback(st, now) ==
    IF AtEnd(st, now) THEN st.duration
    ELSE IF st.action = "play" THEN clampPos(st.position + Elapsed(st, now), st.duration)
    ELSE clampPos(st.position, st.duration)

\* Slip: the projected state keeps the time of the stored one.
projectStateOldTime(st, now) ==
    IF AtEnd(st, now)
    THEN LET next == NextVideoAfterEnd(st.video, st.queue, st.mode)
         IN  IF next # NoVideo
             THEN [st EXCEPT !.video = next, !.position = 0, !.action = "pause",
                             !.duration = 0]
             ELSE [st EXCEPT !.position = st.duration, !.action = "pause"]
    ELSE [st EXCEPT !.position = ProjectedPlayback(st, now)]
\* projectState: at the end of the video the next one is shown paused at its
\* start, or the current one paused at its end.
projectState(st, now) ==
    IF AtEnd(st, now)
    THEN LET next == NextVideoAfterEnd(st.video, st.queue, st.mode)
         IN  IF next # NoVideo
             THEN [st EXCEPT !.video = next, !.position = 0, !.action = "pause",
                             !.duration = 0, !.updatedAt = now]
             ELSE [st EXCEPT !.position = st.duration, !.action = "pause",
                             !.updatedAt = now]
    ELSE [st EXCEPT !.position = ProjectedPlayback(st, now), !.updatedAt = now]

----------------------------------------------------------------------------
(* ApplyControl's computation of the new state.                            *)

Version(st) == IF st = NoState THEN 0 ELSE st.version

resolveControlDuration(msg, prev, video) ==
    IF msg.duration > 0 THEN msg.duration
    ELSE IF prev # NoState /\ video # NoVideo /\ video = prev.video THEN prev.duration
    ELSE 0

ControlMode(msg, prev) ==
    IF msg.mode \in {"sequential", "loop"} THEN msg.mode
    ELSE IF prev # NoState THEN prev.mode ELSE "sequential"

\* What the control message msg makes of the state prev that was read; t is the
\* time at which the request began.
ControlledState(prev, msg, t) ==
    LET mode   == ControlMode(msg, prev)
        base   == IF msg.video = NoVideo /\ prev # NoState THEN prev.video ELSE msg.video
        queue  == IF msg.action = "next" /\ msg.queue = <<>> /\ prev # NoState
                  THEN prev.queue ELSE msg.queue
        next   == nextInQueue(base, queue, mode)
        steps  == msg.action = "next" /\ next # NoVideo
        video  == CASE steps -> next
                    [] msg.action = "switch" /\ msg.video = NoVideo /\ queue # <<>> -> Head(queue)
                    [] OTHER -> msg.video
    IN  [video     |-> video,
         queue     |-> IF queue = <<>> /\ video # NoVideo THEN <<video>> ELSE queue,
         action    |-> IF steps THEN "pause" ELSE msg.action,
         position  |-> IF steps THEN 0 ELSE msg.position,
         mode      |-> mode,
         duration  |-> resolveControlDuration(msg, prev, video),
         version   |-> Version(prev) + 1,
         updatedAt |-> t]

----------------------------------------------------------------------------
(* What the handlers show of what GetRoomState returned (read): a state,   *)
(* NoState or NoRead.                                                      *)

\* GET state: a room without a state is paused at the start of nothing.
StateView(st, now) ==
    IF st = NoState THEN [video |-> NoVideo, action |-> "pause"]
    ELSE [video |-> projectState(st, now).video, action |-> projectState(st, now).action]

\* Everybody but GET state takes a failed read for a room without a state.
Found(read) == IF read = NoRead THEN NoState ELSE read

\* A state without a queue shows its video as the queue.
ShownQueue(queue, video) == IF queue = <<>> /\ video # NoVideo THEN <<video>> ELSE queue

\* POST snapshot, and the first attempt of the debug listing.
\* rooms.current_video_id, which stands in for the video of a room without a state, is
\* never written and is empty.
Snapshot(read, now) ==
    LET st   == Found(read)
        view == StateView(st, now)
    IN  [video |-> view.video, action |-> view.action,
         queue |-> IF st = NoState THEN <<>> ELSE ShownQueue(st.queue, view.video)]

\* EnrichRoomFromCache, for GET rooms: the stored video, not the projected one.
EnrichRoomFromCache(read) == IF Found(read) = NoState THEN NoVideo ELSE Found(read).video

\* Slip: the administrators' listing shows the stored video and action.
AdminItemStored(before, read, now) ==
    [video |-> EnrichRoomFromCache(read),
     action |-> IF Found(read) = NoState THEN "pause" ELSE Found(read).action]
\* listRooms of the administrators reads the state twice: once to enrich the room
\* (before), once to project it.
AdminItem(before, read, now) ==
    LET view == StateView(Found(read), now)
    IN  [video |-> IF view.video # NoVideo THEN view.video ELSE EnrichRoomFromCache(before),
         action |-> view.action]

\* The debug listing's second attempt, after a snapshot without a state: a state is
\* shown as it is stored.
DebugItem(read) ==
    IF read = NoState THEN [video |-> NoVideo, action |-> "pause", queue |-> <<>>]
    ELSE [video |-> read.video, action |-> read.action, queue |-> ShownQueue(read.queue, read.video)]
=============================================================================
