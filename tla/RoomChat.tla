------------------------------ MODULE RoomChat ------------------------------
(***************************************************************************)
(* The chat of one room: SendChat and the outbox of internal/room/chat.go  *)
(* on the Redis keys of internal/cache/redis/room_chat.go.  A message is   *)
(* appended to a stream, published on Ably, and put into a pending set for *)
(* the background drainers when publishing fails.  Every Redis command and *)
(* every publish is a step of its own.  The per-second rate limit, which   *)
(* turns requests away before they have an effect, is module ChatRate.     *)
(***************************************************************************)
EXTENDS Naturals, Sequences, FiniteSets, SequencesExt

CONSTANTS
    Senders,        \* requests that send a message
    Drainers,       \* the 30-second ticker of each server, and the cleanup job
    Sizes,          \* message sizes: "fits"; "gap": exceeds the limit only with its
                    \* stream_id added; "big": exceeds it already without
    PendingMax,     \* CHAT_ABLY_PENDING_MAX
    StreamMax,      \* CHAT_STREAM_MAXLEN
    DrainBatch,     \* pending entries a drain looks at (30)
    MaxMsgs         \* bound: sequence numbers handed out in a run

ASSUME LimitsAssumption ==
    /\ PendingMax \in Nat \ {0}
    /\ StreamMax \in Nat \ {0}
    /\ DrainBatch \in Nat \ {0}
    /\ Sizes \subseteq {"fits", "gap", "big"}
    /\ IsFiniteSet(Senders)

VARIABLES
    open,           \* the room's database row exists
    seq,            \* room:chat:seq, 0 when absent
    stream,         \* room:chat:stream, oldest entry first
    lastId,         \* the last stream id Redis has issued
    pending,        \* room:chat:ably_pending, in score order
    delivered,      \* history: stream ids published on Ably
    forsaken,       \* history: stream ids given up by a request or a drainer that met
                    \* a failure of Redis, a hang-up or a crash
    snd, drn        \* the senders' and the drainers' progress

keys == <<seq, stream, pending>>
vars == <<open, keys, lastId, delivered, forsaken, snd, drn>>

Idle == [pc |-> "idle"]
Resting == [pc |-> "idle", batch |-> <<>>]

Init ==
    /\ open = TRUE
    /\ seq = 0
    /\ stream = <<>>
    /\ lastId = 0
    /\ pending = <<>>
    /\ delivered = {}
    /\ forsaken = {}
    /\ snd = [s \in Senders |-> Idle]
    /\ drn = [d \in Drainers |-> Resting]

Ids == {stream[i].id : i \in DOMAIN stream}
SizeOf(id) == (CHOOSE e \in ToSet(stream) : e.id = id).size

----------------------------------------------------------------------------
(* SendChat.                                                               *)

Busy == {s \in Senders : snd[s] # Idle}

\* Slip: the limit is tested against a stale count, one too late.
SendCheckLate(s, size) ==
    /\ snd[s] = Idle
    /\ open
    /\ Len(pending) <= PendingMax
    /\ seq + Cardinality(Busy) < MaxMsgs
    /\ snd' = [snd EXCEPT ![s] = [pc |-> "seq", size |-> size]]
    /\ UNCHANGED <<open, keys, lastId, delivered, forsaken, drn>>
\* The handler has loaded the room; PendingCount is below the limit.
SendCheck(s, size) ==
    /\ snd[s] = Idle
    /\ open
    /\ Len(pending) < PendingMax
    /\ seq + Cardinality(Busy) < MaxMsgs
    /\ snd' = [snd EXCEPT ![s] = [pc |-> "seq", size |-> size]]
    /\ UNCHANGED <<open, keys, lastId, delivered, forsaken, drn>>

\* Slip: the sequence number is taken from the length of the stream.
NextSeqFromLength(s) ==
    /\ snd[s].pc = "seq"
    /\ seq' = Len(stream) + 1
    /\ snd' = [snd EXCEPT ![s] =
                 IF @.size = "big" THEN Idle
                 ELSE [pc |-> "append", size |-> @.size, seq |-> seq']]
    /\ UNCHANGED <<open, stream, pending, lastId, delivered, forsaken, drn>>
\* NextSeq; a payload that is too large is refused after it has used its number.
NextSeq(s) ==
    /\ snd[s].pc = "seq"
    /\ seq' = seq + 1
    /\ snd' = [snd EXCEPT ![s] =
                 IF @.size = "big" THEN Idle
                 ELSE [pc |-> "append", size |-> @.size, seq |-> seq']]
    /\ UNCHANGED <<open, stream, pending, lastId, delivered, forsaken, drn>>

\* AppendMessage: XADD MAXLEN ~, which may keep more than StreamMax entries.  With
\* its stream_id a "gap" message is too large for Ably and goes to the outbox.
AppendMessage(s) ==
    LET entry == [id |-> lastId + 1, seq |-> snd[s].seq, size |-> snd[s].size]
        whole == Append(stream, entry)
    IN  /\ snd[s].pc = "append"
        /\ \E k \in 0..Len(stream) :
              /\ k > 0 => Len(whole) - k >= StreamMax
              /\ stream' = SubSeq(whole, k + 1, Len(whole))
        /\ lastId' = lastId + 1
        /\ snd' = [snd EXCEPT ![s] =
                     [pc |-> IF @.size = "gap" THEN "enqueue" ELSE "publish", id |-> entry.id]]
        /\ UNCHANGED <<open, seq, pending, delivered, forsaken, drn>>

\* publishAblyChat succeeds, in the first attempt or in a retry.
PublishOk(s) ==
    /\ snd[s].pc = "publish"
    /\ delivered' = delivered \union {snd[s].id}
    /\ snd' = [snd EXCEPT ![s] = Idle]
    /\ UNCHANGED <<open, keys, lastId, forsaken, drn>>

\* All attempts fail or the total timeout runs out; Ably may have taken the
\* message although its answer was lost.
PublishFails(s) ==
    /\ snd[s].pc = "publish"
    /\ delivered' \in {delivered, delivered \union {snd[s].id}}
    /\ snd' = [snd EXCEPT ![s] = [pc |-> "enqueue", id |-> @.id]]
    /\ UNCHANGED <<open, keys, lastId, forsaken, drn>>

\* ZADD with the current second as score: the entry goes to the end, or among the
\* entries of the same second to its place in the order of ids.
EnqueuePending(s) ==
    /\ snd[s].pc = "enqueue"
    /\ \E i \in 1..(Len(pending) + 1) :
          /\ \A j \in i..Len(pending) : pending[j] > snd[s].id
          /\ pending' = InsertAt(pending, i, snd[s].id)
    /\ snd' = [snd EXCEPT ![s] = Idle]
    /\ UNCHANGED <<open, seq, stream, lastId, delivered, forsaken, drn>>

SendStep(s) ==
    NextSeq(s) \/ AppendMessage(s) \/ PublishOk(s) \/ PublishFails(s) \/ EnqueuePending(s)

\* The client hangs up, the server stops or Redis fails: the next command of the
\* request has no effect, EnqueuePending for a stored message included.
HangUp(s) ==
    /\ snd[s] # Idle
    /\ snd' = [snd EXCEPT ![s] = Idle]
    /\ forsaken' = IF "id" \in DOMAIN snd[s] THEN forsaken \union {snd[s].id} ELSE forsaken
    /\ UNCHANGED <<open, keys, lastId, delivered, drn>>

----------------------------------------------------------------------------
(* drainRoomPending.                                                       *)

Pop(d) == drn' = [drn EXCEPT ![d] =
             IF Len(@.batch) = 1 THEN Resting ELSE [pc |-> "get", batch |-> Tail(@.batch)]]

\* PendingStreamIDs.
DrainList(d) ==
    /\ drn[d].pc = "idle"
    /\ pending # <<>>
    /\ drn' = [drn EXCEPT ![d] =
                 [pc |-> "get", batch |-> SubSeq(pending, 1, IF Len(pending) < DrainBatch
                                                             THEN Len(pending) ELSE DrainBatch)]]
    /\ UNCHANGED <<open, keys, lastId, delivered, forsaken, snd>>

First(d) == Head(drn[d].batch)

\* ZREM: takes the entry out, if it is there.
RemovePending(id) ==
    \/ id \notin ToSet(pending) /\ UNCHANGED pending
    \/ \E i \in DOMAIN pending : pending[i] = id /\ pending' = RemoveAt(pending, i)

\* The entry has been trimmed from the stream, or the room was closed.
DrainGone(d) ==
    /\ drn[d].pc = "get"
    /\ First(d) \notin Ids
    /\ RemovePending(First(d))
    /\ Pop(d)
    /\ UNCHANGED <<open, seq, stream, lastId, delivered, forsaken, snd>>

\* Too large with its stream_id: skipped, and left in the outbox.
DrainSkip(d) ==
    /\ drn[d].pc = "get"
    /\ First(d) \in Ids
    /\ SizeOf(First(d)) = "gap"
    /\ Pop(d)
    /\ UNCHANGED <<open, keys, lastId, delivered, forsaken, snd>>

\* GetPayload finds the message; publishing follows, without the stream.
DrainGet(d) ==
    /\ drn[d].pc = "get"
    /\ First(d) \in Ids
    /\ SizeOf(First(d)) # "gap"
    /\ drn' = [drn EXCEPT ![d].pc = "publish"]
    /\ UNCHANGED <<open, keys, lastId, delivered, forsaken, snd>>

DrainPublishOk(d) ==
    /\ drn[d].pc = "publish"
    /\ delivered' = delivered \union {First(d)}
    /\ drn' = [drn EXCEPT ![d].pc = "remove"]
    /\ UNCHANGED <<open, keys, lastId, forsaken, snd>>

\* Slip: an entry is removed after one more failed attempt.
DrainGivesUp(d) ==
    /\ drn[d].pc = "publish"
    /\ drn' = [drn EXCEPT ![d].pc = "remove"]
    /\ UNCHANGED <<open, keys, lastId, delivered, forsaken, snd>>
DrainPublishFails(d) ==
    /\ drn[d].pc = "publish"
    /\ delivered' \in {delivered, delivered \union {First(d)}}
    /\ Pop(d)
    /\ UNCHANGED <<open, keys, lastId, forsaken, snd>>

\* Slip: the published entry stays in the outbox.
DrainForgets(d) ==
    /\ drn[d].pc = "remove"
    /\ Pop(d)
    /\ UNCHANGED <<open, keys, lastId, delivered, forsaken, snd>>
DrainRemove(d) ==
    /\ drn[d].pc = "remove"
    /\ RemovePending(First(d))
    /\ Pop(d)
    /\ UNCHANGED <<open, seq, stream, lastId, delivered, forsaken, snd>>

\* RemovePending fails, after a publish or after a read without a payload: the error
\* is ignored and the drain goes on.
DrainRemoveFails(d) ==
    /\ drn[d].pc \in {"get", "remove"}
    /\ Pop(d)
    /\ UNCHANGED <<open, keys, lastId, delivered, forsaken, snd>>

\* The drainer's context times out or its server stops.
DrainStops(d) ==
    /\ drn[d] # Resting
    /\ drn' = [drn EXCEPT ![d] = Resting]
    /\ UNCHANGED <<open, keys, lastId, delivered, forsaken, snd>>

\* GetPayload fails for a passing reason: the code removes the entry all the same.
DrainReadFails(d) ==
    /\ drn[d].pc = "get"
    /\ First(d) \in Ids
    /\ RemovePending(First(d))
    /\ forsaken' = forsaken \union {First(d)}
    /\ Pop(d)
    /\ UNCHANGED <<open, seq, stream, lastId, delivered, snd>>

DrainFails(d) == DrainStops(d) \/ DrainReadFails(d) \/ DrainRemoveFails(d)

DrainStep(d) ==
    \/ DrainList(d) \/ DrainGone(d) \/ DrainSkip(d) \/ DrainGet(d)
    \/ DrainPublishOk(d) \/ DrainPublishFails(d) \/ DrainRemove(d)

----------------------------------------------------------------------------
\* The row is gone and CloseRoom or closeEmptyRoom calls DeleteRoom: MULTI of three
\* DELs.  Requests that have loaded the room before carry on.
DeleteRoom ==
    /\ open
    /\ open' = FALSE
    /\ seq' = 0
    /\ stream' = <<>>
    /\ pending' = <<>>
    /\ UNCHANGED <<lastId, delivered, forsaken, snd, drn>>

Next ==
    \/ \E s \in Senders, size \in Sizes : SendCheck(s, size)
    \/ \E s \in Senders : SendStep(s) \/ HangUp(s)
    \/ \E d \in Drainers : DrainStep(d) \/ DrainFails(d)
    \/ DeleteRoom

Spec == Init /\ [][Next]_vars

\* The ticker keeps starting drains and requests go on.  Ably is not down for ever:
\* a drainer that tries again and again gets a message through, and is not stopped
\* each time before the removal.
FairSpec ==
    /\ Spec
    /\ \A s \in Senders : WF_vars(SendStep(s))
    /\ \A d \in Drainers : /\ WF_vars(DrainStep(d))
                           /\ SF_vars(DrainGone(d)) /\ SF_vars(DrainSkip(d))
                           /\ SF_vars(DrainGet(d))
                           /\ SF_vars(DrainPublishOk(d))
                           /\ SF_vars(DrainRemove(d))

----------------------------------------------------------------------------
\* CHAT_ABLY_PENDING_MAX limits the outbox, but the count is tested long before the
\* entry is added.  Concurrent senders can pass the limit, never by more than the
\* requests that are under way.
PendingBound == Len(pending) + Cardinality(Busy) < PendingMax + Cardinality(Senders)

\* A stored message is safe: published, waiting in the outbox, or still in the hands
\* of the request that sends it.
Holds(s, id) == snd[s].pc \in {"publish", "enqueue"} /\ snd[s].id = id
Safe(id) == id \in delivered \/ id \in ToSet(pending) \/ \E s \in Senders : Holds(s, id)

\* docs/room_chat_realtime_design_zh.md, 5.3: a message that Ably has not confirmed is
\* kept for asynchronous redelivery.  Racing drainers, drainers that stop half-way and
\* failed publishes lose no message that was ever stored in a room, whether or not it
\* still is in the stream.  What gives one up is
\*   - a request cut short between XADD and ZADD, or a drainer whose read fails,
\*   - MAXLEN: a message with StreamMax newer ones may be trimmed before it was ever
\*     published, and the drainer that no longer finds it drops its entry, and
\*   - the end of the room, for the messages stored before it.
NoMessageLost ==
    \A id \in 1..lastId :
        \/ Safe(id) \/ id \in forsaken
        \/ lastId - id >= StreamMax
        \/ ~open /\ id \notin Ids

\* Clients drop a message whose seq they have seen: two messages of an open room
\* never share one.
SeqsDistinct ==
    open => \A i, j \in DOMAIN stream : stream[i].seq = stream[j].seq => i = j

\* A drain looks at the first DrainBatch entries and leaves the too large ones where
\* they are: that many of them block the outbox.
Oversize == {id \in ToSet(pending) \intersect Ids : SizeOf(id) = "gap"}
Blocked == Cardinality(Oversize) >= DrainBatch

\* Unless the outbox is blocked, every entry that can be published leaves it.
PendingDrains ==
    \A id \in 1..MaxMsgs :
        id \in ToSet(pending) \ Oversize ~> id \notin ToSet(pending) \/ Blocked
=============================================================================
