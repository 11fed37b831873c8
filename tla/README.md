# WatchTvTogether: TLA+ models, checks and proofs

WatchTvTogether is the server of a watch-together application: users register with
an e-mailed code, create rooms, and an owner controls the video that everybody in the
room sees. Several servers share one PostgreSQL database (users, rooms) and one Redis
(everything that changes quickly); messages to browsers go through Ably. The code takes
almost no locks: its correctness rests on the order of single Redis commands. That is
what this project models.

Paths below are relative to the repository root.

## 1. Inventory

| Part (source) | State | Operations | What makes it correct | Module |
|---|---|---|---|---|
| Presence, Redis (`internal/cache/redis/room_presence.go`) | hash `room:members:<r>`, string `user:room:<u>`, sets `room:active`, `room:pending_empty` | `JoinRoom` (one Lua script), `LeaveRoom`/`RemoveMember` (MULTI, then up to four commands), `DeleteRoomPresence` (read, then MULTI), `ClearPendingEmpty` | a user is in one room; the cleanup can find every room | `RedisPresence`, `PresenceCandidates`, `PresenceMoves`, `PresenceExpiry` |
| Presence, memory (`internal/cache/memory/room_presence.go`) | four maps under a mutex | the same | the same, and the maps agree | `MemoryPresence` |
| Presence interface (`internal/cache/room_presence.go`) | who is in which room | the same | | `PresenceContract` |
| Cleanup scheduling (`internal/room/hub.go`, `internal/api/router.go`) | `global:room_cleanup_lock`, `global:last_room_cleanup_at`, goroutines | `MaybeRunGlobalCleanup` after each login | one cleanup at a time, not too often, never stuck | `CleanupJob` |
| Rooms from creation to teardown (`internal/api/room_handlers.go`, `internal/room/hub.go`, `internal/store/postgres/stores.go`) | room rows and all keys of a room | the handlers, `CloseRoom`, `RunEmptyRoomCleanup`, `closeEmptyRoom` | a closed room leaves nothing behind; an empty room is closed | `RoomLifecycle` |
| Playback control (`internal/room/hub.go`) | `room:state` with its version | `ApplyControl` | versions order the states | `RoomControl` |
| Projection and queue (`internal/room/project.go`, `hub.go`) | none | `ProjectedPlayback`, `projectState`, `nextInQueue`, `NextVideoAfterEnd` | viewers agree | `Playback` |
| Views of a state (`internal/api/room_handlers.go`, `admin_room_handlers.go`, `debug_handlers.go`) | none; up to two reads of `room:state` | state, snapshot, room list, administrators' and debug listing | what is shown was so | `RoomViews` |
| Chat (`internal/room/chat.go`, `internal/cache/redis/room_chat.go`) | sequence counter, stream, outbox | `SendChat`, `drainRoomPending`, `DeleteRoom` | stored messages arrive | `RoomChat` |
| Chat history (same files) | the stream | `ListChat` | pages fit together | `ChatHistory` |
| Verification codes (`internal/emailcode/store.go`, `internal/api/auth_handlers.go`) | code hash, cooldown key, daily counters | `PrecheckSend`, `RollbackPrecheck`, `CommitSend`, `Verify` | limits hold, codes are spent once | `EmailCode` |
| Accounts (`internal/auth/auth.go`, `internal/store/postgres`, both schemas) | `users` rows, unique indexes, the code of an address | `registerSendCode`, `RegisterWithCode` | one account per address and name, true answers | `Registration` |
| Sessions (`internal/auth/auth.go`, `internal/cache/redis/session_cache.go`) | password row, refresh token key, blacklist | register, login, refresh, logout, reset | a reset or logout ends what it should | `Session` |
| Access to private rooms (`internal/api/room_handlers.go`, `internal/cache/redis/room_access.go`, `internal/realtime/ably/jwt.go`) | set `room:access:<r>`, tokens | `canAccessRoom`, join, token, close | who is in has shown the password; grants last; tokens end | `RoomAccess` |
| Request limits (`internal/api/auth_handlers.go`, `internal/cache/redis/room_chat.go`) | stamps per address, last answer per e-mail, `room:chat:rate` | `allow`, `fakeRegisterCodeOK`, `AllowChatSend` | limits hold on the wall clock, refusals pass | `SendLimit`, `ChatRate` |
| Process (`cmd/server/main.go`, `postgres/db.go`, `internal/api/router.go`) | two connections, the listener, requests and tasks in flight | start-up, its error returns, signals, `Shutdown` | everything is closed, requests are waited for, the process ends | `Server` |
| Configuration (`internal/config/config.go`) | the settings | `Load`, `normalize`, `ChatLimitsFromConfig` | what is accepted is in range | `Config` |
| Test doubles (`internal/cache/memory`, the half of `emailcode/store.go` without Redis) | maps under mutexes | the same as their Redis counterparts | they answer as Redis does | `MemoryPresence`, `MemoryEmailCode`, `CacheDoubles` |
| In-process pub/sub (`internal/cache/memory/pubsub.go`) | subscribers' buffers, waiting goroutines | `Publish`, `Subscribe`, unsubscribe | once each, in order, no panic | `MemoryPubSub` |

Interaction. A handler authenticates (`Session`), loads the room row, then works on the
room's keys (`RoomLifecycle`, which extends `RedisPresence` and abstracts `RoomControl`
and `RoomChat` to "the room has such keys"). A login, refresh or registration starts a
goroutine that may run the cleanup (`CleanupJob` says when, `RoomLifecycle` what it
does), which also drains the chat outboxes, as does a 30-second ticker (`RoomChat`).
Registration and reset verify a code (`EmailCode`) before they touch the account;
sending one passes `SendLimit` first, sending a chat message `ChatRate`. `Registration`
keeps of `EmailCode` only which code an address has. `RedisPresence` has the commands that
`PresenceCandidates`, `PresenceMoves`, `PresenceExpiry` and `RoomLifecycle` put together;
`Config` checks what the other modules assume of their constants.

What is hard: every request is a sequence of commands, requests of several users and
servers interleave between any two of them, a request's context is cancelled when the
client hangs up and all its later commands fail, many errors are ignored on purpose, and
keys expire. `PROJECT.json` lists 40 hazards at their lines, with the properties that
would catch each.

## 2. Modules

A definition keeps the name of the function it models; `PROJECT.json` "map" gives the
lines. A definition whose comment starts with *Slip* is not part of the model: it is the
definition below it with a plausible programming error, and the property named for it in
"mutants" must fail when it takes that definition's place. Definitions and variables
marked *history* record the past for properties and influence no step.

* **PresenceContract**: the interface as an abstract specification of who is in which room
  and of what `GetUserRoom` answers. `Spec` has `Clear`, the deletion of a room's presence;
  `OpenSpec` has not, and there nobody disappears from a room but by a join or a leave of
  his own.
* **MemoryPresence**: one atomic action per method. `activeRooms` and `pendingEmpty` are
  the two sets of the source.
* **RedisPresence**: the commands. `JoinRoom` is atomic because it is one script.
  `RemoveMember` is the MULTI of `removeMember`; `RemoveCount`, `RemoveDeactivate`,
  `RemoveKey`, `RemoveMark` are its HLEN, SREM, DEL and SADD. `req[q]` is the program
  counter of a request. `CommandFails`: a command fails; after HLEN the code ignores that
  and goes on. A client that hangs up makes all the commands left fail. `CountMembers` and
  `ClearPendingEmpty` are the cleanup's, with anything possible in between.
* **PresenceCandidates**: all of these commands, on any room, by requests and cleanups at
  once. `missed` is history: rooms that a failed command of a leave, or a clear on an
  outdated count, took out of both candidate sets.
* **PresenceMoves**: the same commands where users leave, and are kicked from, the room
  their index entry names and no room is deleted. `crossed[q]` are the users who joined
  between HLEN and DEL of the leave in slot `q`, `evicted[r]` those whose entry that DEL
  then deleted; both are history.
* **CleanupJob**: a goroutine reads the last time, tries SETNX, runs, sets the time and
  deletes the lock. Times are ages in minutes (5, 2 and 5 in the code), so nothing is
  bounded. A goroutine can crash at any command; when its context has timed out, so does
  the deferred release, which uses the same context.
* **RoomLifecycle** extends `RedisPresence`. `hand[q]` is what the handler in slot `q`
  does next; slot `Job` is the cleanup. `Load` is the row lookup every handler starts
  with. Teardown deletes state, presence, access and chat one after the other, after the
  row. Any deletion may fail, any client may hang up. Of state, chat and grants only their
  existence is kept.
* **PresenceExpiry** extends `PresenceCandidates` with what is left of the TTL of each key.
  `EJoin` is the script with its EXPIREs, `ERemoveStep` has the SADD and EXPIRE of a leave;
  the other actions are those of `PresenceCandidates` wrapped in `EStep`, which only drops
  TTLs of keys that are gone. `Tick` lets keys expire. `lapsed` and `forgotten` are history.
* **Playback**: pure operators, among them what five handlers show of what their reads
  returned (`StateView`, `Snapshot`, `EnrichRoomFromCache`, `AdminItem`, `DebugItem`): a
  state, none, or an error (`NoRead`), which all but GET state take for none.
  **RoomControl**: the three calls of `ApplyControl` as three actions, and the expiry of
  `room:state`. **RoomViews** adds a handler that looks at the state, once or twice, while
  control requests, the clock and the expiry change it; each read may fail. `look.seen` is
  history: what GET state would have shown at each of its reads.
  **MCRoomControl** gives the control messages and three instances: requests one after the
  other with many messages and a clock, overlapping requests with an expiry, and the views
  with a clock, an expiry and two versions. What a control message and a stored state may be is said in `Messages` and `RoomStates`,
  so that the proofs hold for every message the handler lets through.
* **RoomChat**: sender and drainer steps, each one command or one publish. Message sizes
  are the three cases the code tells apart: fits, fits only without its `stream_id`, too
  large. XADD `MAXLEN ~` may keep more than the limit. A failed publish may have arrived.
  The outbox is a sequence in the order of the sorted set; `RemovePending` is its ZREM.
* **ChatHistory**: a client that pages to the end while the stream grows and is trimmed.
  Ids are numbered as they are issued, so the stream is the interval `first..lastId`: XADD
  extends it at one end, trimming shortens it at the other.
* **EmailCode**: a code is the number of the mail that carried it; the commands of sends
  and verifications are separate actions, with a clock that expires keys. The clock has
  `Sec` ticks to the second, because EXPIRE, TTL and the field `exp` count in seconds:
  go-redis cuts a duration to whole seconds (`Whole`; less than one becomes one), Redis
  rounds what is left to the nearest (`Rounded`), `time.Unix` cuts a moment (`Unix`).
* **Session**: one account; a token pair is the number of its issue. Login and refresh
  are a check followed by `issuePair`.
* **Registration**: several accounts. A request is its program counter and what it asks
  for; `migrated` says which of the two schemas the table has. `CreateUnanswered` is an
  INSERT whose answer is lost.
* **RoomAccess**: `Begin` to `Pass` are the steps of `canAccessRoom` and of the handler
  behind it (join, token, or a read). Whether a client sends the right password is free.
  `Manages` says who manages which room (owner or administrator). `over` is history: the
  requests that had loaded a room when its row was deleted. **MCSession** runs
  `Session`, `Registration` or `RoomAccess`, the last for joins and reads and for tokens
  by themselves; in the run the owner manages the room and two guests do not.
* **SendLimit**: `allowStamp` reads the clock, `allow` decides under the mutex, at most
  `MaxWait` later. The stamps kept for an address are named by the number of the call
  that was let through; the code compares and counts them only, so their order in its
  slice is left out. **ChatRate**: INCR and EXPIRE are two actions, the second may fail.
* **MemoryPubSub**: one channel. A message stands for its `Publish`; `spill` are the
  goroutines that wait for a full buffer. After `Cancel` the loop and each goroutine notice
  for themselves, and until then may still send. `panic` ends the process.
* **Server**: `pc` is the line `run` has reached; `Signal` may come anywhere. Requests may
  hang, tasks run until the process ends.
* **Config**: a setting is a number, blank or unreadable; settings are grouped by what
  `normalize` asks of them. The built-in numbers are those of the code, in each of the
  three places that has a copy.
* **MemoryEmailCode**: `EmailCode` without Redis, one action per operation; an operation
  may carry a time that was read before it got the mutex (`Stamps`). **MCEmailCode** runs
  either store on the same clock and senders, the one on Redis once for the limits and once
  for the codes.
* **CacheDoubles**: each call is made on the in-memory and on the Redis cache at once, so
  that their answers can be compared in every state.
* **MCMemory** runs `MemoryPresence`, `MemoryPubSub` or `CacheDoubles`; **MCParts** runs
  `ChatHistory`, `ChatRate`, `SendLimit`, `PresenceExpiry`, `Server` or `Config`, and gives
  the settings that lie about the bounds of `normalize`.

Modules of the form `MC*` that run one of several parts choose it in the initial state
(`part`, `store`) and never change it. The parts share no state, so no behaviour is lost:
the run's states are the sum of the parts' and not their product, and each property is
checked in its own part. A property composed of several (`RateKept` of `BurstBound` and
`RefusalPasses`, for example) is a conjunction of named invariants in the component's
module, each with its own comment.

## 3. Runs

| Run | Part and instance | Shows |
|---|---|---|
| `memory_presence` | presence: 3 rooms, 3 users | `PresenceInv`, and the refinement of `PresenceContract` |
| | pub/sub: 2 subscribers, 2 messages, buffer 1 | `SurvivesUnlessCrossed`, `ExactlyOnce` |
| | caches: 1 user, session TTLs 0 and 2, 4 ticks | `DoublesAgree` (sessions, state, grants, cleanup lock) |
| `redis_presence` | 2 rooms, 2 users, 2 requests or cleanups between commands | `OccupiedIsActive`, `JoinedRoomIsCandidate`: no interleaving of SREM, DEL, SADD and joins hides a room from the cleanup; a failed one, or a clear on an outdated count, can |
| `redis_own_room` | 2 rooms, 2 users, 2 requests | when leaves name the right room: `IndexNamesRoom` and the refinement of `OpenSpec`, with evictions as the only exception |
| `two_rooms` | as `redis_presence` | **violated**: `AtMostOneRoom` (section 6) |
| `cleanup_job` | 2 goroutines, the code's 5/2/5 minutes | `ExclusionUnlessOverrun`, `EarlyJobIsOld`, `CleanupRecurs` |
| `room_lifecycle` | 2 rooms, a request and the cleanup, pages of one row | `TeardownComplete`, `EmptyRoomIsClosed` |
| `room_control` | play: one request at a time, 7 messages over 3 videos, times 0..4 | in every state requests can store: projection (`ProjectionComposes`), the queue (`NextPlaysAll`) |
| | views: one request at a time, 3 messages, 2 versions, one expiry, times 0..4, reads that fail | `ViewsHonest` (`ShownRuns`, `ShownEmpty`) |
| | versions: 2 requests, 2 messages, one expiry | `VersionsInOrder` (`NoVersionGap`, `SyncsInOrder`), `PassedIsCurrent` |
| `room_chat` | 2 senders, 2 drainers, 4 messages, outbox limit 1, stream limit 2 | `PendingBound`, `NoMessageLost`, `SeqsDistinct` |
| `room_chat_drains` | 2 senders, 1 drainer | `PendingDrains` under fairness |
| `limits_and_process` | history: up to 7 messages, page limit 3, default 2, limits 0..4 | `PagesFit` (`PagesContiguous`, `HasMoreBelowMax`) |
| | chat rate: 2 calls in flight, 7 in all, limit 2, a second of 3 ticks | `RateKept` (`BurstBound`, `RefusalPasses`) |
| | send-code: 2 calls in flight, 5 in all, limit 2 in 3 ticks, interval 2, wait 1 | `LimitKept` (`WindowBound`, `RefusalHasCause`) |
| | presence with expiry: 2 rooms, TTLs 2 and 3 days; candidates: 1 user, 2 requests or cleanups; own rooms: 2 users, 1 request | `CandidatesKept` (`OccupiedIsActive`, `CandidateUnlessForgotten`); `OneRoomUnlessLapsed` when leaves name the right room |
| | process: 2 requests, 1 task | `ClosesInOrder` (`ReturnsClosed`, `ServedWhole`), and `Ends` under fairness |
| | configuration: every setting alone, the two Ably lifetimes together; -1, 0, 1, the largest and one more | `ConfigSound` (`AcceptedInRange`, `LastSourceWins`, `LimitsAgree`) |
| `email_code` | 2 sends in flight, 3 in all, a second of 3 ticks, days of 2 seconds, limit 1; codes on Redis: 2 verifications in flight, 2 codes, 2 attempts | `SendsLimited` (`DailyCap`, `CooldownKept`), `SpentGone`, `LatestUsable` |
| `session` | sessions: 2 requests, 3 pairs, 1 reset, access token 1 tick, refresh token 2, leeway 1 | `ResetEndsSessions`, `SpentStaysSpent`, `LoggedOutRefused` |
| | registration: 2 send-code and 2 register requests, 2 addresses, 2 names in 2 spellings, either schema | `RegistrationSound` (`OneAccount`, `AddressProved`, `AnswersTrue`, `ErrorHasCause`) |
| | access: a room, its owner and two guests, 2 requests, grant 2 ticks, token 1, 4 ticks | `AccessAsEarned` (`AccessEarned`, `GrantLasts`), `TokensEnd` |

Bounds. Every race in this code is between two requests, or a request and a background
job, so two slots of each kind reach it; a third actor only repeats what a second one
does. Two rooms and two users are needed for a move and for an eviction, and two guests
for a grant that could serve, or cut short, another's. In `room_chat` a stream of 2 is the
least in which a message that is not the newest is neither trimmed nor excused, and the
fourth message trims it while it waits. In `email_code` a second of 3 ticks tells a third
of a second, which TTL rounds away, from two thirds, which it does not; the clock starts
(`Start`) in the last second but one of a day, and the codes are verified at the three
moments (`Moments`) at which they can be fresh, on their last tick, and expired. Limits are set
to 1 or 2 so that they are reached and passed. In `room_lifecycle` room 1 is only
created and room 2 is the one requests are made for (`Visited`): with a page of one row
room 2 pushes room 1 off the list of the cleanup, the case behind the last disjunct of
`EmptyRoomIsClosed`. In `ChatHistory`, 0 and 4 are the limits that are replaced by the
default and by the maximum. Clocks end at `MaxTime`/`MaxNow`, late enough for every key
to expire and, in `EmailCode`, for a midnight. In `PresenceExpiry` only what is left of
TTLs is kept, so no clock is bounded; a member TTL of 2 is the least in which a second
join falls between a join and its expiry. `Config` lets one setting be given at a time
because only the Ably lifetimes meet. `MaxWait` in `SendLimit` and `ChatRate` is not a
bound of the run but the delay that their properties allow for.

Deadlock is checked in the presence runs on Redis, `cleanup_job` and `room_lifecycle`.
In the others a part may come to its end: the bounded number of versions,
messages, calls or ticks is used up, the client has all pages, or the process has ended.

Fairness.
* `CleanupJob!FairSpec`: time passes, users keep logging in, goroutines proceed
  (weak fairness). SETNX follows the read at once, so goroutines do not always
  crash in exactly that gap (strong fairness of `TryAcquireCleanupLock`).
* `RoomChat!FairSpec`: the ticker restarts drains; Ably and Redis are not down
  for ever, so what a drain tries again and again succeeds some time (strong
  fairness of the drain steps). Nothing makes a *sender* succeed.
* `RoomLifecycle!LFairSpec`: requests and cleanups proceed; cleanups recur (that is
  `CleanupRecurs`); reads, counts and deletions that are tried again and again
  succeed some time. Failures and hang-ups remain possible for ever.
* `MCParts!MCSpec`, for `Server`: the goroutine of `run` is scheduled and the 10 seconds
  of `Shutdown` pass (weak fairness). Nothing makes a request end.

## 4. Proofs

TLAPS proves every safety invariant and every action property that the passing runs check,
for all values of the constants that satisfy the named assumptions: any number of requests,
users, rooms, messages, any limits and lifetimes. A theorem is stated over the specification
of its component or, where a property is that of an `MC*` module that runs one of several
parts, over that module's `MCSpec` (in which the component takes every step it can take).
Invariants that were found for the proofs were first checked by TLC on the instance of the
run. "Types" below are what a proof needs of the domains of the variables.

* **MemoryPresence_proofs** (presence, pub/sub and caches in memory).
  * `PresenceInvariant`: `PresenceInv` is inductive as it stands; it says that the index is
    the inverse of the member maps, which `AtMostOneRoom` (`OneRoomPerUser`) alone does not,
    and a join needs it to find the room to leave. `MemoryImplementsContract`: with it every
    step is a step or a stutter of the contract.
  * `DoublesDoAgree`: answers that agree now need not agree after a tick, so `SessionInv`
    adds that what is found under a session key expires at the same moment in both caches,
    and `LockInv` that a lock held in memory has a goroutine that will free it.
  * `SurvivesAsLongAsUncrossed`: `HeldInv`, a channel that a publish or a goroutine still
    holds is subscribed, or was taken out of the map while held (`crossed`).
  * `EveryMessageOnce`: `PlaceInv` puts a message on its way to a subscriber in at most one
    of three places (still to be served, with a goroutine, in the channel), `AccountInv` in
    at least one; that nothing is received twice follows.
* **RedisPresence_proofs** (presence in Redis, and the lifecycle on it).
  * `CandidateInvariant`: `CandidateInv` = types, `OccupiedIsActive`,
    `JoinedRoomIsCandidate`; the two need each other because SREM may take a room that has
    members again out of `room:active`, and only the DEL that follows makes that right.
  * `IndexNamesEveryRoom` and, from it, `RedisImplementsContract`, for `OwnRoomSpec`:
    `IndexInv`, whoever is in a room that a leave is about to delete joined after its HLEN
    (`OnlyCrossed`), and whoever was evicted is still named there by the index
    (`EvictedNamed`). Members and evicted together are the occupants of the contract, which
    has no `Clear` here: a DEL that took anyone else would refute it.
  * `TeardownIsComplete`: `LifeInv`. `HandInv` says where a handler and the presence
    commands it is between can be together. `CloseInv`, of a closed room that is not
    tainted: only teardowns work on it (`Work`), and each kind of key still there has a
    teardown that is yet to delete it (`Covered`). `TeardownComplete` speaks of rooms nobody
    works on; in between `Covered` is what carries the argument, the more so because two
    teardowns of a room may overlap.
* **CleanupJob_proofs**. `Exclusion`: `MutualExclusion` needs `ExclusionInv`: the lock
  has at least `LockTTL - age` minutes left for each holder, hence is there while a
  holder younger than `LockTTL` runs. `EarlyJobsAreOld` is inductive with the types.
* **RoomControl_proofs**.
  * `VersionsStayInOrder`, `PassedRequestsAreCurrent`: `GapInv`, a version about to be
    stored follows one that has been; `OrderInv`, while nothing has raced or expired at most
    one request is under way and it is ahead of everything published.
  * `ProjectionsCompose`: lemmas on `Playback` for all positions, durations and times; of
    the invariant only the types are needed, in particular that no stored time is in the
    future. `ViewsStayHonest`: what a look shows is decided at its last read and compared
    with what it has seen; `LookInv` says which handlers can be between two reads.
  * `NextPlaysEveryItem`: for queues of any length. The presses of "next" are a recursive
    function; that the k-th plays item k + 1 is shown by contradiction from the least k at
    which it does not.
* **RoomChat_proofs**.
  * `NoMessageIsLost`: with `RemoveInv`, a drainer about to remove an entry has published it,
    and `StreamInv`, of an open room the newest `StreamMax` messages are in the stream, so
    that what a drainer no longer finds is older.
  * `OutboxStaysBounded`: `PendingBound` counts the senders under way (`Busy`) and is
    inductive with the types: whoever has passed the check is in the sum until it has added
    its entry or given up.
  * `SeqsStayDistinct`: `SeqInv`, the counter of an open room is no less than any number in
    the stream or in the hands of a sender, and these are all different.
* **EmailCode_proofs** (both stores, on the same properties).
  * `SendsStayLimited`: on Redis `SendsInv`: today's counter covers the mails and the slots
    in use of today until it lapses, which is in the day's last second, and the one that
    follows covers those after; days to come are untouched (`DayInv`). A cooldown is running
    or over, and over but for half a second for whoever is alone past the test (`CoolInv`).
    Lemmas bound what cutting and rounding to seconds takes away.
  * `SpentCodesAreGone`, `LatestCodeStaysUsable`: `CodesInv`. A code that is mailed but not
    stored is new to everyone (`FreshInv`), what is stored is the last code or what a late
    HSET left (`HashInv`), a verification in flight is alone with its code or the code is
    excused (`MeetInv`), attempts are counted (`AttemptInv`), and the last code stays from
    its EXPIRE on (`LastInv`).
  * In memory operations are atomic. `MemorySendsInv` speaks of the one counter for
    whatever day came last; `MemoryCodesInv` needs none of the exceptions for races over
    a code.
* **Session_proofs** (sessions, access, registration).
  * `SpentTokenStaysSpent` needs `SpentInv`: two requests about to issue for one pair have
    been noticed (`twice`). `ResetEndsOldSessions` needs `ResetInv`: a request that was in
    flight over no reset rests on the current password, or on a pair for which the property
    holds already. `LoggedOutStaysRefused`: `OutInv`, the blacklist entry outlives the token.
  * `AccessStaysEarned`, `TokensDoEnd`: `GrantInv`, the set of a room's grants does not
    expire before the last of them and keys go only after the row, which never comes back;
    `OverInv`, whoever is past the lookup of a room that is gone was under way when it went;
    `TokenInv`, tokens end within a TTL of now, or of the closing.
  * `RegistrationsAreSound`: `CodeInv`, a code is mailed once to one address and is what a
    request past `Verify` has shown; `AccountInv`, an account is what its request asked for;
    `AnswerInv`, what requests about to answer know.
* **MCParts_proofs** (the parts of `MCParts`).
  * `ConnectionsCloseInOrder`: what `run` has opened and closed at each line.
  * `ConfigIsSound`: `ConfigInv`, a setting that is a number is the one given last, at each
    stage of `Load`; `StandardInts`, the three copies of the built-in numbers agree.
  * `CandidatesAreKept`: `TTLInv`, a room's members expire with or before `room:active` if
    that lists the room, since the join that renews the one renews the other; this is what
    `CandidateInv` lacks where keys expire. `OneRoomStaysUnlessLapsed`: `IndexInv`.
  * `RateIsKept`: `SpacedInv`, a key lives for at least a second, so that messages two
    windows apart are a second apart; `ExpiresInv`, it lives no longer than that and a wait
    unless an EXPIRE is lost or on its way.
  * `LimitsAreKept`, an invariant and an action property: `KeptInv`, whoever was let through
    within the window less a wait is remembered, with a stamp at most a wait old.
  * `PagesDoFit`: `PagesInv`, what a client has runs down from its first message without a
    gap.

Assumptions, each evaluated by TLC in the runs. `NoRoom` is not a room
(`NoRoomAssumption`), `NoState` and `NoRead` are no states (`ControlAssumption`, which also takes
the control messages from those the handler lets through). Times, TTLs, limits and page sizes that the configuration
or the code makes positive are positive, bounds and waits are naturals (`TimesAssumption`,
`SessionAssumption`, `LimitsAssumption`, `EmailAssumption`, `LifecycleAssumption`,
`PagesAssumption`, `MemoryAssumption`, `AccountsAssumption`, `PartsAssumption`, the last
three for all the parts of their modules). The default page is no larger than the largest.
Where requests are counted there are finitely many at once (`Senders` in
`LimitsAssumption`, `EmailAssumption`).

Only model-checked: the four liveness properties, `CleanupRecurs`, `PendingDrains`,
`EmptyRoomIsClosed` and `Ends`, which rest on fairness, and fairness on `ENABLED`; neither
is within the provers' reach. `AtMostOneRoom` of the Redis presence is refuted by
`two_rooms`. The theorems prove the properties with the exceptions of section 5, which are
behaviour of the code, and none without.

## 5. What the properties leave open

Several properties hold only with an exception, which the model computes exactly from a
history variable. Each exception is behaviour of the code:

* `ExclusionUnlessOverrun`: the lock's TTL is 2 minutes, the job may live 5
  (`hub.go:348`, `router.go:71`), and the release is a DEL without an owner.
  `docs/room_empty_cleanup_ops_zh.md:72` calls it a global mutual exclusion lock.
* `EarlyJobIsOld`: the interval of 5 minutes (ops doc, line 15) is checked against a
  value read before the lock; a goroutine older than the last cleanup may pass.
* `VersionsInOrder` (`raced`): two requests that overlap store the same version and the
  later write wins, although `internal/model/model.go:71` says "ControlVersion increases on
  each owner control/snapshot write so stale clients cannot overwrite newer state".
* `PendingBound`: the outbox can exceed its limit by the senders under way, less one.
* `NoMessageLost` (`forsaken`): a request cut short between XADD and ZADD, and a drainer
  that takes a failed read for a trimmed entry, give a stored message up. So does XADD's
  MAXLEN: a message that waits in the outbox while `CHAT_STREAM_MAX_LEN` newer ones are
  stored is trimmed, and the drainer drops its entry (`chat.go:267`) although it was never
  published. Section 5.3 of `docs/room_chat_realtime_design_zh.md` promises redelivery of
  what Ably has not confirmed.
* `PendingDrains` (`Blocked`): a batch of oversize entries blocks the outbox.
* `HasMoreBelowMax`: at the largest page (200) `ListChat` asks for 201 and
  `ListMessagesRev` clamps to 200, so `has_more` is always false.
* `JoinedRoomIsCandidate`, `OccupiedIsActive`, `CandidatesKept` (`missed`): a leave whose
  SADD fails, as when its client hangs up after SREM, takes the room out of both sets; so
  does one whose DEL fails over members who joined since. A cleanup that counted members
  (`hub.go:483`) and clears the mark (`hub.go:493`) after the last of them has left and
  marked the room takes it out as well. Only the database list of the cleanup finds these
  rooms (`EmptyRoomIsClosed`, where all of this is possible).
* `IndexNamesRoom`, `ImplementsContract` of `PresenceMoves` (`evicted`): the DEL of a leave
  that counted no members deletes those who have joined since (`room_presence.go:109-115`).
  They stay in `room:active` and in the index and are in no member list.
* `EmptyRoomIsClosed`: the cleanup asks for 500 rows (ops doc, line 28) but
  `normalizePage` (`stores.go:177`) replaces limits above 100 by 50: an empty room with
  50 newer ones that no Redis set names is not looked at.
* `TeardownComplete` (`tainted`): requests that loaded the room before its row was
  deleted write keys afterwards; failed deletions are not repeated.
* `SendsLimited`: `DailyCap` (`strayed`), a rollback after midnight decrements the next
  day's counter; (`lapsed`), the counter is made to expire in whole seconds
  (`store.go:121`), so that it can be gone in the last second of its day, which then admits
  as many mails again.
  `CooldownKept` (`overlap`), sends in flight together all pass the check; a cooldown of
  which less than half a second is left counts as over (`store.go:110-114`).
* `SpentGone`, `LatestUsable` (`excused`): concurrent verifications of one code,
  a code stored while an older one is being verified, ignored HSET and DEL errors.
* `ResetEndsSessions` (`late`), `SpentStaysSpent` (`twice`): a login or refresh in flight
  over a reset, two refreshes at once. `LoggedOutRefused` speaks of the time before
  `exp`: in the parser's 5 seconds of leeway a logged-out token is accepted again.
* `OneRoomUnlessLapsed`: a join renews the hash of the room for everybody in it, but the
  index entry only of who joins. A member who stays 7 days in a room that others join
  loses the entry and can then join a second room: expiry breaks the promise of section 6
  too.
* `CandidatesKept` (`forgotten`): `room:active` expires as a whole 7 days after the last
  join anywhere, `room:pending_empty` after 30; the cleanup's database list remains.
* `VersionsInOrder`, `PassedIsCurrent` (`restarted`): after `room:state` has expired versions
  start at 1 again, and a client that remembers a higher one passes the check.
* `NextPlaysAll`: after the last item of a sequential queue "next" stores no video, where
  the automatic advance stays on the last one; "next" again starts the queue over.
* `ViewsHonest`: the list of rooms and the second read of the debug listing do not project
  and show the stored video after its end. If the state of its second read names no video
  the administrators' list shows the one of its first read, with the action of the second.
  A read that fails (`hub.go:91`, `hub.go:528`, `admin_room_handlers.go:82`) is taken for a
  room without a state: a room that plays is shown empty and paused, where GET state
  answers an error.
* `WindowBound` holds for a window shorter by `MaxWait`. `BurstBound` allows twice the
  limit: the window is fixed.
* `RefusalPasses` (`lost`): `docs/room_chat_realtime_design_zh.md:182` limits each user to N
  messages per second. An EXPIRE that is not executed (its error is ignored,
  `room_chat.go:149`) is never sent again, and once the counter has reached the limit the
  user is refused in that room until the key is deleted by hand.
* `GrantLasts`: `Notes.md:31` says a grant is valid until the room is closed or deleted;
  `roomAccessKeyTTL` (`room_access.go:10`) ends all grants of a room 30 days after the last
  one was made.
* `TokensEnd` (`late`): nothing revokes tokens, and a request that had loaded the room when
  its row was deleted issues one afterwards; requests that begin later get none. `AccessEarned` is about the password ever shown: no
  handler changes a room's password.
* `SurvivesUnlessCrossed`: unsubscribing closes a channel that a publish may still hold.
  A message left to a goroutine because a buffer was full is overtaken by later ones.
* `AnswersTrue` (`faulted`): after a failure at or behind the INSERT the client is told of
  an error and has an account.
* `RegistrationSound` holds on either schema, but on the one that `Open` applies
  (`schema.sql`, without the column `email`) because every user query fails.
  `store_suite.go:38` expects to create a user on such a database; the test is skipped
  without `POSTGRES_TEST_DSN`.
* `ServedWhole`: requests longer than 10 seconds, and all of them when the listener fails,
  meet closed connections; background tasks are not waited for.
* `AcceptedInRange` leaves out the lifetimes of the access and refresh tokens, which
  `normalize` does not test, and an `email_code_length` above 12, which it accepts.
* `SendsLimited` of `MemoryEmailCode` (`strayed`): one counter for whatever day came last.
  `SpentGone` and `LatestUsable` hold there without exception, so tests on it
  cannot meet the races that excuse them in `EmailCode`.
* `DoublesAgree` (`endless`, `lapsed`, `woken`): a TTL of 0,
  keys that expire only in Redis, and goroutines that free a lock taken again since.

## 6. Finding

`two_rooms`: `internal/cache/room_presence.go:15` promises "A user may appear in at most
one room at a time (enforced by JoinRoom)". The Redis `removeMember` deletes
`user:room:<u>` whatever room it names, so a leave or kick for a room the user is not in
erases the index entry, and the next join leaves the user in two rooms. The in-memory
implementation compares first; `OneRoomPerUser` proves it right. On Redis, when every leave
names the room the user is in, no room is deleted meanwhile and no key expires, nobody is in
two rooms (`redis_own_room`, `IndexNamesEveryRoom`); what can still go wrong then is the
eviction described in section 5.

## 7. Not modelled

The SCAN over rooms with an outbox, the Redis relay of pub/sub (called by no handler), the
Ably and mail clients beyond success, failure, lost answers and token lifetimes, CORS,
error texts, logging, and the filters on texts in `pkg/`. Reasons are in `PROJECT.json`
"components". The operations of the components listed there as modelled are actions of a
module; components listed as partly modelled say what is left out. Each module is as exact
as its comments say and no more: times are ticks, messages are sizes, and modules that
abstract a neighbour (`RoomLifecycle` the state and the chat, `Registration` the codes) keep
only its existence.

## 8. Plan

Done: presence with its contract and its expiry, cleanup scheduling, lifecycle, control,
projection and views, chat, its limit and history, codes in both stores, registration,
sessions, access, request limits, the in-memory caches, pub/sub, configuration and the
process. What comes next:

1. The safety half of the liveness arguments as theorems, from which fairness alone would
   remain: that a drain which publishes shortens the outbox of what does not block it, that
   the way of `run` to its exit is a well-founded order, that no cleanup takes an empty room
   it looks at back.
2. A refinement of `RoomLifecycle` by an abstract room that is open, closing or gone.
3. `RoomLifecycle` with two concurrent requests on two rooms in TLC, if symmetry makes it
   fit; the theorem covers any number, the liveness property is checked for one request.
