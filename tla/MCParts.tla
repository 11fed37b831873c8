------------------------------ MODULE MCParts -------------------------------
(***************************************************************************)
(* Parts that share no state with one another, in one run: paging through  *)
(* a chat, its rate limit, the limits of send-code, the expiry of presence *)
(* keys, the life of the process and its configuration.  One of them runs  *)
(* at a time: the run's states are the sum of theirs and not the product.  *)
(***************************************************************************)
EXTENDS ChatHistory

CONSTANTS
    Calls, PerSecond, Second, MaxWait, MaxTime, MaxIncrs,     \* of ChatRate
    Limit, Win, Interval, MaxLimitTime, MaxCalls,             \* of SendLimit
    Rooms, Users, NoRoom, Reqs, MemberTTL, GlobalTTL,         \* of PresenceExpiry
    Visitors,       \* bound: the users who join in part "expiry"
    Slots,          \* bound: the requests that are made in part "own_expiry"
    Requests, Tasks,                                          \* of Server
    Absent, Blank, Bad, Numbers, Standard, Day                \* of Config

VARIABLES
    part,                                                     \* the part that runs
    now, count, expiry, call, incrs, sent, lost,
    limitNow, hits, lastHit, limitReq, calls, passed, answered,
    members, userRoom, active, pending, req, joined, missed,
    roomTTL, userTTL, activeTTL, pendingTTL, lapsed, forgotten,
    pc, db, redis, listener, errCh, stop, late, work, broken, killed,
    loading, cfg, file, env

rateVars == <<now, count, expiry, call, incrs, sent, lost>>
limitVars == <<limitNow, hits, lastHit, limitReq, calls, passed, answered>>
presenceVars == <<members, userRoom, active, pending, req, joined, missed,
                  roomTTL, userTTL, activeTTL, pendingTTL, lapsed, forgotten>>
serverVars == <<pc, db, redis, listener, errCh, stop, late, work, broken, killed>>
configVars == <<loading, cfg, file, env>>
mcvars == <<part, vars, rateVars, limitVars, presenceVars, serverVars, configVars>>

Rate == INSTANCE ChatRate
Sends == INSTANCE SendLimit WITH
    Reqs <- Calls, MaxTime <- MaxLimitTime, now <- limitNow, req <- limitReq
Presence == INSTANCE PresenceExpiry
Process == INSTANCE Server
Load == INSTANCE Config WITH pc <- loading

ASSUME PartsAssumption ==
    /\ Rate!RateAssumption /\ Sends!LimitAssumption /\ Presence!ExpiryAssumption
    /\ Process!ServerAssumption /\ Load!ConfigAssumption /\ NoRoom \notin Rooms

\* Settings about the bounds that normalize tests: 0, and a day of 6.
Given == {-1, 0, 1, 6, 7}

\* The parts that do not run rest in one state of theirs.
MCInit ==
    /\ part \in {"history", "rate", "limit", "expiry", "own_expiry", "process", "load"}
    /\ Rate!Init /\ Sends!Init /\ Presence!EInit /\ Process!Init
    /\ IF part = "history" THEN Init
       ELSE first = 1 /\ lastId = 0 /\ limit = 0 /\ got = <<>> /\ more = TRUE
    /\ IF part = "load" THEN Load!Init
       ELSE loading = "file" /\ cfg = Load!Default /\ file = <<>> /\ env = <<>>

MCNext ==
    \/ /\ part = "history" /\ Next
       /\ UNCHANGED <<part, rateVars, limitVars, presenceVars, serverVars, configVars>>
    \/ /\ part = "rate" /\ Rate!Next
       /\ UNCHANGED <<part, vars, limitVars, presenceVars, serverVars, configVars>>
    \/ /\ part = "limit" /\ Sends!Next
       /\ UNCHANGED <<part, vars, rateVars, presenceVars, serverVars, configVars>>
    \/ /\ part = "expiry" /\ Presence!ENext
       /\ \A u \in Users \ Visitors : userRoom'[u] = NoRoom
       /\ UNCHANGED <<part, vars, rateVars, limitVars, serverVars, configVars>>
    \/ /\ part = "own_expiry" /\ Presence!EOwnNext
       /\ \A q \in Reqs \ Slots : req'[q] = Presence!Idle
       /\ UNCHANGED <<part, vars, rateVars, limitVars, serverVars, configVars>>
    \/ /\ part = "process" /\ Process!Next
       /\ UNCHANGED <<part, vars, rateVars, limitVars, presenceVars, configVars>>
    \/ /\ part = "load" /\ Load!Next
       /\ UNCHANGED <<part, vars, rateVars, limitVars, presenceVars, serverVars>>

\* The goroutine of run is scheduled and time passes, in the part that runs.
MCSpec ==
    /\ MCInit /\ [][MCNext]_mcvars
    /\ WF_serverVars(part = "process" /\ Process!Run)
    /\ WF_serverVars(part = "process" /\ Process!Deadline)

----------------------------------------------------------------------------
(* Properties, beside PagesFit                                             *)

\* AllowChatSend: no second sees more than two windows' worth of messages, and a user
\* whose messages were all refused for a second is allowed again, unless his
\* EXPIRE was lost.
RateKept == Rate!RateKept

\* The limits of registerSendCode: no more calls than the limit in a window less the
\* longest wait, and every refusal has a cause that passes.
LimitKept == Sends!LimitKept

\* With TTLs on the presence keys: a room with members stays in room:active, and a
\* joined room is lost to the cleanup only with a set that expired as a whole, a failed
\* command of a leave, or a count that was outdated when its mark was cleared.
CandidatesKept == part = "expiry" => Presence!CandidatesKept

\* With TTLs and own-room leaves a user is in two rooms only if the index entry
\* expired before the room that lists the user did.
OneRoomUnlessLapsed == part = "own_expiry" => Presence!OneRoomUnlessLapsed

\* Whichever way run returns, the connections it made are closed, and no request
\* meets a closed one unless it outlives Shutdown's 10 s or the listener failed.
ClosesInOrder == Process!ClosesInOrder

\* A signal, or a listener that cannot serve, ends the process whatever the requests
\* do.
Ends == Process!Ends

\* What Load accepts is in range and is what the last readable source gives.
ConfigSound == part = "load" => Load!ConfigSound
=============================================================================
