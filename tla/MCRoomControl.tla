---------------------------- MODULE MCRoomControl ---------------------------
(***************************************************************************)
(* RoomViews on three small instances in one run.  What a state shows      *)
(* ("play") wants many messages and a clock, and requests one after the    *)
(* other; the order of versions ("versions") wants requests that overlap   *)
(* and a state that expires, and hardly any messages; the reads of the     *)
(* views ("views") want a state that changes, expires and plays on in      *)
(* between.  The product of the three is out of reach.                     *)
(***************************************************************************)
EXTENDS RoomViews, TLC

CONSTANTS a, b, c

VARIABLE part       \* the instance

Msg(action, position, video, queue, mode, duration) ==
    [action |-> action, position |-> position, video |-> video, queue |-> queue,
     mode |-> mode, duration |-> duration]

\* Start a queue of three, loop it, play in the middle of an item or before its
\* start, press next, switch without naming a video, play outside the queue.
PlayMsgs ==
    {Msg("play", 0, a, <<a, b, c>>, "", 3), Msg("play", 2, c, <<a, b, c>>, "loop", 3),
     Msg("play", -1, b, <<b>>, "sequential", 0), Msg("next", 0, NoVideo, <<>>, "", 0),
     Msg("switch", 0, NoVideo, <<b, c>>, "", 0), Msg("play", 1, c, <<a, b>>, "", 2),
     Msg("pause", 9, NoVideo, <<>>, "", 4)}

VersionMsgs == {Msg("play", 0, a, <<a, b, c>>, "", 3), Msg("next", 0, NoVideo, <<>>, "", 0)}

\* A video of known length, none at all, and the next.
ViewMsgs ==
    {Msg("play", 0, a, <<a, b, c>>, "", 3), Msg("play", 0, NoVideo, <<>>, "", 0),
     Msg("next", 0, NoVideo, <<>>, "", 0)}

Alone == \A q \in Reqs : req[q] = Idle

MCInit == VInit /\ part \in {"play", "versions", "views"}

Control ==
    \/ /\ part = "play" /\ Alone
       /\ \E q \in Reqs, msg \in Msgs, cv \in Known : Begin(q, msg, cv)
    \/ /\ part = "versions"
       /\ \E q \in Reqs, msg \in VersionMsgs, cv \in Known : Begin(q, msg, cv)
    \/ /\ part = "views" /\ Alone /\ Version(st) < 2
       /\ \E q \in Reqs, msg \in ViewMsgs : Begin(q, msg, 0)
    \/ part \in {"play", "views"} /\ Tick
    \/ part \in {"versions", "views"} /\ Expire
    \/ \E q \in Reqs : Step(q)

\* A behaviour ends with what its first look shows: the next look starts afresh.
MCNext ==
    /\ UNCHANGED part
    /\ look.pc # "shown"
    /\ \/ Control /\ UNCHANGED look
       \/ part = "views" /\ LookNext

MCSpec == MCInit /\ [][MCNext]_<<vvars, part>>

\* The slots are interchangeable.
ReqSymmetry == Permutations(Reqs)
=============================================================================
