------------------------------ MODULE MCMemory ------------------------------
(***************************************************************************)
(* The stores of internal/cache/memory in one run.  They share no state,   *)
(* so nothing is lost by running one of them at a time: its state graph is *)
(* explored from the initial states that name it.                          *)
(***************************************************************************)
EXTENDS MemoryPresence, Naturals, Sequences

CONSTANTS
    Subs, Msgs, Cap,                                  \* of MemoryPubSub
    Granted, SessionTTLs, StateTTL, AccessTTL, LockTTL, MaxTime   \* of CacheDoubles

VARIABLES
    part,                                             \* the store that runs
    sub, buf, got, pub, spill, panic, owed, dropped, crossed,
    now, mem, red, memLock, sleepers, redLock, endless, lapsed, woken

pubsubVars == <<sub, buf, got, pub, spill, panic, owed, dropped, crossed>>
doubleVars == <<now, mem, red, memLock, sleepers, redLock, endless, lapsed, woken>>

PubSub == INSTANCE MemoryPubSub
Doubles == INSTANCE CacheDoubles WITH Users <- Granted

ASSUME MemoryAssumption == PubSub!CapAssumption /\ Doubles!DoublesAssumption

MCInit ==
    /\ part \in {"presence", "pubsub", "doubles"}
    /\ Init /\ PubSub!Init /\ Doubles!Init

MCNext ==
    \/ part = "presence" /\ Next /\ UNCHANGED <<part, pubsubVars, doubleVars>>
    \/ part = "pubsub" /\ PubSub!Next /\ UNCHANGED <<part, vars, doubleVars>>
    \/ part = "doubles" /\ Doubles!Next /\ UNCHANGED <<part, vars, pubsubVars>>

MCSpec == MCInit /\ [][MCNext]_<<part, vars, pubsubVars, doubleVars>>

----------------------------------------------------------------------------
(* Properties, beside those of MemoryPresence                              *)

\* No order of subscribing, publishing, cancelling and unsubscribing makes a send
\* meet a closed channel, unless someone unsubscribed while a Publish, or a
\* goroutine of it, held the channel.
SurvivesUnlessCrossed == PubSub!SurvivesUnlessCrossed

\* Nobody gets a message twice, nor one from before subscribing, and until its caller
\* cancels every message is accounted for at every subscriber it was owed to.
ExactlyOnce == PubSub!ExactlyOnce

\* What a test with the caches in memory shows of tokens, room state, grants and the
\* cleanup lock holds on Redis, up to the differences over TTLs that are named there.
DoublesAgree == Doubles!DoublesAgree
=============================================================================
