---------------------------- MODULE MemoryPubSub ----------------------------
(***************************************************************************)
(* internal/cache/memory/pubsub.go: one channel of the in-process fan-out. *)
(* Publish copies the subscribers under the lock and sends without it; a   *)
(* send that finds a buffer full is left to a goroutine.  unsubscribe      *)
(* takes the Go channel out of the map under the lock and closes it after. *)
(* A send on a closed Go channel, waiting or not, is a panic.              *)
(***************************************************************************)
EXTENDS Naturals, Sequences, FiniteSets, SequencesExt

CONSTANTS
    Subs,   \* subscribers; each subscribes at most once
    Msgs,   \* messages; each is published at most once, by a caller of its own
    Cap     \* the buffer of a subscriber (16)

CapAssumption == Cap \in Nat \ {0}

VARIABLES
    sub,      \* sub[s]: "new", "on" (in the map), "off" (out of it), "closed"
    buf,      \* buf[s]: the buffered messages
    got,      \* got[s]: what the subscriber has received
    pub,      \* pub[m]: the publish of m and the subscribers it still has to serve
    spill,    \* pairs <<m, s>>: goroutines that wait to send m to s
    panic,    \* a send met a closed channel: the process is gone
    owed,     \* history: owed[m]: subscribers that were on when m's Publish began
    dropped,  \* history: messages whose caller cancelled before all was sent
    crossed   \* history: subscribers taken out while a Publish held their channel

vars == <<sub, buf, got, pub, spill, panic, owed, dropped, crossed>>
historyVars == <<owed, dropped, crossed>>

Unsent == [pc |-> "new", todo |-> {}]

Init ==
    /\ sub = [s \in Subs |-> "new"]
    /\ buf = [s \in Subs |-> <<>>] /\ got = [s \in Subs |-> <<>>]
    /\ pub = [m \in Msgs |-> Unsent]
    /\ spill = {} /\ panic = FALSE
    /\ owed = [m \in Msgs |-> {}] /\ dropped = {} /\ crossed = {}

Alive == ~panic

\* A Publish, or a goroutine it has left behind, holds the channel of s.
Held(s) ==
    \/ \E m \in Msgs : pub[m].pc = "send" /\ s \in pub[m].todo
    \/ \E m \in Msgs : <<m, s>> \in spill

----------------------------------------------------------------------------
Subscribe(s) ==
    /\ Alive /\ sub[s] = "new"
    /\ sub' = [sub EXCEPT ![s] = "on"]
    /\ UNCHANGED <<buf, got, pub, spill, panic, historyVars>>

\* unsubscribe, called or run when the subscriber's context ends, once: the map.
Unsubscribe(s) ==
    /\ Alive /\ sub[s] = "on"
    /\ sub' = [sub EXCEPT ![s] = "off"]
    /\ crossed' = IF Held(s) THEN crossed \union {s} ELSE crossed
    /\ UNCHANGED <<buf, got, pub, spill, panic, owed, dropped>>

\* unsubscribe: close.
Close(s) ==
    /\ Alive /\ sub[s] = "off"
    /\ sub' = [sub EXCEPT ![s] = "closed"]
    /\ UNCHANGED <<buf, got, pub, spill, panic, historyVars>>

\* The subscriber takes the next message; what is buffered outlives the close.
Receive(s) ==
    /\ Alive /\ buf[s] # <<>>
    /\ got' = [got EXCEPT ![s] = Append(@, Head(buf[s]))]
    /\ buf' = [buf EXCEPT ![s] = Tail(@)]
    /\ UNCHANGED <<sub, pub, spill, panic, historyVars>>

----------------------------------------------------------------------------
(* Publish                                                                 *)

\* Slip: unsubscribe leaves the channel in the map.
PublishToGone(m) ==
    /\ Alive /\ pub[m] = Unsent
    /\ LET on == {s \in Subs : sub[s] # "new"}
       IN  /\ pub' = [pub EXCEPT ![m] = [pc |-> "send", todo |-> on]]
           /\ owed' = [owed EXCEPT ![m] = on]
    /\ UNCHANGED <<sub, buf, got, spill, panic, dropped, crossed>>
\* The subscribers are copied under the read lock.
Publish(m) ==
    /\ Alive /\ pub[m] = Unsent
    /\ LET on == {s \in Subs : sub[s] = "on"}
       IN  /\ pub' = [pub EXCEPT ![m] = [pc |-> "send", todo |-> on]]
           /\ owed' = [owed EXCEPT ![m] = on]
    /\ UNCHANGED <<sub, buf, got, spill, panic, dropped, crossed>>

Served(m, s) == pub' = [pub EXCEPT ![m].todo = @ \ {s}]

\* Slip: a full buffer drops the message.
SendOrDrop(m, s) ==
    /\ Alive /\ pub[m].pc = "send" /\ s \in pub[m].todo
    /\ Served(m, s)
    /\ panic' = (sub[s] = "closed")
    /\ buf' = IF ~panic' /\ Len(buf[s]) < Cap THEN [buf EXCEPT ![s] = Append(@, m)] ELSE buf
    /\ UNCHANGED <<sub, got, spill, owed, dropped, crossed>>
\* One round of the loop, over the copied channels in any order.  The goroutine is the
\* default of the select: not for a caller that has cancelled.
Send(m, s) ==
    /\ Alive /\ pub[m].pc = "send" /\ s \in pub[m].todo
    /\ Served(m, s)
    /\ \/ /\ sub[s] = "closed"
          /\ panic' = TRUE
          /\ UNCHANGED <<buf, spill>>
       \/ /\ sub[s] # "closed" /\ Len(buf[s]) < Cap
          /\ buf' = [buf EXCEPT ![s] = Append(@, m)]
          /\ UNCHANGED <<spill, panic>>
       \/ /\ sub[s] # "closed" /\ Len(buf[s]) >= Cap /\ m \notin dropped
          /\ spill' = spill \union {<<m, s>>}
          /\ UNCHANGED <<buf, panic>>
    /\ UNCHANGED <<sub, got, owed, dropped, crossed>>

Return(m) ==
    /\ Alive /\ pub[m] = [pc |-> "send", todo |-> {}]
    /\ pub' = [pub EXCEPT ![m].pc = "done"]
    /\ UNCHANGED <<sub, buf, got, spill, panic, historyVars>>

\* The caller's context ends.
Cancel(m) ==
    /\ Alive /\ pub[m].pc \in {"send", "done"} /\ m \notin dropped
    /\ dropped' = dropped \union {m}
    /\ UNCHANGED <<sub, buf, got, pub, spill, panic, owed, crossed>>

\* A round of the loop sees that it has ended; select is free to take the send instead.
GiveUp(m) ==
    /\ Alive /\ m \in dropped /\ pub[m].pc = "send" /\ pub[m].todo # {}
    /\ pub' = [pub EXCEPT ![m] = [pc |-> "done", todo |-> {}]]
    /\ UNCHANGED <<sub, buf, got, spill, panic, historyVars>>

\* A waiting goroutine finds room, or the channel closed.
Spill(m, s) ==
    /\ Alive /\ <<m, s>> \in spill
    /\ \/ /\ sub[s] = "closed"
          /\ panic' = TRUE /\ UNCHANGED buf
       \/ /\ sub[s] # "closed" /\ Len(buf[s]) < Cap
          /\ buf' = [buf EXCEPT ![s] = Append(@, m)] /\ UNCHANGED panic
    /\ spill' = spill \ {<<m, s>>}
    /\ UNCHANGED <<sub, got, pub, historyVars>>

\* A waiting goroutine sees that the caller has cancelled.
SpillGivesUp(m, s) ==
    /\ Alive /\ <<m, s>> \in spill /\ m \in dropped
    /\ spill' = spill \ {<<m, s>>}
    /\ UNCHANGED <<sub, buf, got, pub, panic, historyVars>>

----------------------------------------------------------------------------
Next ==
    \/ \E s \in Subs : Subscribe(s) \/ Unsubscribe(s) \/ Close(s) \/ Receive(s)
    \/ \E m \in Msgs : Publish(m) \/ Return(m) \/ Cancel(m) \/ GiveUp(m)
    \/ \E m \in Msgs, s \in Subs : Send(m, s) \/ Spill(m, s) \/ SpillGivesUp(m, s)

Spec == Init /\ [][Next]_vars

----------------------------------------------------------------------------
(* Properties                                                              *)

\* The process survives, whatever the order of subscribing, publishing, cancelling
\* and unsubscribing, unless someone unsubscribed while a Publish, or a goroutine of
\* it, held the channel.
SurvivesUnlessCrossed == panic => crossed # {}

\* The messages on their way to s, or with it: nobody gets one twice, nor one from
\* before subscribing, and until its caller cancels every message is accounted
\* for at every subscriber it was owed to.
ExactlyOnce ==
    \A s \in Subs :
        LET all == got[s] \o buf[s]
        IN  /\ Cardinality(ToSet(all)) = Len(all)
            /\ \A m \in ToSet(all) : s \in owed[m]
            /\ \A m \in Msgs :
                  s \in owed[m] /\ m \notin dropped /\ ~panic =>
                     m \in ToSet(all) \/ s \in pub[m].todo \/ <<m, s>> \in spill

=============================================================================
