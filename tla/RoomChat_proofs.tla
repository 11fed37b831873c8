-------------------------- MODULE RoomChat_proofs ---------------------------
(***************************************************************************)
(* The chat of a room, for any number of senders and drainers, any limits  *)
(* and streams of any length: stored messages are not lost, sequence       *)
(* numbers are not shared, and the outbox passes its limit by no more than *)
(* the requests under way.                                                 *)
(***************************************************************************)
EXTENDS RoomChat, FiniteSetTheorems, SequenceTheorems, TLAPS

----------------------------------------------------------------------------
(* Types, and what the sequence operators do.                              *)

Entries == [id : Nat, seq : Nat, size : Sizes]

SenderStates ==
    {Idle} \union [pc : {"seq"}, size : Sizes]
           \union [pc : {"append"}, size : Sizes, seq : Nat]
           \union [pc : {"publish", "enqueue"}, id : Nat]

DrainerStates == [pc : {"idle", "get", "publish", "remove"}, batch : Seq(Nat)]

ChatTypes ==
    /\ seq \in Nat /\ lastId \in Nat
    /\ stream \in Seq(Entries) /\ pending \in Seq(Nat)
    /\ snd \in [Senders -> SenderStates]
    /\ drn \in [Drainers -> DrainerStates]
    /\ \A d \in Drainers : drn[d].pc # "idle" => drn[d].batch # <<>>

LEMMA InsertAtFacts ==
  ASSUME NEW S, NEW q \in Seq(S), NEW i \in 1..(Len(q) + 1), NEW e \in S
  PROVE  /\ InsertAt(q, i, e) \in Seq(S) /\ Len(InsertAt(q, i, e)) = Len(q) + 1
         /\ ToSet(q) \union {e} \subseteq ToSet(InsertAt(q, i, e))
<1> DEFINE w == InsertAt(q, i, e)
<1>1. Len(q) \in Nat /\ i \in Nat /\ i - 1 \in 0..Len(q)
  OBVIOUS
<1>2. /\ SubSeq(q, 1, i - 1) \in Seq(S) /\ Len(SubSeq(q, 1, i - 1)) = i - 1
      /\ \A j \in 1..(i - 1) : SubSeq(q, 1, i - 1)[j] = q[j]
  BY <1>1
<1>3. /\ SubSeq(q, i, Len(q)) \in Seq(S) /\ Len(SubSeq(q, i, Len(q))) = Len(q) - i + 1
      /\ \A j \in 1..(Len(q) - i + 1) : SubSeq(q, i, Len(q))[j] = q[i + j - 1]
  BY <1>1
<1>4. <<e>> \in Seq(S) /\ Len(<<e>>) = 1 /\ <<e>>[1] = e
  OBVIOUS
<1>5. \A a, b, c \in Seq(S) :
        /\ a \o b \o c \in Seq(S) /\ Len(a \o b \o c) = Len(a) + Len(b) + Len(c)
        /\ \A j \in 1..Len(a) : (a \o b \o c)[j] = a[j]
        /\ \A j \in 1..Len(b) : (a \o b \o c)[Len(a) + j] = b[j]
        /\ \A j \in 1..Len(c) : (a \o b \o c)[Len(a) + Len(b) + j] = c[j]
  OBVIOUS
<1>6. /\ w \in Seq(S) /\ Len(w) = Len(q) + 1 /\ w[i] = e
      /\ \A j \in 1..(i - 1) : w[j] = q[j]
      /\ \A j \in 1..(Len(q) - i + 1) : w[i + j] = q[i + j - 1]
  <2> DEFINE a == SubSeq(q, 1, i - 1)
             c == SubSeq(q, i, Len(q))
  <2>1. a \in Seq(S) /\ c \in Seq(S) /\ Len(a) = i - 1 /\ Len(c) = Len(q) - i + 1 /\ w = a \o <<e>> \o c
    BY <1>2, <1>3 DEF InsertAt
  <2>2. /\ w \in Seq(S) /\ Len(w) = Len(a) + 1 + Len(c)
        /\ \A j \in 1..Len(a) : w[j] = a[j]
        /\ w[Len(a) + 1] = <<e>>[1]
        /\ \A j \in 1..Len(c) : w[Len(a) + 1 + j] = c[j]
    <3> DEFINE b == <<e>>
    <3>1. b \in Seq(S) /\ Len(b) = 1 /\ w = a \o b \o c /\ 1 \in 1..Len(b)
      BY <1>4, <2>1
    <3> HIDE DEF a, b, c, w
    <3>a. a \in Seq(S) /\ b \in Seq(S) /\ c \in Seq(S)
      BY <2>1, <3>1
    <3>b. /\ a \o b \o c \in Seq(S) /\ Len(a \o b \o c) = Len(a) + Len(b) + Len(c)
          /\ \A j \in 1..Len(a) : (a \o b \o c)[j] = a[j]
          /\ \A j \in 1..Len(b) : (a \o b \o c)[Len(a) + j] = b[j]
          /\ \A j \in 1..Len(c) : (a \o b \o c)[Len(a) + Len(b) + j] = c[j]
      BY <1>5, <3>a, Zenon
    <3>2. /\ w \in Seq(S) /\ Len(w) = Len(a) + Len(b) + Len(c)
          /\ \A j \in 1..Len(a) : w[j] = a[j]
          /\ \A j \in 1..Len(b) : w[Len(a) + j] = b[j]
          /\ \A j \in 1..Len(c) : w[Len(a) + Len(b) + j] = c[j]
      BY <3>b, <3>1, Zenon
    <3>3. w[Len(a) + 1] = b[1]
      BY <3>1, <3>2
    <3> QED
      BY <3>1, <3>2, <3>3 DEF b
  <2>3. \A j \in 1..(i - 1) : a[j] = q[j]
    BY <1>2
  <2>4. \A j \in 1..(Len(q) - i + 1) : c[j] = q[i + j - 1]
    BY <1>3
  <2> HIDE DEF a, c, w
  <2>5. i - 1 + 1 = i /\ i - 1 + 1 + (Len(q) - i + 1) = Len(q) + 1
    BY <1>1
  <2>6. Len(a) + 1 = i
    BY <2>1, <2>5
  <2>7. w[i] = e
    BY <1>4, <2>2, <2>6
  <2>8. \A j \in 1..(i - 1) : w[j] = q[j]
    BY <2>1, <2>2, <2>3
  <2>9. \A j \in 1..(Len(q) - i + 1) : w[i + j] = q[i + j - 1]
    BY <2>1, <2>2, <2>4, <2>6
  <2>10. Len(w) = Len(q) + 1
    BY <1>1, <2>1, <2>2, <2>6
  <2> QED
    BY <2>2, <2>7, <2>8, <2>9, <2>10
<1> HIDE DEF w
<1>7. ASSUME NEW j \in 1..Len(q) PROVE \E k \in 1..Len(w) : w[k] = q[j]
  <2>1. CASE j < i
    BY <1>1, <1>6, <2>1
  <2>2. CASE j >= i
    <3> DEFINE d == j - i + 1
    <3>1. d \in 1..(Len(q) - i + 1) /\ i + d \in 1..(Len(q) + 1) /\ i + d - 1 = j
      BY <1>1, <2>2
    <3> HIDE DEF d
    <3>2. w[i + d] = q[i + d - 1]
      BY <1>6, <3>1
    <3> QED
      BY <1>6, <3>1, <3>2
  <2> QED
    BY <1>1, <2>1, <2>2
<1>8. DOMAIN w = 1..Len(w) /\ DOMAIN q = 1..Len(q) /\ i \in 1..Len(w)
  BY <1>1, <1>6
<1>9. ToSet(q) \union {e} \subseteq ToSet(w)
  BY <1>6, <1>7, <1>8 DEF ToSet
<1> QED
  BY <1>6, <1>9 DEF w

LEMMA RemoveAtFacts ==
  ASSUME NEW S, NEW q \in Seq(S), NEW i \in 1..Len(q)
  PROVE  /\ RemoveAt(q, i) \in Seq(S) /\ Len(RemoveAt(q, i)) = Len(q) - 1
         /\ ToSet(q) \ {q[i]} \subseteq ToSet(RemoveAt(q, i))
<1> DEFINE w == RemoveAt(q, i)
           a == SubSeq(q, 1, i - 1)
           c == SubSeq(q, i + 1, Len(q))
<1>1. Len(q) \in Nat /\ i \in Nat /\ i - 1 \in 0..Len(q)
  OBVIOUS
<1>2. /\ a \in Seq(S) /\ Len(a) = i - 1 /\ \A j \in 1..(i - 1) : a[j] = q[j]
  BY <1>1
<1>3. /\ c \in Seq(S) /\ Len(c) = Len(q) - i /\ \A j \in 1..(Len(q) - i) : c[j] = q[i + j]
  BY <1>1
<1>4. \A x, y \in Seq(S) : /\ x \o y \in Seq(S) /\ Len(x \o y) = Len(x) + Len(y)
                           /\ \A j \in 1..Len(x) : (x \o y)[j] = x[j]
                           /\ \A j \in 1..Len(y) : (x \o y)[Len(x) + j] = y[j]
  OBVIOUS
<1>5. w = a \o c
  BY DEF RemoveAt
<1> HIDE DEF w, a, c
<1>6. /\ w \in Seq(S) /\ Len(w) = Len(a) + Len(c)
      /\ \A j \in 1..Len(a) : w[j] = a[j]
      /\ \A j \in 1..Len(c) : w[Len(a) + j] = c[j]
  BY <1>2, <1>3, <1>4, <1>5
<1>7. /\ Len(w) = Len(q) - 1
      /\ \A j \in 1..(i - 1) : w[j] = q[j]
      /\ \A j \in 1..(Len(q) - i) : w[i - 1 + j] = q[i + j]
  BY <1>1, <1>2, <1>3, <1>6
<1>8. ASSUME NEW j \in 1..Len(q), j # i PROVE \E k \in 1..Len(w) : w[k] = q[j]
  <2>1. CASE j < i
    BY <1>1, <1>7, <2>1
  <2>2. CASE j > i
    <3> DEFINE d == j - i
    <3>1. d \in 1..(Len(q) - i) /\ i - 1 + d \in 1..(Len(q) - 1) /\ i + d = j
      BY <1>1, <2>2
    <3> HIDE DEF d
    <3>2. w[i - 1 + d] = q[i + d]
      BY <1>7, <3>1
    <3> QED
      BY <1>7, <3>1, <3>2
  <2> QED
    BY <1>1, <1>8, <2>1, <2>2
<1>9. DOMAIN w = 1..Len(w) /\ DOMAIN q = 1..Len(q)
  BY <1>6
<1>10. ToSet(q) \ {q[i]} \subseteq ToSet(w)
  BY <1>8, <1>9 DEF ToSet
<1> QED
  BY <1>6, <1>7, <1>10 DEF w

\* ZREM leaves every other entry, and adds none.
LEMMA RemovePendingFacts ==
  ASSUME pending \in Seq(Nat), NEW id, RemovePending(id)
  PROVE  /\ pending' \in Seq(Nat) /\ Len(pending') <= Len(pending) /\ Len(pending') \in Nat
         /\ ToSet(pending) \ {id} \subseteq ToSet(pending')
<1>1. DOMAIN pending = 1..Len(pending) /\ Len(pending) \in Nat
  OBVIOUS
<1>2. CASE UNCHANGED pending
  BY <1>1, <1>2
<1>3. ASSUME NEW i \in 1..Len(pending), pending[i] = id, pending' = RemoveAt(pending, i)
      PROVE  /\ pending' \in Seq(Nat) /\ Len(pending') <= Len(pending) /\ Len(pending') \in Nat
             /\ ToSet(pending) \ {id} \subseteq ToSet(pending')
  <2>1. /\ RemoveAt(pending, i) \in Seq(Nat) /\ Len(RemoveAt(pending, i)) = Len(pending) - 1
        /\ ToSet(pending) \ {pending[i]} \subseteq ToSet(RemoveAt(pending, i))
    BY RemoveAtFacts
  <2> QED
    BY <1>1, <1>3, <2>1
<1> QED
  BY <1>1, <1>2, <1>3 DEF RemovePending

\* What a sender's progress can look like.
LEMMA SenderKinds ==
  ASSUME NEW r \in SenderStates
  PROVE  /\ r # Idle <=> r.pc \in {"seq", "append", "publish", "enqueue"}
         /\ r = Idle <=> r.pc = "idle"
         /\ r.pc = "seq" => r.size \in Sizes
         /\ r.pc = "append" => r.size \in Sizes /\ r.seq \in Nat
         /\ r.pc \in {"publish", "enqueue"} => r.id \in Nat
         /\ "id" \in DOMAIN r <=> r.pc \in {"publish", "enqueue"}
<1>1. CASE r = Idle
  BY <1>1 DEF Idle
<1>2. CASE r \in [pc : {"seq"}, size : Sizes]
  BY <1>2 DEF Idle
<1>3. CASE r \in [pc : {"append"}, size : Sizes, seq : Nat]
  BY <1>3 DEF Idle
<1>4. CASE r \in [pc : {"publish", "enqueue"}, id : Nat]
  BY <1>4 DEF Idle
<1> QED
  BY <1>1, <1>2, <1>3, <1>4 DEF SenderStates

\* XADD MAXLEN ~ drops a first part of the stream and adds an entry at its end.
LEMMA AppendFacts ==
  ASSUME ChatTypes, NEW s \in Senders, AppendMessage(s)
  PROVE  /\ stream' \in Seq(Entries)
         /\ \E k \in 0..Len(stream) :
              /\ k > 0 => Len(stream') >= StreamMax
              /\ Len(stream') = Len(stream) + 1 - k
              /\ \A i \in 1..Len(stream') :
                   \/ /\ i + k \in 1..Len(stream) /\ stream'[i] = stream[i + k]
                   \/ /\ i + k = Len(stream) + 1
                      /\ stream'[i].id = lastId + 1 /\ stream'[i].seq = snd[s].seq
<1> DEFINE entry == [id |-> lastId + 1, seq |-> snd[s].seq, size |-> snd[s].size]
           whole == Append(stream, entry)
<1>1. snd[s].pc = "append" /\ snd[s] \in SenderStates
  BY DEF ChatTypes, AppendMessage
<1>2. entry \in Entries /\ stream \in Seq(Entries) /\ Len(stream) \in Nat
  BY <1>1, SenderKinds DEF ChatTypes, Entries
<1>3. PICK k \in 0..Len(stream) : /\ k > 0 => Len(whole) - k >= StreamMax
                                  /\ stream' = SubSeq(whole, k + 1, Len(whole))
  BY DEF AppendMessage
<1> HIDE DEF entry
<1>4. /\ whole \in Seq(Entries) /\ Len(whole) = Len(stream) + 1 /\ whole[Len(stream) + 1] = entry
      /\ \A i \in 1..Len(stream) : whole[i] = stream[i]
  BY <1>2
<1> HIDE DEF whole
<1>5. k + 1 \in 1..(Len(whole) + 1) /\ k \in Nat
  BY <1>2, <1>4
<1>6. /\ stream' \in Seq(Entries) /\ Len(stream') = Len(stream) + 1 - k
      /\ \A i \in 1..(Len(stream) + 1 - k) : stream'[i] = whole[k + 1 + i - 1]
  BY <1>2, <1>3, <1>4, <1>5
<1>7. ASSUME NEW i \in 1..(Len(stream) + 1 - k)
      PROVE  \/ i + k \in 1..Len(stream) /\ stream'[i] = stream[i + k]
             \/ i + k = Len(stream) + 1 /\ stream'[i] = entry
  <2>1. i + k \in 1..(Len(stream) + 1) /\ stream'[i] = whole[i + k]
    BY <1>2, <1>5, <1>6
  <2> QED
    BY <1>2, <1>4, <2>1
<1>8. entry.id = lastId + 1 /\ entry.seq = snd[s].seq
  BY DEF entry
<1>9. k > 0 => Len(stream') >= StreamMax
  BY <1>3, <1>4, <1>6
<1> QED
  BY <1>6, <1>7, <1>8, <1>9

\* What popping the batch leaves of a drainer.
LEMMA PopFacts ==
  ASSUME ChatTypes, NEW d \in Drainers, drn[d].pc # "idle", Pop(d)
  PROVE  /\ drn' \in [Drainers -> DrainerStates]
         /\ \A c \in Drainers : drn'[c].pc # "idle" => drn'[c].batch # <<>>
         /\ \A c \in Drainers \ {d} : drn'[c] = drn[c]
         /\ drn'[d].pc \in {"idle", "get"}
<1> DEFINE b == drn[d].batch
           r == IF Len(b) = 1 THEN Resting ELSE [pc |-> "get", batch |-> Tail(b)]
<1>1. drn \in [Drainers -> DrainerStates] /\ b \in Seq(Nat) /\ b # <<>>
  BY DEF ChatTypes, DrainerStates
<1>2. Tail(b) \in Seq(Nat) /\ (Len(b) # 1 => Tail(b) # <<>>)
  <2> HIDE DEF b
  <2>1. Len(b) \in Nat /\ Len(b) # 0 /\ Tail(b) \in Seq(Nat) /\ Len(Tail(b)) = Len(b) - 1
    BY <1>1, EmptySeq, HeadTailProperties
  <2>2. Len(b) # 1 => Len(Tail(b)) # 0
    BY <2>1
  <2>3. Len(<<>>) = 0
    OBVIOUS
  <2> QED
    BY <2>1, <2>2, <2>3
<1>3. r \in DrainerStates /\ r.pc \in {"idle", "get"} /\ (r.pc # "idle" => r.batch # <<>>)
  BY <1>1, <1>2 DEF DrainerStates, Resting
<1>4. drn' = [drn EXCEPT ![d] = r]
  BY DEF Pop
<1> HIDE DEF r
<1> QED
  BY <1>1, <1>3, <1>4 DEF ChatTypes

\* A sender's steps: which variables change, and what its progress becomes.
LEMMA SenderSteps ==
  ASSUME ChatTypes, NEW s \in Senders, \/ \E size \in Sizes : SendCheck(s, size)
                                       \/ SendStep(s) \/ HangUp(s)
  PROVE  /\ \E r \in SenderStates : snd' = [snd EXCEPT ![s] = r]
         /\ UNCHANGED <<open, drn>>
<1>1. snd[s] \in SenderStates /\ seq \in Nat /\ lastId \in Nat
  BY DEF ChatTypes
<1>2. /\ Idle \in SenderStates /\ \A size \in Sizes : [pc |-> "seq", size |-> size] \in SenderStates
      /\ \A size \in Sizes, n \in Nat : [pc |-> "append", size |-> size, seq |-> n] \in SenderStates
      /\ \A id \in Nat : /\ [pc |-> "publish", id |-> id] \in SenderStates
                         /\ [pc |-> "enqueue", id |-> id] \in SenderStates
  BY DEF SenderStates
<1>3. CASE \E size \in Sizes : SendCheck(s, size)
  BY <1>2, <1>3 DEF SendCheck
<1>4. CASE NextSeq(s)
  <2>1. seq' \in Nat /\ (snd[s].size \in Sizes)
    BY <1>1, <1>4, SenderKinds DEF NextSeq
  <2> QED
    BY <1>2, <1>4, <2>1 DEF NextSeq
<1>5. CASE AppendMessage(s)
  <2>1. lastId + 1 \in Nat
    BY <1>1
  <2> QED
    BY <1>2, <1>5, <2>1 DEF AppendMessage
<1>6. CASE PublishFails(s)
  <2>1. snd[s].id \in Nat
    BY <1>1, <1>6, SenderKinds DEF PublishFails
  <2> QED
    BY <1>2, <1>6, <2>1 DEF PublishFails
<1>7. CASE PublishOk(s) \/ EnqueuePending(s) \/ HangUp(s)
  BY <1>2, <1>7 DEF PublishOk, EnqueuePending, HangUp
<1> QED
  BY <1>3, <1>4, <1>5, <1>6, <1>7 DEF SendStep

LEMMA ChatTypesKept == ASSUME ChatTypes, [Next]_vars PROVE ChatTypes'
<1>0. /\ seq \in Nat /\ lastId \in Nat /\ stream \in Seq(Entries) /\ pending \in Seq(Nat)
      /\ snd \in [Senders -> SenderStates] /\ drn \in [Drainers -> DrainerStates]
      /\ \A d \in Drainers : drn[d].pc # "idle" => drn[d].batch # <<>>
  BY DEF ChatTypes
<1>1. ASSUME NEW s \in Senders, (\E size \in Sizes : SendCheck(s, size)) \/ SendStep(s) \/ HangUp(s)
      PROVE  ChatTypes'
  <2>1. snd' \in [Senders -> SenderStates] /\ UNCHANGED drn
    BY <1>0, <1>1, SenderSteps
  <2>2. seq' \in Nat /\ lastId' \in Nat
    BY <1>0, <1>1 DEF SendStep, SendCheck, NextSeq, AppendMessage, PublishOk, PublishFails, EnqueuePending, HangUp, keys
  <2>3. stream' \in Seq(Entries)
    <3>1. CASE AppendMessage(s)
      BY <3>1, AppendFacts
    <3>2. CASE ~AppendMessage(s)
      BY <1>0, <1>1, <3>2 DEF SendStep, SendCheck, NextSeq, PublishOk, PublishFails, EnqueuePending, HangUp, keys
    <3> QED
      BY <3>1, <3>2
  <2>4. pending' \in Seq(Nat)
    <3>1. CASE EnqueuePending(s)
      <4>1. snd[s].id \in Nat
        BY <1>0, <3>1, SenderKinds DEF EnqueuePending
      <4> QED
        BY <1>0, <3>1, <4>1, InsertAtFacts DEF EnqueuePending
    <3>2. CASE ~EnqueuePending(s)
      BY <1>0, <1>1, <3>2 DEF SendStep, SendCheck, NextSeq, AppendMessage, PublishOk, PublishFails, HangUp, keys
    <3> QED
      BY <3>1, <3>2
  <2> QED
    BY <1>0, <2>1, <2>2, <2>3, <2>4 DEF ChatTypes
<1>2. ASSUME NEW d \in Drainers, DrainStep(d) \/ DrainFails(d)
      PROVE  ChatTypes'
  <2>1. UNCHANGED <<seq, lastId, stream, snd>>
    BY <1>2 DEF DrainStep, DrainFails, DrainStops, DrainReadFails, DrainRemoveFails, DrainList, DrainGone, DrainSkip, DrainGet,
                DrainPublishOk, DrainPublishFails, DrainRemove, keys
  <2>2. pending' \in Seq(Nat)
    BY <1>0, <1>2, RemovePendingFacts
       DEF DrainStep, DrainFails, DrainStops, DrainReadFails, DrainRemoveFails, DrainList, DrainGone, DrainSkip, DrainGet,
                DrainPublishOk, DrainPublishFails, DrainRemove, keys
  <2>3. drn' \in [Drainers -> DrainerStates] /\ \A c \in Drainers : drn'[c].pc # "idle" => drn'[c].batch # <<>>
    <3>1. CASE DrainList(d)
      <4> DEFINE n == IF Len(pending) < DrainBatch THEN Len(pending) ELSE DrainBatch
                 b == SubSeq(pending, 1, n)
      <4>1. n \in 1..Len(pending)
        BY <1>0, <3>1, LimitsAssumption DEF DrainList
      <4>2. b \in Seq(Nat) /\ b # <<>>
        BY <1>0, <4>1
      <4>3. drn' = [drn EXCEPT ![d] = [pc |-> "get", batch |-> b]]
        BY <3>1 DEF DrainList
      <4> HIDE DEF b
      <4> QED
        BY <1>0, <4>2, <4>3 DEF DrainerStates
    <3>2. CASE DrainGet(d) \/ DrainPublishOk(d)
      <4>1. /\ drn[d].pc # "idle" /\ drn[d] \in DrainerStates
            /\ \E pc \in {"publish", "remove"} : drn' = [drn EXCEPT ![d].pc = pc]
        BY <1>0, <3>2 DEF DrainGet, DrainPublishOk
      <4> QED
        BY <1>0, <4>1, SMTT(20) DEF DrainerStates
    <3>3. CASE DrainStops(d)
      BY <1>0, <3>3 DEF DrainStops, Resting, DrainerStates
    <3>4. ASSUME DrainGone(d) \/ DrainSkip(d) \/ DrainPublishFails(d) \/ DrainRemove(d)
                 \/ DrainReadFails(d) \/ DrainRemoveFails(d)
          PROVE  drn[d].pc # "idle" /\ Pop(d)
      BY <3>4 DEF DrainGone, DrainSkip, DrainPublishFails, DrainRemove, DrainReadFails, DrainRemoveFails
    <3> QED
      BY <1>2, <3>1, <3>2, <3>3, <3>4, PopFacts DEF DrainStep, DrainFails
  <2> QED
    BY <1>0, <2>1, <2>2, <2>3 DEF ChatTypes
<1>3. CASE DeleteRoom
  BY <1>0, <1>3 DEF DeleteRoom, ChatTypes
<1>4. CASE UNCHANGED vars
  BY <1>0, <1>4 DEF vars, keys, ChatTypes
<1> QED
  BY <1>1, <1>2, <1>3, <1>4 DEF Next

LEMMA ChatTypesInit == Init => ChatTypes
BY DEF Init, ChatTypes, Idle, Resting, SenderStates, DrainerStates

----------------------------------------------------------------------------
(* No stored message is lost.                                              *)

\* A drainer that is about to remove an entry has published it.
RemoveInv == \A d \in Drainers : drn[d].pc = "remove" => First(d) \in delivered

\* The stream holds the newest ids without a gap, in an open room all of them or at
\* least StreamMax.
StreamInv ==
    /\ \A i \in 1..Len(stream) : stream[i].id = lastId - Len(stream) + i
    /\ Len(stream) <= lastId
    /\ open => Len(stream) = lastId \/ Len(stream) >= StreamMax

LostInv == ChatTypes /\ RemoveInv /\ StreamInv /\ NoMessageLost

\* What an open room's stream no longer has, StreamMax newer messages have pushed out.
LEMMA TrimmedIsOld ==
  ASSUME ChatTypes, StreamInv, open, NEW id \in 1..lastId, id \notin Ids
  PROVE  lastId - id >= StreamMax
<1>1. lastId \in Nat /\ Len(stream) \in Nat /\ DOMAIN stream = 1..Len(stream) /\ id \in Nat /\ id >= 1
  BY DEF ChatTypes
<1>2. id <= lastId - Len(stream)
  <2> SUFFICES ASSUME id > lastId - Len(stream) PROVE FALSE
    BY <1>1
  <2> DEFINE i == id - (lastId - Len(stream))
  <2>1. i \in 1..Len(stream) /\ lastId - Len(stream) + i = id
    BY <1>1
  <2> HIDE DEF i
  <2>2. stream[i].id = id
    BY <2>1 DEF StreamInv
  <2> QED
    BY <1>1, <2>1, <2>2 DEF Ids
<1>3. Len(stream) = lastId \/ Len(stream) >= StreamMax
  BY DEF StreamInv
<1>4. StreamMax \in Nat
  BY LimitsAssumption
<1>5. CASE Len(stream) = lastId
  BY <1>1, <1>2, <1>5
<1>6. CASE Len(stream) >= StreamMax
  BY <1>1, <1>2, <1>4, <1>6
<1> QED
  BY <1>3, <1>5, <1>6

\* A sender's step: what it held is published, in the outbox, or given up.
LEMMA LostSender ==
  ASSUME LostInv, NEW s \in Senders, (\E size \in Sizes : SendCheck(s, size)) \/ SendStep(s) \/ HangUp(s)
  PROVE  RemoveInv' /\ StreamInv' /\ NoMessageLost'
<1>0. ChatTypes /\ RemoveInv /\ StreamInv /\ NoMessageLost /\ snd \in [Senders -> SenderStates] /\ snd[s] \in SenderStates
  BY DEF LostInv, ChatTypes
<1>1. UNCHANGED drn /\ delivered \subseteq delivered' /\ forsaken \subseteq forsaken'
  BY DEF SendStep, SendCheck, NextSeq, AppendMessage, PublishOk, PublishFails, EnqueuePending, HangUp
<1>2. RemoveInv'
  BY <1>0, <1>1 DEF RemoveInv, First
<1>3. \A t \in Senders \ {s} : snd'[t] = snd[t]
  BY <1>0, SenderSteps
<1>4. ToSet(pending) \subseteq ToSet(pending')
  <2>1. CASE EnqueuePending(s)
    <3>1. snd[s].id \in Nat /\ pending \in Seq(Nat)
      BY <1>0, <2>1, SenderKinds DEF EnqueuePending, ChatTypes
    <3> QED
      BY <2>1, <3>1, InsertAtFacts DEF EnqueuePending
  <2>2. CASE ~EnqueuePending(s)
    BY <2>2 DEF SendStep, SendCheck, NextSeq, AppendMessage, PublishOk, PublishFails, HangUp, keys
  <2> QED
    BY <2>1, <2>2
<1>5. ASSUME NEW id, Holds(s, id)
      PROVE  Holds(s, id)' \/ id \in delivered' \/ id \in ToSet(pending') \/ id \in forsaken'
  <2>1. snd[s].pc \in {"publish", "enqueue"} /\ snd[s].id = id /\ id \in Nat /\ "id" \in DOMAIN snd[s]
    BY <1>0, <1>5, SenderKinds DEF Holds
  <2>2. CASE PublishOk(s)
    BY <2>1, <2>2 DEF PublishOk
  <2>3. CASE PublishFails(s)
    BY <1>0, <2>1, <2>3 DEF PublishFails, Holds
  <2>4. CASE EnqueuePending(s)
    <3>1. pending \in Seq(Nat)
      BY <1>0 DEF ChatTypes
    <3> QED
      BY <2>1, <2>4, <3>1, InsertAtFacts DEF EnqueuePending
  <2>5. CASE HangUp(s)
    BY <2>1, <2>5 DEF HangUp
  <2>6. CASE NextSeq(s) \/ AppendMessage(s) \/ \E size \in Sizes : SendCheck(s, size)
    BY <2>1, <2>6 DEF NextSeq, AppendMessage, SendCheck, Idle
  <2> QED
    BY <2>2, <2>3, <2>4, <2>5, <2>6 DEF SendStep
<1>6. ASSUME NEW id, Safe(id) \/ id \in forsaken PROVE Safe(id)' \/ id \in forsaken'
  <2>1. CASE \E t \in Senders : Holds(t, id)
    <3>1. PICK t \in Senders : Holds(t, id)
      BY <2>1
    <3>2. CASE t = s
      BY <1>5, <3>1, <3>2 DEF Safe
    <3>3. CASE t # s
      BY <1>3, <3>1, <3>3 DEF Safe, Holds
    <3> QED
      BY <3>2, <3>3
  <2>2. CASE ~\E t \in Senders : Holds(t, id)
    BY <1>1, <1>4, <1>6, <2>2 DEF Safe
  <2> QED
    BY <2>1, <2>2
<1>7. CASE AppendMessage(s)
  <2>0. lastId \in Nat /\ Len(stream) \in Nat /\ lastId' = lastId + 1 /\ open' = open
    BY <1>0, <1>7 DEF AppendMessage, ChatTypes
  <2>1. snd'[s].pc \in {"publish", "enqueue"} /\ snd'[s].id = lastId + 1
    BY <1>0, <1>7 DEF AppendMessage
  <2>2. stream \in Seq(Entries) /\ stream' \in Seq(Entries) /\ Len(stream') \in Nat
    BY <1>0, <1>7, AppendFacts DEF ChatTypes
  <2>3. PICK k \in 0..Len(stream) :
          /\ k > 0 => Len(stream') >= StreamMax
          /\ Len(stream') = Len(stream) + 1 - k
          /\ \A i \in 1..Len(stream') :
               \/ i + k \in 1..Len(stream) /\ stream'[i] = stream[i + k]
               \/ i + k = Len(stream) + 1 /\ stream'[i].id = lastId + 1
    BY <1>0, <1>7, AppendFacts
  <2>4. ASSUME NEW i \in 1..Len(stream') PROVE stream'[i].id = lastId' - Len(stream') + i
    <3>1. lastId' - Len(stream') + i = lastId - Len(stream) + (i + k)
      BY <2>0, <2>2, <2>3
    <3>2. CASE i + k \in 1..Len(stream) /\ stream'[i] = stream[i + k]
      BY <1>0, <3>1, <3>2 DEF StreamInv
    <3>3. CASE i + k = Len(stream) + 1 /\ stream'[i].id = lastId + 1
      BY <2>0, <3>1, <3>3
    <3> QED
      BY <2>3, <3>2, <3>3
  <2>5. StreamInv'
    <3>1. Len(stream) <= lastId /\ (open => Len(stream) = lastId \/ Len(stream) >= StreamMax)
      BY <1>0 DEF StreamInv
    <3>2. Len(stream') <= lastId' /\ (open => Len(stream') = lastId' \/ Len(stream') >= StreamMax)
      BY <2>0, <2>3, <3>1, LimitsAssumption
    <3> QED
      BY <2>0, <2>4, <3>2 DEF StreamInv
  <2>6. ASSUME NEW id \in 1..lastId, id \notin Ids PROVE id \notin Ids'
    <3>0. DOMAIN stream = 1..Len(stream) /\ DOMAIN stream' = 1..Len(stream')
      BY <2>2
    <3> SUFFICES ASSUME NEW i \in 1..Len(stream'), stream'[i].id = id PROVE FALSE
      BY <3>0 DEF Ids
    <3>1. id # lastId + 1
      BY <2>0
    <3>2. i + k \in 1..Len(stream) /\ stream[i + k].id = id
      BY <2>3, <3>1
    <3> QED
      BY <2>6, <3>0, <3>2 DEF Ids
  <2>7. ASSUME NEW id \in 1..lastId'
        PROVE  \/ Safe(id)' \/ id \in forsaken' \/ lastId' - id >= StreamMax
               \/ ~open' /\ id \notin Ids'
    <3>1. id = lastId + 1 \/ id \in 1..lastId
      BY <2>0
    <3>2. CASE id = lastId + 1
      BY <2>1, <3>2 DEF Safe, Holds
    <3>3. CASE id \in 1..lastId
      <4>1. Safe(id) \/ id \in forsaken \/ lastId - id >= StreamMax \/ (~open /\ id \notin Ids)
        BY <1>0, <3>3 DEF NoMessageLost
      <4>2. lastId - id >= StreamMax => lastId' - id >= StreamMax
        BY <2>0, <3>3, LimitsAssumption
      <4> QED
        BY <1>6, <2>0, <2>6, <3>3, <4>1, <4>2
    <3> QED
      BY <3>1, <3>2, <3>3
  <2>8. NoMessageLost'
    BY <2>7 DEF NoMessageLost
  <2> QED
    BY <1>2, <2>5, <2>8
<1>8. CASE ~AppendMessage(s)
  <2>1. UNCHANGED <<stream, lastId, open>>
    BY <1>8 DEF SendStep, SendCheck, NextSeq, PublishOk, PublishFails, EnqueuePending, HangUp, keys
  <2>2. StreamInv'
    BY <1>0, <2>1 DEF StreamInv
  <2>3. Ids' = Ids
    BY <2>1 DEF Ids
  <2>4. NoMessageLost'
    BY <1>0, <1>6, <2>1, <2>3 DEF NoMessageLost
  <2> QED
    BY <1>2, <2>2, <2>4
<1> QED
  BY <1>7, <1>8

\* A drainer's step: it takes out of the outbox only what it has published, what
\* the stream no longer has, or what it gives up.
LEMMA LostDrainer ==
  ASSUME LostInv, NEW d \in Drainers, DrainStep(d) \/ DrainFails(d)
  PROVE  RemoveInv' /\ StreamInv' /\ NoMessageLost'
<1>0. /\ ChatTypes /\ RemoveInv /\ StreamInv /\ NoMessageLost /\ drn \in [Drainers -> DrainerStates]
      /\ drn[d] \in DrainerStates /\ pending \in Seq(Nat)
  BY DEF LostInv, ChatTypes
<1>1. /\ UNCHANGED <<stream, snd, lastId, open>> /\ delivered \subseteq delivered' /\ forsaken \subseteq forsaken'
  BY DEF DrainStep, DrainFails, DrainStops, DrainReadFails, DrainRemoveFails, DrainList, DrainGone, DrainSkip, DrainGet,
         DrainPublishOk, DrainPublishFails, DrainRemove, keys
<1>2. RemoveInv'
  <2>1. CASE DrainPublishOk(d)
    <3>1. /\ \A c \in Drainers \ {d} : drn'[c] = drn[c]
          /\ drn'[d].batch = drn[d].batch /\ delivered' = delivered \union {First(d)}
      BY <1>0, <2>1 DEF DrainPublishOk, DrainerStates
    <3> QED
      BY <1>0, <3>1 DEF RemoveInv, First
  <2>2. CASE ~DrainPublishOk(d)
    <3>1. (\A c \in Drainers \ {d} : drn'[c] = drn[c]) /\ drn'[d].pc # "remove"
      <4>1. CASE DrainList(d) \/ DrainGet(d) \/ DrainStops(d)
        BY <1>0, <4>1 DEF DrainList, DrainGet, DrainStops, Resting, DrainerStates
      <4>2. ASSUME ~(DrainList(d) \/ DrainGet(d) \/ DrainStops(d)) PROVE drn[d].pc # "idle" /\ Pop(d)
        BY <2>2, <4>2 DEF DrainStep, DrainFails, DrainReadFails, DrainRemoveFails, DrainGone, DrainSkip, DrainPublishFails, DrainRemove
      <4> QED
        BY <1>0, <4>1, <4>2, PopFacts
    <3> QED
      BY <1>0, <1>1, <3>1 DEF RemoveInv, First
  <2> QED
    BY <2>1, <2>2
<1>3. ASSUME NEW id \in 1..lastId, id \in ToSet(pending)
      PROVE  \/ id \in ToSet(pending') \/ id \in delivered' \/ id \in forsaken'
             \/ lastId - id >= StreamMax
             \/ ~open /\ id \notin Ids
  <2>1. CASE UNCHANGED pending
    BY <1>3, <2>1
  <2>2. CASE DrainGone(d)
    <3>1. id \in ToSet(pending') \/ id \notin Ids
      BY <1>0, <1>3, <2>2, RemovePendingFacts DEF DrainGone
    <3> QED
      BY <1>0, <3>1, TrimmedIsOld
  <2>3. CASE DrainRemove(d)
    BY <1>0, <1>3, <2>3, RemovePendingFacts DEF DrainRemove, RemoveInv
  <2>4. CASE DrainReadFails(d)
    BY <1>0, <1>3, <2>4, RemovePendingFacts DEF DrainReadFails
  <2> QED
    BY <2>1, <2>2, <2>3, <2>4 DEF DrainStep, DrainFails, DrainStops, DrainRemoveFails, DrainList, DrainSkip,
         DrainGet, DrainPublishOk, DrainPublishFails, keys
<1>4. StreamInv' /\ Ids' = Ids
  BY <1>0, <1>1 DEF StreamInv, Ids
<1>5. \A id : (\E s \in Senders : Holds(s, id)) => (\E s \in Senders : Holds(s, id)')
  BY <1>1 DEF Holds
<1>6. ASSUME NEW id \in 1..lastId
      PROVE  \/ Safe(id)' \/ id \in forsaken' \/ lastId' - id >= StreamMax
             \/ ~open' /\ id \notin Ids'
  <2>1. Safe(id) \/ id \in forsaken \/ lastId - id >= StreamMax \/ (~open /\ id \notin Ids)
    BY <1>0 DEF NoMessageLost
  <2>2. Safe(id) => \/ Safe(id)' \/ id \in forsaken' \/ lastId - id >= StreamMax
                    \/ ~open /\ id \notin Ids
    BY <1>1, <1>3, <1>5 DEF Safe
  <2> QED
    BY <1>1, <1>4, <2>1, <2>2
<1>7. NoMessageLost'
  BY <1>1, <1>6 DEF NoMessageLost
<1> QED
  BY <1>2, <1>4, <1>7

\* Whatever fails, races or stops, a message that was ever stored is published, in the
\* outbox or in a sender's hands, unless a failed command made someone give it up, the
\* room was closed after it, or StreamMax newer messages have been stored.
THEOREM NoMessageIsLost == Spec => []NoMessageLost
<1>1. Init => LostInv
  <2> SUFFICES ASSUME Init PROVE RemoveInv /\ StreamInv /\ NoMessageLost
    BY ChatTypesInit DEF LostInv
  <2> QED
    BY DEF Init, RemoveInv, StreamInv, NoMessageLost, Resting
<1>2. LostInv /\ [Next]_vars => LostInv'
  <2> SUFFICES ASSUME LostInv, [Next]_vars PROVE RemoveInv' /\ StreamInv' /\ NoMessageLost'
    BY ChatTypesKept DEF LostInv
  <2>1. CASE DeleteRoom
    <3>1. /\ lastId \in Nat /\ stream' = <<>> /\ lastId' = lastId /\ ~open'
          /\ UNCHANGED <<drn, delivered>>
      BY <2>1 DEF DeleteRoom, LostInv, ChatTypes
    <3>2. RemoveInv'
      BY <3>1 DEF LostInv, RemoveInv, First
    <3>3. StreamInv'
      BY <3>1 DEF StreamInv
    <3>4. NoMessageLost'
      BY <3>1 DEF NoMessageLost, Ids
    <3> QED
      BY <3>2, <3>3, <3>4
  <2>2. CASE UNCHANGED vars
    BY <2>2 DEF vars, keys, LostInv, RemoveInv, StreamInv, First, NoMessageLost, Ids, Safe, Holds
  <2> QED
    BY <2>1, <2>2, LostSender, LostDrainer DEF Next
<1> QED
  BY <1>1, <1>2, PTL DEF Spec, LostInv

----------------------------------------------------------------------------
(* The limit of the outbox.                                                *)

BoundInv == ChatTypes /\ PendingBound

\* The senders under way, before and after a step of one of them.
LEMMA BusyFacts ==
  ASSUME ChatTypes
  PROVE  /\ Busy \subseteq Senders /\ IsFiniteSet(Busy) /\ Cardinality(Busy) \in Nat
         /\ Cardinality(Senders) \in Nat /\ Len(pending) \in Nat
         /\ \A s \in Senders \ Busy : /\ Cardinality(Busy \union {s}) = Cardinality(Busy) + 1
                                      /\ Cardinality(Busy) + 1 <= Cardinality(Senders)
         /\ \A s \in Busy : Cardinality(Busy \ {s}) = Cardinality(Busy) - 1
<1>1. IsFiniteSet(Senders) /\ Busy \subseteq Senders
  BY LimitsAssumption DEF Busy
<1>2. IsFiniteSet(Busy) /\ Cardinality(Busy) \in Nat /\ Cardinality(Senders) \in Nat
  BY <1>1, FS_Subset, FS_CardinalityType
<1>3. ASSUME NEW s \in Senders \ Busy
      PROVE  Cardinality(Busy \union {s}) = Cardinality(Busy) + 1 /\ Cardinality(Busy) + 1 <= Cardinality(Senders)
  <2>1. Cardinality(Busy \union {s}) = Cardinality(Busy) + 1
    BY <1>2, FS_AddElement
  <2>2. Cardinality(Busy \union {s}) <= Cardinality(Senders)
    BY <1>1, FS_Subset
  <2> QED
    BY <2>1, <2>2
<1>4. ASSUME NEW s \in Busy PROVE Cardinality(Busy \ {s}) = Cardinality(Busy) - 1
  BY <1>2, FS_RemoveElement
<1> QED
  BY <1>1, <1>2, <1>3, <1>4 DEF ChatTypes

LEMMA BoundSender ==
  ASSUME BoundInv, NEW s \in Senders, (\E size \in Sizes : SendCheck(s, size)) \/ SendStep(s) \/ HangUp(s)
  PROVE  PendingBound'
<1>0. ChatTypes /\ PendingBound /\ snd \in [Senders -> SenderStates] /\ snd[s] \in SenderStates
  BY DEF BoundInv, ChatTypes
<1>1. \A t \in Senders \ {s} : snd'[t] = snd[t]
  BY <1>0, SenderSteps
<1>2. (s \in Busy)' <=> snd'[s] # Idle
  BY DEF Busy
<1>3. CASE \E size \in Sizes : SendCheck(s, size)
  <2>1. Len(pending) < PendingMax /\ s \in Senders \ Busy /\ UNCHANGED pending /\ snd'[s] # Idle
    BY <1>0, <1>3 DEF SendCheck, Busy, keys, Idle
  <2>2. Busy' = Busy \union {s}
    BY <1>1, <2>1 DEF Busy
  <2> QED
    BY <1>0, <2>1, <2>2, BusyFacts, LimitsAssumption DEF PendingBound
<1>4. CASE EnqueuePending(s)
  <2>1. s \in Busy /\ snd'[s] = Idle
    BY <1>0, <1>4, SenderKinds DEF EnqueuePending, Busy
  <2>2. Busy' = Busy \ {s}
    BY <1>1, <2>1 DEF Busy
  <2>3. Len(pending') = Len(pending) + 1
    <3>1. snd[s].id \in Nat /\ pending \in Seq(Nat)
      BY <1>0, <1>4, SenderKinds DEF EnqueuePending, ChatTypes
    <3> QED
      BY <1>4, <3>1, InsertAtFacts DEF EnqueuePending
  <2> QED
    BY <1>0, <2>1, <2>2, <2>3, BusyFacts, LimitsAssumption DEF PendingBound
<1>5. CASE (SendStep(s) /\ ~EnqueuePending(s)) \/ HangUp(s)
  <2>1. UNCHANGED pending /\ s \in Busy
    BY <1>0, <1>5, SenderKinds DEF SendStep, NextSeq, AppendMessage, PublishOk, PublishFails, HangUp, keys, Busy
  <2>2. Busy' = Busy \/ Busy' = Busy \ {s}
    BY <1>1, <2>1 DEF Busy
  <2> QED
    BY <1>0, <2>1, <2>2, BusyFacts, LimitsAssumption DEF PendingBound
<1> QED
  BY <1>3, <1>4, <1>5

\* For any limit and any number of senders: the outbox and the requests under way are
\* together at most one less than the limit and all the senders.
THEOREM OutboxStaysBounded == Spec => []PendingBound
<1>1. Init => BoundInv
  <2> SUFFICES ASSUME Init PROVE PendingBound
    BY ChatTypesInit DEF BoundInv
  <2>1. Busy = {} /\ Len(pending) = 0
    BY DEF Init, Busy
  <2> QED
    BY <2>1, FS_EmptySet, LimitsAssumption, FS_CardinalityType DEF PendingBound
<1>2. BoundInv /\ [Next]_vars => BoundInv'
  <2> SUFFICES ASSUME BoundInv, [Next]_vars PROVE PendingBound'
    BY ChatTypesKept DEF BoundInv
  <2>0. ChatTypes /\ PendingBound /\ pending \in Seq(Nat)
    BY DEF BoundInv, ChatTypes
  <2>1. ASSUME Busy' = Busy, Len(pending') \in Nat, Len(pending') <= Len(pending) PROVE PendingBound'
    BY <2>0, <2>1, BusyFacts, LimitsAssumption DEF PendingBound
  <2>2. ASSUME NEW d \in Drainers, DrainStep(d) \/ DrainFails(d) PROVE PendingBound'
    <3>1. UNCHANGED snd /\ (UNCHANGED pending \/ RemovePending(First(d)))
      BY <2>2 DEF DrainStep, DrainFails, DrainStops, DrainReadFails, DrainRemoveFails, DrainList, DrainGone, DrainSkip, DrainGet,
         DrainPublishOk, DrainPublishFails, DrainRemove, keys
    <3>2. Len(pending') \in Nat /\ Len(pending') <= Len(pending)
      BY <2>0, <3>1, RemovePendingFacts
    <3> QED
      BY <2>1, <3>1, <3>2 DEF Busy
  <2>3. CASE DeleteRoom
    <3>1. Len(pending') = 0 /\ Busy' = Busy /\ Len(pending) \in Nat
      BY <2>0, <2>3 DEF DeleteRoom, Busy
    <3> QED
      BY <2>1, <3>1
  <2>4. CASE UNCHANGED vars
    <3>1. pending' = pending /\ Busy' = Busy /\ Len(pending) \in Nat
      BY <2>0, <2>4 DEF vars, keys, Busy
    <3> QED
      BY <2>1, <3>1
  <2> QED
    BY <2>2, <2>3, <2>4, BoundSender DEF Next
<1> QED
  BY <1>1, <1>2, PTL DEF Spec, BoundInv

----------------------------------------------------------------------------
(* Sequence numbers.                                                       *)

\* The number of an open room's counter is no less than any in the stream or in the
\* hands of a sender, and those are all different.
SeqInv ==
    open => /\ \A i \in DOMAIN stream : stream[i].seq <= seq
            /\ \A s \in Senders : snd[s].pc = "append" =>
                  /\ snd[s].seq <= seq
                  /\ \A i \in DOMAIN stream : stream[i].seq # snd[s].seq
                  /\ \A t \in Senders \ {s} : snd[t].pc = "append" => snd[t].seq # snd[s].seq

NumberInv == ChatTypes /\ SeqInv /\ SeqsDistinct

LEMMA NumberSender ==
  ASSUME NumberInv, NEW s \in Senders, (\E size \in Sizes : SendCheck(s, size)) \/ SendStep(s) \/ HangUp(s)
  PROVE  SeqInv' /\ SeqsDistinct'
<1>0. /\ ChatTypes /\ SeqInv /\ SeqsDistinct /\ snd \in [Senders -> SenderStates] /\ snd[s] \in SenderStates
      /\ seq \in Nat /\ stream \in Seq(Entries)
      /\ \A i \in 1..Len(stream) : stream[i].seq \in Nat
      /\ \A t \in Senders : snd[t].pc = "append" => snd[t].seq \in Nat
  <2>1. snd \in [Senders -> SenderStates] /\ stream \in Seq(Entries)
    BY DEF NumberInv, ChatTypes
  <2>2. \A i \in 1..Len(stream) : stream[i].seq \in Nat
    <3>1. \A e \in Entries : e.seq \in Nat
      BY DEF Entries
    <3>2. \A i \in 1..Len(stream) : stream[i] \in Entries
      BY <2>1
    <3> QED
      BY <3>1, <3>2
  <2>3. \A t \in Senders : snd[t].pc = "append" => snd[t].seq \in Nat
    BY <2>1, SenderKinds
  <2> QED
    BY <2>1, <2>2, <2>3 DEF NumberInv, ChatTypes
<1>1. (\A t \in Senders \ {s} : snd'[t] = snd[t]) /\ open' = open
  BY <1>0, SenderSteps
<1>2. CASE NextSeq(s)
  <2>1. /\ seq' = seq + 1 /\ UNCHANGED stream
        /\ snd'[s].pc = "append" => snd'[s].seq = seq + 1
    BY <1>0, <1>2 DEF NextSeq, Idle
  <2> QED
    BY <1>0, <1>1, <2>1 DEF SeqInv, SeqsDistinct
<1>3. CASE AppendMessage(s)
  <2>1. /\ seq' = seq /\ snd[s].pc = "append" /\ snd'[s].pc # "append"
    BY <1>0, <1>3 DEF AppendMessage
  <2>2. PICK k \in 0..Len(stream) :
          /\ Len(stream') = Len(stream) + 1 - k
          /\ \A i \in 1..Len(stream') :
               \/ i + k \in 1..Len(stream) /\ stream'[i] = stream[i + k]
               \/ i + k = Len(stream) + 1 /\ stream'[i].seq = snd[s].seq
    BY <1>0, <1>3, AppendFacts
  <2>3. DOMAIN stream' = 1..Len(stream') /\ DOMAIN stream = 1..Len(stream) /\ k \in Nat
    BY <1>0, <1>3, AppendFacts
  <2>4. ASSUME open
        PROVE  /\ \A i \in 1..Len(stream') : stream'[i].seq <= seq
               /\ \A t \in Senders \ {s} : snd[t].pc = "append" =>
                    \A i \in 1..Len(stream') : stream'[i].seq # snd[t].seq
    BY <1>0, <2>1, <2>2, <2>3, <2>4 DEF SeqInv
  <2>5. ASSUME open, NEW i \in 1..Len(stream'), NEW j \in 1..Len(stream'), stream'[i].seq = stream'[j].seq
        PROVE  i = j
    <3>1. /\ \A a \in 1..Len(stream) : stream[a].seq # snd[s].seq
          /\ \A a, b \in 1..Len(stream) : stream[a].seq = stream[b].seq => a = b
      BY <1>0, <2>1, <2>3, <2>5 DEF SeqInv, SeqsDistinct
    <3>2. i + k = j + k
      BY <2>2, <2>5, <3>1
    <3> QED
      BY <2>3, <3>2
  <2>6. SeqInv'
    BY <1>0, <1>1, <2>1, <2>3, <2>4, SMTT(20) DEF SeqInv
  <2>7. SeqsDistinct'
    BY <1>1, <2>3, <2>5 DEF SeqsDistinct
  <2> QED
    BY <2>6, <2>7
<1>4. CASE ~NextSeq(s) /\ ~AppendMessage(s)
  <2>1. UNCHANGED <<seq, stream>> /\ snd'[s].pc # "append"
    BY <1>0, <1>4 DEF SendStep, SendCheck, PublishOk, PublishFails, EnqueuePending, HangUp, keys, Idle
  <2> QED
    BY <1>0, <1>1, <2>1 DEF SeqInv, SeqsDistinct
<1> QED
  BY <1>2, <1>3, <1>4

\* No two messages of an open room share a sequence number, whatever is trimmed.
THEOREM SeqsStayDistinct == Spec => []SeqsDistinct
<1>1. Init => NumberInv
  <2> SUFFICES ASSUME Init PROVE SeqInv /\ SeqsDistinct
    BY ChatTypesInit DEF NumberInv
  <2> QED
    BY DEF Init, SeqInv, SeqsDistinct, Idle
<1>2. NumberInv /\ [Next]_vars => NumberInv'
  <2> SUFFICES ASSUME NumberInv, [Next]_vars PROVE SeqInv' /\ SeqsDistinct'
    BY ChatTypesKept DEF NumberInv
  <2>1. ASSUME UNCHANGED <<open, seq, stream, snd>> PROVE SeqInv' /\ SeqsDistinct'
    BY <2>1 DEF NumberInv, SeqInv, SeqsDistinct
  <2>2. ASSUME NEW d \in Drainers, DrainStep(d) \/ DrainFails(d)
        PROVE  UNCHANGED <<open, seq, stream, snd>>
    BY <2>2 DEF DrainStep, DrainFails, DrainStops, DrainReadFails, DrainRemoveFails, DrainList, DrainGone, DrainSkip, DrainGet,
         DrainPublishOk, DrainPublishFails, DrainRemove, keys
  <2>3. CASE DeleteRoom
    BY <2>3 DEF DeleteRoom, SeqInv, SeqsDistinct
  <2>4. CASE UNCHANGED vars
    BY <2>1, <2>4 DEF vars, keys
  <2> QED
    BY <2>1, <2>2, <2>3, <2>4, NumberSender DEF Next
<1> QED
  BY <1>1, <1>2, PTL DEF Spec, NumberInv
=============================================================================
