------------------------- MODULE RoomControl_proofs -------------------------
(***************************************************************************)
(* Proofs about RoomControl and RoomViews, for any number of requests in   *)
(* progress and any set of control messages.                               *)
(***************************************************************************)
EXTENDS RoomViews, WellFoundedInduction, TLAPS

GetReqs == [pc : {"get"}, msg : Msgs, client : Nat, at : Nat]
SetReqs == [pc : {"set"}, new : RoomStates]
PublishReqs == [pc : {"publish"}, version : Nat]

\* What the proofs need of the types; no time is in the future.
ControlTypes ==
    /\ st \in RoomStates \union {NoState}
    /\ req \in [Reqs -> {Idle} \union GetReqs \union SetReqs \union PublishReqs]
    /\ syncs \in Seq(Nat)
    /\ written \subseteq Nat
    /\ now \in Nat
    /\ st # NoState => st.updatedAt <= now
    /\ \A q \in Reqs : /\ req[q].pc = "get" => req[q].at <= now
                       /\ req[q].pc = "set" => req[q].new.updatedAt <= now

\* A version about to be stored follows one that has been.
GapInv ==
    /\ NoVersionGap
    /\ Version(st) \in written \union {0}
    /\ \A q \in Reqs : req[q].pc = "set" =>
        /\ req[q].new.version >= 1
        /\ req[q].new.version - 1 \in written \union {0}

\* While no two requests have overlapped and the state has not expired, the one
\* request in progress is ahead of everything that was published.
OneAtATime == \A p, q \in Reqs : p # q => req[p] = Idle \/ req[q] = Idle
OrderInv ==
    raced \/ restarted \/
    /\ \A i, j \in DOMAIN syncs : i < j => syncs[i] < syncs[j]
    /\ OneAtATime
    /\ \A i \in DOMAIN syncs : syncs[i] <= Version(st)
    /\ \A q \in Reqs :
        /\ req[q].pc = "get" => req[q].client <= Version(st)
        /\ req[q].pc = "set" => req[q].new.version = Version(st) + 1
        /\ req[q].pc = "publish" =>
            /\ req[q].version = Version(st)
            /\ \A i \in DOMAIN syncs : syncs[i] < req[q].version

ControlInv == ControlTypes /\ GapInv /\ OrderInv

----------------------------------------------------------------------------
(* The operators of Playback.                                              *)

\* A set of natural numbers that is not empty has a smallest member.
LEMMA SmallestExists ==
  ASSUME NEW S \in SUBSET Nat, S # {}
  PROVE  \E i \in S : \A j \in S : i <= j
<1>1. IsWellFoundedOn(OpToRel(<, Nat), Nat)
  BY NatLessThanWellFounded
<1> DEFINE Less == OpToRel(<, Nat)
<1>2. \A i, j \in Nat : <<j, i>> \in Less <=> j < i
  BY DEF OpToRel
<1> HIDE DEF Less
<1>3. PICK i \in S : \A j \in S : ~(<<j, i>> \in Less)
  BY <1>1, WFMin DEF Less
<1>4. ASSUME NEW j \in S PROVE i <= j
  <2>1. i \in Nat /\ j \in Nat
    OBVIOUS
  <2>2. ~(j < i)
    BY <1>2, <1>3, <2>1
  <2> QED
    BY <2>1, <2>2
<1> QED
  BY <1>4

\* Induction up to n, over a set.
LEMMA UpTo ==
  ASSUME NEW n \in Nat, NEW S, 0 \in S, \A k \in 0..(n - 1) : k \in S => k + 1 \in S
  PROVE  \A k \in 0..n : k \in S
<1> DEFINE Out == {k \in 0..n : k \notin S}
<1> SUFFICES ASSUME Out # {} PROVE FALSE
  OBVIOUS
<1>1. Out \in SUBSET Nat
  OBVIOUS
<1>2. PICK k \in Out : \A j \in Out : k <= j
  BY <1>1, SmallestExists
<1>3. k \in 0..n /\ k \notin S /\ k # 0
  OBVIOUS
<1>4. k - 1 \in 0..(n - 1) /\ k - 1 \in 0..n /\ ~(k <= k - 1)
  BY <1>3
<1>5. k - 1 \in S
  BY <1>2, <1>4
<1>6. (k - 1) + 1 \in S
  BY <1>4, <1>5
<1> QED
  BY <1>3, <1>6

\* indexOf answers 0 for a video that is not in the queue, else a position of it.
LEMMA IndexOfFinds ==
  ASSUME NEW V, NEW queue \in Seq(V), NEW v
  PROVE  /\ indexOf(queue, v) = 0 => \A i \in DOMAIN queue : queue[i] # v
         /\ indexOf(queue, v) # 0 =>
                /\ indexOf(queue, v) \in 1..Len(queue)
                /\ queue[indexOf(queue, v)] = v
<1> DEFINE First(i) == queue[i] = v /\ \A j \in 1..(i - 1) : queue[j] # v
<1>1. CASE \A i \in DOMAIN queue : queue[i] # v
  BY <1>1 DEF indexOf
<1>2. CASE \E i \in DOMAIN queue : queue[i] = v
  <2> DEFINE At == {i \in 1..Len(queue) : queue[i] = v}
  <2>1. At \in SUBSET Nat /\ At # {}
    BY <1>2
  <2>2. PICK i \in At : \A j \in At : i <= j
    BY <2>1, SmallestExists
  <2>3. i \in DOMAIN queue /\ First(i)
    BY <2>2
  <2>4. indexOf(queue, v) = CHOOSE k \in DOMAIN queue : First(k)
    BY <1>2 DEF indexOf
  <2> HIDE DEF First
  <2>5. indexOf(queue, v) \in DOMAIN queue /\ First(indexOf(queue, v))
    BY <2>3, <2>4
  <2> QED
    BY <2>5 DEF First
<1> QED
  BY <1>1, <1>2

\* The item after a position of the queue is an item of it, or there is none.
LEMMA AfterIsItem ==
  ASSUME NEW V, NEW queue \in Seq(V), NEW i \in 1..Len(queue), NEW mode, NoVideo \in V
  PROVE  After(i, queue, mode) \in V
<1>1. Len(queue) \in Nat /\ Len(queue) > 0 /\ i \in Nat
  OBVIOUS
<1>2. (i % Len(queue)) + 1 \in 1..Len(queue)
  BY <1>1
<1>3. \A k \in 1..Len(queue) : queue[k] \in V
  OBVIOUS
<1> QED
  BY <1>1, <1>2, <1>3 DEF After

\* "next" goes to an item of the queue, or to no video.
LEMMA NextIsItem ==
  ASSUME NEW V, NEW queue \in Seq(V), NEW current, NEW mode, NoVideo \in V
  PROVE  nextInQueue(current, queue, mode) \in V
<1>1. queue # <<>> => Head(queue) \in V
  OBVIOUS
<1>2. indexOf(queue, current) # 0 => After(indexOf(queue, current), queue, mode) \in V
  BY IndexOfFinds, AfterIsItem
<1> QED
  BY <1>1, <1>2 DEF nextInQueue

\* ApplyControl makes a well-formed state of the one it read, one version on.
LEMMA ControlledStateIsState ==
  ASSUME NEW prev \in RoomStates \union {NoState}, NEW msg \in Messages, NEW t \in Nat
  PROVE  /\ ControlledState(prev, msg, t) \in RoomStates
         /\ ControlledState(prev, msg, t).version = Version(prev) + 1
         /\ ControlledState(prev, msg, t).updatedAt = t
<1> DEFINE mode  == ControlMode(msg, prev)
           base  == IF msg.video = NoVideo /\ prev # NoState THEN prev.video ELSE msg.video
           queue == IF msg.action = "next" /\ msg.queue = <<>> /\ prev # NoState
                    THEN prev.queue ELSE msg.queue
           next  == nextInQueue(base, queue, mode)
           steps == msg.action = "next" /\ next # NoVideo
           video == CASE steps -> next
                      [] msg.action = "switch" /\ msg.video = NoVideo /\ queue # <<>> -> Head(queue)
                      [] OTHER -> msg.video
           length == resolveControlDuration(msg, prev, video)
<1>1. msg.position \in Int /\ msg.duration \in Int /\ (prev # NoState => prev.duration \in Int)
  BY DEF Messages, RoomStates
<1>2. NoVideo \in Videos
  BY DEF Videos
<1>3. queue \in Queues
  BY DEF Messages, RoomStates
<1>4. next \in Videos
  <2>1. queue \in Seq(Videos)
    BY <1>3 DEF Queues
  <2> QED
    BY <1>2, <2>1, NextIsItem
<1>5. video \in Videos
  <2>1. queue # <<>> => Head(queue) \in Videos
    BY <1>3 DEF Queues
  <2> QED
    BY <1>4, <2>1 DEF Messages
<1>6. length \in Int
  <2> HIDE DEF video
  <2> QED
    BY <1>1 DEF resolveControlDuration
<1>7. mode \in {"sequential", "loop"}
  BY DEF ControlMode, RoomStates
<1>8. Version(prev) + 1 \in Nat
  BY DEF Version, RoomStates
<1>9. (IF queue = <<>> /\ video # NoVideo THEN <<video>> ELSE queue) \in Queues
  <2> HIDE DEF queue, video
  <2>1. ASSUME video # NoVideo PROVE <<video>> \in Queues
    <3> DEFINE V == Videos \ {NoVideo}
    <3>1. video \in V
      BY <1>5, <2>1
    <3> HIDE DEF V
    <3>2. <<video>> \in Seq(V)
      BY <3>1
    <3> QED
      BY <3>2 DEF Queues, V
  <2> QED
    BY <1>3, <2>1
<1>10. (IF steps THEN "pause" ELSE msg.action) \in Actions
  BY DEF Messages, Actions
<1>11. (IF steps THEN 0 ELSE msg.position) \in Int
  <2> HIDE DEF steps
  <2> QED
    BY <1>1
<1>12. ControlledState(prev, msg, t) =
        [video |-> video,
         queue |-> IF queue = <<>> /\ video # NoVideo THEN <<video>> ELSE queue,
         action |-> IF steps THEN "pause" ELSE msg.action,
         position |-> IF steps THEN 0 ELSE msg.position,
         mode |-> mode, duration |-> length, version |-> Version(prev) + 1, updatedAt |-> t]
  BY DEF ControlledState
<1> HIDE DEF mode, base, queue, next, steps, video, length
<1> QED
  BY <1>5, <1>6, <1>7, <1>8, <1>9, <1>10, <1>11, <1>12 DEF RoomStates

----------------------------------------------------------------------------
(* Versions.                                                               *)

\* The state is as ControlTypes says in every reachable state.
LEMMA TypesStep == ControlTypes /\ [Next]_vars => ControlTypes'
<1> SUFFICES ASSUME ControlTypes, [Next]_vars PROVE ControlTypes'
  OBVIOUS
<1> USE DEF ControlTypes, Idle, GetReqs, SetReqs, PublishReqs
<1>1. ASSUME NEW q \in Reqs, NEW msg \in Msgs, NEW cv \in Known, Begin(q, msg, cv)
      PROVE  ControlTypes'
  <2>1. cv \in Nat
    BY DEF Known
  <2> QED
    BY <1>1, <2>1 DEF Begin
<1>2. ASSUME NEW q \in Reqs, Get(q) PROVE ControlTypes'
  <2> DEFINE new == ControlledState(st, req[q].msg, req[q].at)
  <2>1. req[q] \in GetReqs
    BY <1>2 DEF Get
  <2>2. new \in RoomStates /\ new.updatedAt = req[q].at
    BY <2>1, ControlledStateIsState, ControlAssumption, SMTT(20)
  <2>3. [pc |-> "set", new |-> new] \in SetReqs
    BY <2>2
  <2> HIDE DEF new
  <2>4. /\ req' = [req EXCEPT ![q] = IF Stale(req[q].client, st) THEN Idle
                                     ELSE [pc |-> "set", new |-> new]]
        /\ UNCHANGED <<st, syncs, written, now>>
    BY <1>2 DEF Get, new
  <2> QED
    BY <2>1, <2>2, <2>3, <2>4
<1>3. ASSUME NEW q \in Reqs, Set(q) PROVE ControlTypes'
  <2>1. req[q] \in SetReqs
    BY <1>3 DEF Set
  <2>2. req[q].new \in RoomStates /\ req[q].new.version \in Nat
    BY <2>1 DEF RoomStates
  <2> QED
    BY <1>3, <2>1, <2>2 DEF Set
<1>4. ASSUME NEW q \in Reqs, Publish(q) PROVE ControlTypes'
  <2>1. req[q] \in PublishReqs
    BY <1>4 DEF Publish
  <2> QED
    BY <1>4, <2>1 DEF Publish
<1>5. ASSUME NEW q \in Reqs, Fail(q) PROVE ControlTypes'
  BY <1>5 DEF Fail
<1>6. CASE Expire
  BY <1>6 DEF Expire
<1>7. CASE Tick
  BY <1>7 DEF Tick, RoomStates
<1>8. CASE UNCHANGED vars
  BY <1>8 DEF vars
<1> QED
  BY <1>1, <1>2, <1>3, <1>4, <1>5, <1>6, <1>7, <1>8 DEF Next, Step

\* No step leaves a gap in the versions stored.
LEMMA GapStep == ControlTypes /\ GapInv /\ [Next]_vars => GapInv'
<1> SUFFICES ASSUME ControlTypes, GapInv, [Next]_vars PROVE GapInv'
  OBVIOUS
<1> USE DEF GapInv
<1>1. ASSUME NEW q \in Reqs, NEW msg \in Msgs, NEW cv \in Known, Begin(q, msg, cv)
      PROVE  GapInv'
  BY <1>1 DEF Begin, ControlTypes, NoVersionGap
<1>2. ASSUME NEW q \in Reqs, Get(q) PROVE GapInv'
  <2> DEFINE new == ControlledState(st, req[q].msg, req[q].at)
  <2>1. req[q] \in GetReqs
    BY <1>2 DEF Get, ControlTypes, Idle, SetReqs, PublishReqs
  <2>2. new.version = Version(st) + 1
    BY <2>1, ControlledStateIsState, ControlAssumption DEF ControlTypes, GetReqs
  <2> HIDE DEF new
  <2>3. /\ req' = [req EXCEPT ![q] = IF Stale(req[q].client, st) THEN Idle
                                     ELSE [pc |-> "set", new |-> new]]
        /\ UNCHANGED <<st, written>>
    BY <1>2 DEF Get, new
  <2>4. Version(st) \in Nat
    BY DEF Version, ControlTypes, RoomStates
  <2> QED
    BY <2>2, <2>3, <2>4 DEF ControlTypes, Idle, NoVersionGap
<1>3. ASSUME NEW q \in Reqs, Set(q) PROVE GapInv'
  <2> DEFINE v == req[q].new.version
  <2>1. req[q].new \in RoomStates /\ v \in Nat
    BY <1>3 DEF Set, ControlTypes, Idle, SetReqs, GetReqs, PublishReqs, RoomStates
  <2>2. v >= 1 /\ v - 1 \in written \union {0}
    BY <1>3 DEF Set
  <2>3. written \subseteq Nat
    BY DEF ControlTypes
  <2>4. /\ st' = req[q].new /\ written' = written \union {v}
        /\ req' = [req EXCEPT ![q] = [pc |-> "publish", version |-> v]]
    BY <1>3 DEF Set
  <2> HIDE DEF v
  <2>5. NoVersionGap'
    <3>1. \A w \in written : \A m \in 1..w : m \in written
      BY DEF NoVersionGap
    <3>2. \A m \in 1..(v - 1) : m \in written
      BY <2>1, <2>2, <3>1
    <3>3. \A m \in 1..v : m \in written \union {v}
      BY <2>1, <3>2
    <3> QED
      BY <2>4, <3>1, <3>3 DEF NoVersionGap
  <2>6. Version(st') = v
    <3>1. req[q].new # NoState
      BY <2>1, ControlAssumption
    <3> QED
      BY <2>4, <3>1 DEF Version, v
  <2> QED
    BY <2>4, <2>5, <2>6 DEF ControlTypes
<1>4. ASSUME NEW q \in Reqs, Publish(q) PROVE GapInv'
  BY <1>4 DEF Publish, ControlTypes, Idle, NoVersionGap
<1>5. ASSUME NEW q \in Reqs, Fail(q) PROVE GapInv'
  BY <1>5 DEF Fail, ControlTypes, Idle, NoVersionGap
<1>6. CASE Expire
  BY <1>6 DEF Expire, Version, NoVersionGap
<1>7. CASE Tick
  BY <1>7 DEF Tick, NoVersionGap
<1>8. CASE UNCHANGED vars
  BY <1>8 DEF vars, NoVersionGap
<1> QED
  BY <1>1, <1>2, <1>3, <1>4, <1>5, <1>6, <1>7, <1>8 DEF Next, Step

\* While requests do not overlap and the state does not expire, no step breaks the
\* order of what is published.
LEMMA OrderStep == ControlTypes /\ OrderInv /\ [Next]_vars => OrderInv'
<1> SUFFICES ASSUME ControlTypes, OrderInv, [Next]_vars, ~raced', ~restarted'
             PROVE  OrderInv'
  BY DEF OrderInv
<1> USE DEF OrderInv, OneAtATime
<1>0. Version(st) \in Nat /\ syncs \in Seq(Nat)
  BY DEF Version, ControlTypes, RoomStates
<1>1. ASSUME NEW q \in Reqs, NEW msg \in Msgs, NEW cv \in Known, Begin(q, msg, cv)
      PROVE  OrderInv'
  <2>1. ~raced /\ ~restarted /\ \A p \in Reqs \ {q} : req[p] = Idle
    BY <1>1 DEF Begin
  <2>2. cv <= Version(st)
    BY <1>0, <2>1 DEF Known
  <2> QED
    BY <1>0, <1>1, <2>1, <2>2 DEF Begin, ControlTypes, Idle
<1>2. ASSUME NEW q \in Reqs, Get(q) PROVE OrderInv'
  <2> DEFINE new == ControlledState(st, req[q].msg, req[q].at)
  <2>1. req[q] \in GetReqs
    BY <1>2 DEF Get, ControlTypes, Idle, SetReqs, PublishReqs
  <2>2. new.version = Version(st) + 1
    BY <2>1, ControlledStateIsState, ControlAssumption DEF ControlTypes, GetReqs
  <2> HIDE DEF new
  <2>3. /\ req' = [req EXCEPT ![q] = IF Stale(req[q].client, st) THEN Idle
                                     ELSE [pc |-> "set", new |-> new]]
        /\ UNCHANGED <<st, syncs, raced, restarted>>
    BY <1>2 DEF Get, new
  <2>4. req[q] # Idle /\ ~raced /\ ~restarted
    BY <2>1, <2>3 DEF GetReqs, Idle
  <2> QED
    BY <2>2, <2>3, <2>4 DEF ControlTypes, Idle
<1>3. ASSUME NEW q \in Reqs, Set(q) PROVE OrderInv'
  <2> DEFINE v == req[q].new.version
  <2>1. req[q] \in SetReqs /\ req[q].new \in RoomStates /\ v \in Nat
    BY <1>3 DEF Set, ControlTypes, Idle, SetReqs, GetReqs, PublishReqs, RoomStates
  <2>2. /\ st' = req[q].new
        /\ req' = [req EXCEPT ![q] = [pc |-> "publish", version |-> v]]
        /\ UNCHANGED <<syncs, raced, restarted>>
    BY <1>3 DEF Set
  <2>3. ~raced /\ ~restarted /\ v = Version(st) + 1
    BY <1>3, <2>2 DEF Set
  <2>4. Version(st') = v
    BY <2>1, <2>2, ControlAssumption DEF Version
  <2>5. \A p \in Reqs \ {q} : req[p] = Idle
    BY <2>1, <2>3 DEF SetReqs, Idle
  <2> HIDE DEF v
  <2>6. \A i \in DOMAIN syncs : syncs[i] < v
    BY <1>0, <2>1, <2>3
  <2> QED
    BY <2>2, <2>3, <2>4, <2>5, <2>6, <1>0, <2>1 DEF ControlTypes, Idle
<1>4. ASSUME NEW q \in Reqs, Publish(q) PROVE OrderInv'
  <2>1. req[q] \in PublishReqs
    BY <1>4 DEF Publish, ControlTypes, Idle, SetReqs, GetReqs
  <2>2. ~raced /\ ~restarted /\ \A p \in Reqs \ {q} : req[p] = Idle
    BY <1>4, <2>1 DEF Publish, PublishReqs, Idle
  <2>3. \A p \in Reqs : req'[p] = Idle
    BY <1>4, <2>2 DEF Publish, ControlTypes
  <2>4. /\ req[q].version = Version(st)
        /\ \A i \in DOMAIN syncs : syncs[i] < req[q].version
    BY <1>4, <2>2 DEF Publish
  <2>5. syncs' = Append(syncs, req[q].version) /\ st' = st
    BY <1>4 DEF Publish
  <2>6. /\ Len(syncs') = Len(syncs) + 1 /\ syncs'[Len(syncs) + 1] = Version(st)
        /\ \A i \in 1..Len(syncs) : syncs'[i] = syncs[i]
        /\ DOMAIN syncs' = 1..(Len(syncs) + 1)
    BY <1>0, <2>4, <2>5
  <2>7. \A i, j \in DOMAIN syncs' : i < j => syncs'[i] < syncs'[j]
    BY <1>0, <2>2, <2>4, <2>6, SMTT(20)
  <2>8. \A i \in DOMAIN syncs' : syncs'[i] <= Version(st')
    BY <1>0, <2>2, <2>4, <2>5, <2>6
  <2> QED
    BY <2>3, <2>7, <2>8 DEF Idle
<1>5. ASSUME NEW q \in Reqs, Fail(q) PROVE OrderInv'
  BY <1>5 DEF Fail, ControlTypes, Idle
<1>6. CASE Expire
  BY <1>6 DEF Expire
<1>7. CASE Tick
  BY <1>7 DEF Tick
<1>8. CASE UNCHANGED vars
  BY <1>8 DEF vars
<1> QED
  BY <1>1, <1>2, <1>3, <1>4, <1>5, <1>6, <1>7, <1>8 DEF Next, Step

\* ControlInv holds at the start and is kept by every step.
LEMMA ControlInvariant == Spec => []ControlInv
<1>1. Init => ControlInv
  BY DEF Init, ControlInv, ControlTypes, GapInv, OrderInv, OneAtATime, NoVersionGap,
         Idle, Version
<1>2. ControlInv /\ [Next]_vars => ControlInv'
  BY TypesStep, GapStep, OrderStep DEF ControlInv
<1> QED
  BY <1>1, <1>2, PTL DEF Spec

\* Whatever requests overlap, fail or find the state expired, no version is stored
\* before its predecessor, and until then room.sync carries them in order.
THEOREM VersionsStayInOrder == Spec => []VersionsInOrder
<1>1. ControlInv => VersionsInOrder
  BY DEF ControlInv, GapInv, OrderInv, VersionsInOrder, SyncsInOrder
<1> QED
  BY <1>1, ControlInvariant, PTL

\* A control request that passes the version check knows the state it replaces, as
\* long as no two requests have overlapped and the state has not expired.
THEOREM PassedRequestsAreCurrent == Spec => PassedIsCurrent
<1> DEFINE Current(q) ==
      req[q].pc = "get" /\ req'[q].pc = "set" /\ req[q].client > 0 /\ st # NoState
      => raced \/ restarted \/ req[q].client = st.version
<1>1. ASSUME ControlInv, Next, NEW q \in Reqs, req[q].pc = "get", req'[q].pc = "set",
             req[q].client > 0, st # NoState, ~raced, ~restarted
      PROVE  req[q].client = st.version
  <2>1. req[q].client <= st.version /\ req[q].client \in Nat /\ st.version \in Nat
    BY <1>1 DEF ControlInv, OrderInv, ControlTypes, Version, RoomStates, GetReqs, SetReqs,
                PublishReqs, Idle
  <2>2. ~Stale(req[q].client, st)
    <3>1. ASSUME NEW p \in Reqs, Step(p) PROVE p = q /\ Get(p)
      BY <1>1, <3>1 DEF Step, Get, Set, Publish, Fail, Idle, ControlInv, ControlTypes
    <3>2. \E p \in Reqs : Step(p)
      BY <1>1 DEF Next, Begin, Expire, Tick, ControlInv, ControlTypes
    <3>3. Get(q)
      BY <3>1, <3>2
    <3> QED
      BY <1>1, <3>3 DEF Get, ControlInv, ControlTypes, Idle
  <2> QED
    BY <1>1, <2>1, <2>2 DEF Stale
<1>2. ControlInv /\ [Next]_vars => [\A q \in Reqs : Current(q)]_vars
  BY <1>1
<1>3. PassedIsCurrent <=> [][\A q \in Reqs : Current(q)]_vars
  BY DEF PassedIsCurrent
<1> QED
  BY <1>2, <1>3, ControlInvariant, PTL DEF Spec

----------------------------------------------------------------------------
(* Playback of the stored state.                                           *)

\* Projecting to t and then to w is projecting to w, for a state that was stored
\* before t at a position that is not negative.
LEMMA ProjectTwice ==
  ASSUME NEW s \in RoomStates, NEW t \in Nat, NEW w \in Nat,
         s.position >= 0, s.updatedAt <= t, t <= w
  PROVE  SameView(projectState(projectState(s, t), w), projectState(s, w))
<1> USE DEF RoomStates
<1>1. s.position \in Int /\ s.duration \in Int /\ s.updatedAt \in Nat
  OBVIOUS
<1>2. Elapsed(s, t) = t - s.updatedAt /\ Elapsed(s, w) = w - s.updatedAt
  BY <1>1 DEF Elapsed
<1> DEFINE next == NextVideoAfterEnd(s.video, s.queue, s.mode)
<1> HIDE DEF next
<1>3. CASE AtEnd(s, t)
  <2>1. AtEnd(s, w)
    BY <1>1, <1>2, <1>3 DEF AtEnd
  <2>2. CASE next # NoVideo
    <3> DEFINE p == [s EXCEPT !.video = next, !.position = 0, !.action = "pause",
                              !.duration = 0, !.updatedAt = t]
    <3>1. projectState(s, t) = p
      BY <1>3, <2>2 DEF projectState, next
    <3>2. ~AtEnd(p, w) /\ ProjectedPlayback(p, w) = 0
      BY DEF AtEnd, ProjectedPlayback, clampPos
    <3>3. projectState(p, w) = [p EXCEPT !.position = 0, !.updatedAt = w]
      BY <3>2 DEF projectState
    <3>4. projectState(s, w) = [s EXCEPT !.video = next, !.position = 0, !.action = "pause",
                                         !.duration = 0, !.updatedAt = w]
      BY <2>1, <2>2 DEF projectState, next
    <3> QED
      BY <3>1, <3>3, <3>4 DEF SameView
  <2>3. CASE next = NoVideo
    <3> DEFINE p == [s EXCEPT !.position = s.duration, !.action = "pause", !.updatedAt = t]
    <3>1. projectState(s, t) = p
      BY <1>3, <2>3 DEF projectState, next
    <3>2. s.duration > 0
      BY <1>3 DEF AtEnd
    <3>3. ~AtEnd(p, w) /\ ProjectedPlayback(p, w) = s.duration
      BY <1>1, <3>2 DEF AtEnd, ProjectedPlayback, clampPos
    <3>4. projectState(p, w) = [p EXCEPT !.position = s.duration, !.updatedAt = w]
      BY <3>3 DEF projectState
    <3>5. projectState(s, w) = [s EXCEPT !.position = s.duration, !.action = "pause",
                                         !.updatedAt = w]
      BY <2>1, <2>3 DEF projectState, next
    <3> QED
      BY <3>1, <3>4, <3>5 DEF SameView
  <2> QED
    BY <2>2, <2>3
<1>4. CASE ~AtEnd(s, t)
  <2> DEFINE p == [s EXCEPT !.position = ProjectedPlayback(s, t), !.updatedAt = t]
  <2>1. projectState(s, t) = p
    BY <1>4 DEF projectState
  <2>2. CASE s.action = "play"
    <3>1. ProjectedPlayback(s, t) = s.position + (t - s.updatedAt)
      BY <1>1, <1>2, <1>4, <2>2 DEF ProjectedPlayback, AtEnd, clampPos
    <3>2. /\ p.position + Elapsed(p, w) = s.position + Elapsed(s, w)
          /\ p.duration = s.duration /\ p.action = s.action
          /\ p.video = s.video /\ p.queue = s.queue /\ p.mode = s.mode
      BY <1>1, <1>2, <3>1 DEF Elapsed
    <3>3. AtEnd(p, w) <=> AtEnd(s, w)
      BY <3>2 DEF AtEnd
    <3>4. ProjectedPlayback(p, w) = ProjectedPlayback(s, w)
      BY <2>2, <3>2, <3>3 DEF ProjectedPlayback
    <3>5. p \in RoomStates
      <4> DEFINE pos == ProjectedPlayback(s, t)
      <4>1. pos \in Int
        BY <1>1, <3>1
      <4> HIDE DEF pos
      <4>2. [s EXCEPT !.position = pos, !.updatedAt = t] \in RoomStates
        BY <4>1
      <4> QED
        BY <4>2 DEF pos
    <3> HIDE DEF p
    <3> QED
      BY <2>1, <3>2, <3>3, <3>4, <3>5 DEF projectState, SameView
  <2>3. CASE s.action # "play"
    <3>1. ~AtEnd(p, w) /\ ~AtEnd(s, w)
      BY <2>3 DEF AtEnd
    <3>2. clampPos(clampPos(s.position, s.duration), s.duration) = clampPos(s.position, s.duration)
      BY <1>1 DEF clampPos
    <3>3. ProjectedPlayback(p, w) = ProjectedPlayback(s, w)
      BY <1>4, <2>3, <3>1, <3>2 DEF ProjectedPlayback
    <3> QED
      BY <2>1, <3>1, <3>3 DEF projectState, SameView
  <2> QED
    BY <2>2, <2>3
<1> QED
  BY <1>3, <1>4

\* Viewers who took their snapshots at different times see the same playback: the
\* projection of every stored state composes.
THEOREM ProjectionsCompose == Spec => []ProjectionComposes
<1>1. ControlInv => ProjectionComposes
  <2> SUFFICES ASSUME ControlInv, st # NoState, st.position >= 0,
                      NEW t \in Times, NEW w \in Times, t <= w
               PROVE  SameView(projectState(projectState(st, t), w), projectState(st, w))
    BY DEF ProjectionComposes
  <2>1. st \in RoomStates /\ st.updatedAt <= now /\ now \in Nat
    BY DEF ControlInv, ControlTypes
  <2>2. t \in Nat /\ w \in Nat /\ now <= t
    BY <2>1, ControlAssumption DEF Times
  <2>3. st.updatedAt <= t
    BY <2>1, <2>2 DEF RoomStates
  <2> QED
    BY <2>1, <2>2, <2>3, ProjectTwice
<1> QED
  BY <1>1, ControlInvariant, PTL

----------------------------------------------------------------------------
(* What the views show.                                                    *)

\* Before its end a stored state is shown with its own video and action, and a state
\* without a video is shown without one also at its end.
LEMMA StoredView ==
  ASSUME NEW s \in RoomStates, NEW t \in Nat
  PROVE  /\ StateView(s, t) = [video |-> StateView(s, t).video, action |-> StateView(s, t).action]
         /\ ~AtEnd(s, t) => StateView(s, t) = [video |-> s.video, action |-> s.action]
         /\ s.video = NoVideo => StateView(s, t).video = NoVideo
<1>1. s # NoState
  BY ControlAssumption
<1>2. StateView(s, t) = [video |-> projectState(s, t).video, action |-> projectState(s, t).action]
  BY <1>1 DEF StateView
<1>3. ASSUME ~AtEnd(s, t)
      PROVE  projectState(s, t).video = s.video /\ projectState(s, t).action = s.action
  BY <1>3 DEF projectState, RoomStates
<1>4. ASSUME s.video = NoVideo, AtEnd(s, t)
      PROVE  projectState(s, t).video = NoVideo
  <2> DEFINE V == Videos \ {NoVideo}
  <2>1. s.queue \in Seq(V)
    BY DEF RoomStates, Queues
  <2>2. \A i \in DOMAIN s.queue : s.queue[i] # NoVideo
    BY <2>1
  <2>3. indexOf(s.queue, NoVideo) = 0
    BY <2>2 DEF indexOf
  <2>4. NextVideoAfterEnd(s.video, s.queue, s.mode) = NoVideo
    BY <1>4, <2>3 DEF NextVideoAfterEnd
  <2> QED
    BY <1>4, <2>4 DEF projectState, RoomStates
<1> QED
  BY <1>2, <1>3, <1>4

\* Only the two listings read a second time.
LookInv == ViewsHonest /\ (look.pc = "second" => look.kind \in {"admin", "debug"})

\* What the one read of a handler shows is honest.
LEMMA FirstLook ==
  ASSUME ControlTypes, LookInv, NEW kind \in Kinds, NEW read \in {st, NoRead},
         LookFirst(kind, read)
  PROVE  LookInv'
<1> DEFINE view == StateView(st, now)
           item == IF kind = "rooms" THEN [video |-> EnrichRoomFromCache(read), action |-> "none"]
                   ELSE Snapshot(read, now)
           pc   == IF ReadsAgain(kind, read) THEN "second" ELSE "shown"
<1>1. CASE kind = "state" /\ read = NoRead
  BY <1>1 DEF LookFirst, LookInv, ViewsHonest, ShownRuns, ShownEmpty, None
<1>2. CASE ~(kind = "state" /\ read = NoRead)
  <2>1. look' = [pc |-> pc, kind |-> kind, before |-> read, item |-> item, failed |-> read = NoRead,
                 over |-> st # NoState /\ AtEnd(st, now), seen |-> {} \union {view}]
    BY <1>2 DEF LookFirst, Looking
  <2> HIDE DEF view, item, pc
  <2>2. /\ look'.pc = pc /\ look'.kind = kind /\ look'.item = item
        /\ look'.failed = (read = NoRead) /\ look'.over = (st # NoState /\ AtEnd(st, now))
        /\ look'.seen = {view}
    BY <2>1
  <2>3. look'.pc = "second" => look'.kind \in {"admin", "debug"}
    BY <2>2 DEF pc, ReadsAgain
  <2>4. CASE read = NoRead \/ read = NoState
    <3>1. view.video = NoVideo \/ read = NoRead
      BY <2>4 DEF view, StateView
    <3>2. item.video = NoVideo
      BY <2>4 DEF item, EnrichRoomFromCache, Snapshot, Found, StateView
    <3> QED
      BY <2>2, <2>3, <3>1, <3>2 DEF LookInv, ViewsHonest, ShownRuns, ShownEmpty
  <2>5. CASE read # NoRead /\ read # NoState
    <3>1. read = st /\ st \in RoomStates /\ now \in Nat
      BY <2>5 DEF ControlTypes
    <3>2. /\ ~AtEnd(st, now) => view.video = st.video
          /\ st.video = NoVideo => view.video = NoVideo
      BY <3>1, StoredView DEF view
    <3>3. CASE kind = "rooms"
      <4>1. item.video = st.video
        BY <2>5, <3>1, <3>3 DEF item, EnrichRoomFromCache, Found
      <4>2. ShownEmpty'
        BY <2>2, <3>2, <4>1 DEF ShownEmpty
      <4>3. ShownRuns'
        BY <2>2, <2>5, <3>1, <3>2, <3>3, <4>1 DEF ShownRuns
      <4> QED
        BY <2>3, <4>2, <4>3 DEF LookInv, ViewsHonest
    <3>4. CASE kind # "rooms"
      <4>1. item.video = view.video /\ item.action = view.action
        BY <2>5, <3>1, <3>4 DEF item, Snapshot, Found, view
      <4> QED
        BY <2>2, <2>3, <4>1 DEF LookInv, ViewsHonest, ShownRuns, ShownEmpty
    <3> QED
      BY <3>3, <3>4
  <2> QED
    BY <2>4, <2>5
<1> QED
  BY <1>1, <1>2

\* So is what the two reads of a listing show.
LEMMA SecondLook ==
  ASSUME ControlTypes, LookInv, NEW read \in {st, NoRead}, LookSecond(read)
  PROVE  LookInv'
<1> DEFINE view == StateView(st, now)
           item == IF look.kind = "admin" THEN AdminItem(look.before, read, now)
                                          ELSE DebugItem(read)
<1>1. look.kind \in {"admin", "debug"}
  BY DEF LookSecond, LookInv
<1>2. CASE look.kind = "debug" /\ read = NoRead
  BY <1>2 DEF LookSecond, LookInv, ViewsHonest, ShownRuns, ShownEmpty, None
<1>3. CASE ~(look.kind = "debug" /\ read = NoRead)
  <2>1. look' = [pc |-> "shown", kind |-> look.kind, before |-> look.before, item |-> item,
                 failed |-> look.failed \/ read = NoRead,
                 over |-> st # NoState /\ AtEnd(st, now), seen |-> look.seen \union {view}]
    BY <1>3 DEF LookSecond, Looking
  <2> HIDE DEF view, item
  <2>2. /\ look'.pc = "shown" /\ look'.kind = look.kind /\ look'.item = item
        /\ look'.failed = (look.failed \/ read = NoRead)
        /\ look'.over = (st # NoState /\ AtEnd(st, now))
        /\ view \in look'.seen
    BY <2>1
  <2>3. /\ st = NoState => view.video = NoVideo
        /\ st # NoState /\ ~AtEnd(st, now) => view.video = st.video /\ view.action = st.action
        /\ st # NoState /\ st.video = NoVideo => view.video = NoVideo
    <3>1. CASE st = NoState
      BY <3>1 DEF view, StateView
    <3>2. CASE st # NoState
      <4>1. st \in RoomStates /\ now \in Nat
        BY <3>2 DEF ControlTypes
      <4> QED
        BY <3>2, <4>1, StoredView DEF view
    <3> QED
      BY <3>1, <3>2
  <2>4. CASE look.kind = "admin"
    <3>1. CASE read = NoRead
      <4>1. item.action = "pause"
        BY <2>4, <3>1 DEF item, AdminItem, StateView, Found
      <4> QED
        BY <2>2, <3>1, <4>1 DEF LookInv, ViewsHonest, ShownRuns, ShownEmpty
    <3>2. CASE read # NoRead
      <4>1. /\ item.action = view.action
            /\ view.video # NoVideo => item.video = view.video
        BY <2>4, <3>2 DEF item, AdminItem, Found, view
      <4> QED
        BY <2>2, <2>4, <4>1 DEF LookInv, ViewsHonest, ShownRuns, ShownEmpty
    <3> QED
      BY <3>1, <3>2
  <2>5. CASE look.kind = "debug"
    <3>1. read = st
      BY <1>3, <2>5
    <3>2. /\ st = NoState => item.action = "pause"
          /\ st # NoState => item.video = st.video /\ item.action = st.action
      BY <2>5, <3>1 DEF item, DebugItem
    <3>3. ShownEmpty'
      BY <2>2, <2>3, <3>2 DEF ShownEmpty
    <3>4. ShownRuns'
      BY <2>2, <2>3, <2>5, <3>2 DEF ShownRuns
    <3> QED
      BY <2>2, <3>3, <3>4 DEF LookInv, ViewsHonest
  <2> QED
    BY <1>1, <2>4, <2>5
<1> QED
  BY <1>2, <1>3

\* Whatever controls, expiries and failing reads come between the reads of a view, what
\* it shows as running was running at one of them, and it shows an empty room only when
\* there was one or a read failed, but for the cases ViewsHonest names.
THEOREM ViewsStayHonest == VSpec => []ViewsHonest
<1>1. VInit => LookInv
  BY DEF VInit, None, LookInv, ViewsHonest, ShownRuns, ShownEmpty
<1>2. ControlInv /\ LookInv /\ [VNext]_vvars => LookInv'
  <2> SUFFICES ASSUME ControlTypes, LookInv, [VNext]_vvars
               PROVE  LookInv'
    BY DEF ControlInv
  <2>1. CASE UNCHANGED look
    BY <2>1 DEF LookInv, ViewsHonest, ShownRuns, ShownEmpty
  <2>2. CASE LookNext
    <3>1. PICK read \in {st, NoRead} :
              LookSecond(read) \/ \E kind \in Kinds : LookFirst(kind, read)
      BY <2>2 DEF LookNext
    <3> QED
      BY <3>1, FirstLook, SecondLook
  <2> QED
    BY <2>1, <2>2 DEF VNext, vvars
<1>3. VInit => Init
  BY DEF VInit
<1>4. [VNext]_vvars => [Next]_vars
  BY DEF VNext, LookNext, LookFirst, LookSecond, vvars
<1>5. LookInv => ViewsHonest
  BY DEF LookInv
<1> QED
  BY <1>1, <1>2, <1>3, <1>4, <1>5, ControlInvariant, PTL DEF VSpec, Spec

----------------------------------------------------------------------------
(* Pressing "next".                                                        *)

\* An item of a queue without duplicates is found where it is.
LEMMA IndexOfItem ==
  ASSUME NEW V, NEW queue \in Seq(V), NoDuplicates(queue), NEW k \in 1..Len(queue)
  PROVE  indexOf(queue, queue[k]) = k
<1>1. indexOf(queue, queue[k]) # 0
  BY IndexOfFinds
<1> QED
  BY <1>1, IndexOfFinds DEF NoDuplicates

\* "next" goes from an item to the one behind it, from the last to the first in a
\* loop and to no video in a sequence, and from no video to the first item.
LEMMA NextOfItem ==
  ASSUME NEW queue \in Queues, queue # <<>>, NoDuplicates(queue), NEW mode
  PROVE  /\ \A k \in 1..(Len(queue) - 1) : nextInQueue(queue[k], queue, mode) = queue[k + 1]
         /\ nextInQueue(queue[Len(queue)], queue, mode) =
               IF mode = "loop" THEN queue[1] ELSE NoVideo
         /\ nextInQueue(NoVideo, queue, mode) = queue[1]
         /\ \A k \in 1..Len(queue) :
               NextVideoAfterEnd(queue[k], queue, mode) = nextInQueue(queue[k], queue, mode)
<1> DEFINE V == Videos \ {NoVideo}
<1>1. queue \in Seq(V)
  BY DEF Queues
<1>2. \A k \in 1..Len(queue) : queue[k] # NoVideo
  BY <1>1
<1> HIDE DEF V
<1>3. Len(queue) \in Nat /\ Len(queue) >= 1
  BY <1>1
<1>4. \A k \in 1..Len(queue) : indexOf(queue, queue[k]) = k
  BY <1>1, IndexOfItem
<1>5. \A k \in 1..(Len(queue) - 1) : After(k, queue, mode) = queue[k + 1]
  <2>1. \A k \in 1..(Len(queue) - 1) : k % Len(queue) = k /\ k < Len(queue)
    BY <1>3
  <2> QED
    BY <2>1 DEF After
<1>6. After(Len(queue), queue, mode) = IF mode = "loop" THEN queue[1] ELSE NoVideo
  <2>1. Len(queue) % Len(queue) = 0 /\ ~(Len(queue) < Len(queue))
    BY <1>3
  <2> QED
    BY <2>1 DEF After
<1>7. indexOf(queue, NoVideo) = 0
  BY <1>1, <1>2, IndexOfFinds
<1>8. Head(queue) = queue[1]
  BY <1>1
<1>9. \A k \in 1..Len(queue) :
        /\ nextInQueue(queue[k], queue, mode) = After(k, queue, mode)
        /\ NextVideoAfterEnd(queue[k], queue, mode) = After(k, queue, mode)
  BY <1>4 DEF nextInQueue, NextVideoAfterEnd
<1> QED
  BY <1>3, <1>5, <1>6, <1>7, <1>8, <1>9 DEF nextInQueue

\* "next" without a queue keeps the queue and the mode, and shows what nextInQueue says.
LEMMA NextPressed ==
  ASSUME NEW s \in RoomStates, NEW t \in Nat, s.queue # <<>>
  PROVE  LET n == ControlledState(s, NextMsg, t)
         IN  /\ n \in RoomStates /\ n.queue = s.queue /\ n.mode = s.mode
             /\ n.video = nextInQueue(s.video, s.queue, s.mode)
<1> DEFINE n == ControlledState(s, NextMsg, t)
<1>1. NextMsg \in Messages
  <2>1. NoVideo \in Videos
    BY DEF Videos
  <2>2. <<>> \in Queues
    BY DEF Queues
  <2> QED
    BY <2>1, <2>2 DEF NextMsg, Messages, Actions
<1>2. n \in RoomStates
  BY <1>1, ControlledStateIsState
<1>3. s # NoState
  BY ControlAssumption
<1>4. ControlMode(NextMsg, s) = s.mode
  BY <1>3 DEF ControlMode, NextMsg
<1> DEFINE next == nextInQueue(s.video, s.queue, s.mode)
<1>5. NextMsg.video = NoVideo /\ NextMsg.action = "next" /\ NextMsg.queue = <<>>
  BY DEF NextMsg
<1> HIDE DEF next
<1>6. n.video = next /\ n.queue = s.queue /\ n.mode = s.mode
  BY <1>3, <1>4, <1>5 DEF ControlledState, next
<1> QED
  BY <1>2, <1>6 DEF next

\* The states that repeated presses of "next" lead through are well defined.
LEMMA PressesExist ==
  ASSUME NEW n \in Nat, NEW first, NEW t
  PROVE  \E f : f = [k \in 0..n |->
                       IF k = 0 THEN first ELSE ControlledState(f[k - 1], NextMsg, t)]
<1> DEFINE Press(s) == ControlledState(s, NextMsg, t)
<1> HIDE DEF Press
<1> DEFINE Is(f, m) == f = [k \in 0..m |-> IF k = 0 THEN first ELSE Press(f[k - 1])]
           S == {m \in Nat : \E f : Is(f, m)}
<1>1. 0 \in S
  <2> DEFINE f == [k \in 0..0 |-> first]
  <2>1. Is(f, 0)
    OBVIOUS
  <2> QED
    BY <2>1
<1>2. ASSUME NEW m \in 0..(n - 1), m \in S PROVE m + 1 \in S
  <2>1. PICK f : Is(f, m)
    BY <1>2
  <2> DEFINE g == [k \in 0..(m + 1) |-> IF k <= m THEN f[k] ELSE Press(f[m])]
  <2>2. \A k \in 0..(m + 1) : g[k] = IF k = 0 THEN first ELSE Press(g[k - 1])
    <3> SUFFICES ASSUME NEW k \in 0..(m + 1)
                 PROVE  g[k] = IF k = 0 THEN first ELSE Press(g[k - 1])
      OBVIOUS
    <3>1. CASE k = 0
      BY <2>1, <3>1
    <3>2. CASE k # 0 /\ k <= m
      <4>1. k \in 0..m /\ k - 1 \in 0..(m + 1) /\ k - 1 <= m
        BY <3>2
      <4>2. f[k] = Press(f[k - 1])
        BY <2>1, <3>2, <4>1
      <4> QED
        BY <3>2, <4>1, <4>2
    <3>3. CASE k = m + 1
      BY <3>3
    <3> QED
      BY <3>1, <3>2, <3>3
  <2>3. Is(g, m + 1)
    BY <2>2
  <2>4. \E h : Is(h, m + 1)
    <3> HIDE DEF g
    <3> QED
      BY <2>3
  <2>5. m + 1 \in Nat
    OBVIOUS
  <2> HIDE DEF Is
  <2> QED
    BY <2>4, <2>5
<1>3. n \in S
  <2> HIDE DEF S
  <2> QED
    BY <1>1, <1>2, UpTo
<1> QED
  BY <1>3 DEF Press

\* Pressing "next" as often as the queue is long plays every item in order, in every
\* reachable state; the automatic advance agrees, and a sequence ends in no video.
THEOREM NextPlaysEveryItem == Spec => []NextPlaysAll
<1>1. ControlInv => NextPlaysAll
  <2> SUFFICES ASSUME ControlInv, st # NoState, st.queue # <<>>, NoDuplicates(st.queue),
                      NEW mode \in {"loop", "sequential"}
               PROVE  LET n == Len(st.queue)
                          first == [st EXCEPT !.video = Head(st.queue), !.mode = mode]
                          pressed[k \in 0..(n + 1)] ==
                              IF k = 0 THEN first ELSE ControlledState(pressed[k - 1], NextMsg, now)
                      IN  /\ \A k \in 1..(n - 1) : pressed[k].video = st.queue[k + 1]
                          /\ \A k \in 0..(n - 1) :
                                NextVideoAfterEnd(pressed[k].video, st.queue, mode) = pressed[k + 1].video
                          /\ IF mode = "loop" THEN pressed[n].video = Head(st.queue)
                             ELSE /\ pressed[n].video = NoVideo
                                  /\ pressed[n + 1].video = Head(st.queue)
    BY DEF NextPlaysAll
  <2> DEFINE n == Len(st.queue)
             first == [st EXCEPT !.video = Head(st.queue), !.mode = mode]
             pressed[k \in 0..(n + 1)] ==
                 IF k = 0 THEN first ELSE ControlledState(pressed[k - 1], NextMsg, now)
  <2>1. st \in RoomStates /\ now \in Nat
    BY DEF ControlInv, ControlTypes
  <2>2. n \in Nat /\ n >= 1 /\ Head(st.queue) = st.queue[1] /\ st.queue \in Queues
        /\ Head(st.queue) \in Videos
    BY <2>1 DEF RoomStates, Queues
  <2>3. first \in RoomStates /\ first.queue = st.queue /\ first.mode = mode
        /\ first.video = st.queue[1]
    BY <2>1, <2>2 DEF RoomStates
  <2> HIDE DEF first, n
  <2>4. pressed = [k \in 0..(n + 1) |->
                    IF k = 0 THEN first ELSE ControlledState(pressed[k - 1], NextMsg, now)]
    BY <2>2, PressesExist
  <2> HIDE DEF pressed
  <2>5. pressed[0] = first
    BY <2>2, <2>4
  <2>6. \A k \in 0..n : pressed[k + 1] = ControlledState(pressed[k], NextMsg, now)
    BY <2>2, <2>4
  <2> DEFINE Playing == {k \in 0..(n + 1) : /\ pressed[k] \in RoomStates
                                            /\ pressed[k].queue = st.queue
                                            /\ pressed[k].mode = mode}
  <2>7. \A k \in 0..(n + 1) : k \in Playing
    <3>1. 0 \in Playing
      BY <2>2, <2>3, <2>5
    <3>2. ASSUME NEW k \in 0..n, k \in Playing PROVE k + 1 \in Playing
      BY <2>1, <2>2, <2>6, <3>2, NextPressed
    <3> HIDE DEF Playing
    <3>3. n + 1 \in Nat /\ (n + 1) - 1 = n
      BY <2>2
    <3> QED
      BY <3>1, <3>2, <3>3, UpTo
  <2>8. \A k \in 0..n : pressed[k + 1].video = nextInQueue(pressed[k].video, st.queue, mode)
    BY <2>1, <2>2, <2>6, <2>7, NextPressed
  <2> DEFINE Items == {k \in 0..(n - 1) : pressed[k].video = st.queue[k + 1]}
  <2>9. \A k \in 0..(n - 1) : k \in Items
    <3>1. 0 \in Items
      BY <2>2, <2>3, <2>5
    <3>2. ASSUME NEW k \in 0..((n - 1) - 1), k \in Items PROVE k + 1 \in Items
      <4>1. k + 1 \in 1..(n - 1) /\ k \in 0..n
        BY <2>2
      <4>2. nextInQueue(st.queue[k + 1], st.queue, mode) = st.queue[(k + 1) + 1]
        BY <2>2, <4>1, NextOfItem DEF n
      <4> QED
        BY <2>8, <3>2, <4>1, <4>2
    <3> HIDE DEF Items
    <3>3. n - 1 \in Nat
      BY <2>2
    <3> QED
      BY <3>1, <3>2, <3>3, UpTo
  <2>10. pressed[n - 1].video = st.queue[n]
    BY <2>2, <2>9
  <2>11. pressed[n].video = IF mode = "loop" THEN st.queue[1] ELSE NoVideo
    <3>1. n - 1 \in 0..n /\ (n - 1) + 1 = n
      BY <2>2
    <3>2. nextInQueue(st.queue[n], st.queue, mode) = IF mode = "loop" THEN st.queue[1] ELSE NoVideo
      BY <2>2, NextOfItem DEF n
    <3> QED
      BY <2>8, <2>10, <3>1, <3>2
  <2>12. mode # "loop" => pressed[n + 1].video = st.queue[1]
    BY <2>2, <2>8, <2>11, NextOfItem DEF n
  <2>13. ASSUME NEW k \in 0..(n - 1)
         PROVE  NextVideoAfterEnd(pressed[k].video, st.queue, mode) = pressed[k + 1].video
    <3>1. k + 1 \in 1..n /\ k \in 0..n
      BY <2>2
    <3>2. NextVideoAfterEnd(st.queue[k + 1], st.queue, mode)
            = nextInQueue(st.queue[k + 1], st.queue, mode)
      BY <2>2, <3>1, NextOfItem DEF n
    <3> QED
      BY <2>8, <2>9, <3>1, <3>2
  <2> QED
    BY <2>2, <2>9, <2>11, <2>12, <2>13 DEF n, first, pressed
<1> QED
  BY <1>1, ControlInvariant, PTL
=============================================================================
