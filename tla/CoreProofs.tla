----------------------------- MODULE CoreProofs -----------------------------
(***************************************************************************)
(* Proofs about the two lock-free classes of include/sensorforge/core, the *)
(* ring and the seqlock.                                                   *)
(***************************************************************************)
EXTENDS SpscRing, Seqlock, Integers, TLAPS

-----------------------------------------------------------------------------
(***************************************************************************)
(* Proofs about SpscRing for every capacity and number of frames and any   *)
(* choice of policies; what they say is said of streams whose producer     *)
(* leaves tail_ alone (all policies but kOverwriteOldest).                 *)
(*                                                                         *)
(* The argument: seen from the tail the producer has loaded, the indices   *)
(* always come in the order tailSeen, tail_, headSeen, head_ and span less *)
(* than the array, because a stale tail_ only makes the ring look fuller   *)
(* and a stale head_ only makes it look emptier.  So the slot being        *)
(* written lies outside the window tail_ .. head_ - 1, and that window     *)
(* holds, in order, the frames published and not delivered.                *)
(***************************************************************************)

Queued == Dist(head_, tail_)

\* Where each thread is, and what it knows there.
Control ==
    /\ ppc \in {"idle", "check", "write", "publish"}
    /\ call \in {"try", "retry"}
    /\ ppc # "idle" => capture_sequence_ >= 1
    /\ ppc \in {"write", "publish"} => ~Full(tailSeen)
    /\ ppc = "publish" => buffer_[head_] = Frame
    /\ cpc # "idle" => ctail = tail_
    /\ cpc \in {"read", "release"} => headSeen # tail_

\* The order of the four indices around the array.
Order ==
    /\ Dist(tail_, tailSeen) + Queued = Dist(head_, tailSeen)
    /\ Dist(headSeen, tail_) <= Queued

\* The window tail_ .. head_ - 1 holds the frames accepted and not delivered.
Window ==
    /\ Len(accepted) = Len(delivered) + Queued
    /\ \A i \in 1 .. Len(delivered) : accepted[i] = delivered[i]
    /\ \A i \in 0 .. Queued - 1 :
         (i = 0 => cpc # "release") =>
            buffer_[Idx(tail_, i)] = accepted[Len(delivered) + 1 + i]
    /\ cpc = "release" => out = accepted[Len(delivered) + 1]

\* The inductive invariant.
IInv == TypeOK /\ Control /\ Order /\ Window

-----------------------------------------------------------------------------
LEMMA CapacityNat == Capacity \in Nat /\ Capacity >= 2
BY CapacityAssumption

\* Dist and Inc on slots: what the masked differences of the code compute.
LEMMA DistBounds ==
    ASSUME NEW h \in Slots, NEW t \in Slots
    PROVE  /\ Dist(h, t) \in Nat /\ Dist(h, t) <= Capacity - 1
           /\ Dist(h, t) = 0 <=> h = t
           /\ Dist(h, t) = Capacity - 1 <=> Inc(h) = t
           /\ Inc(h) \in Slots
           /\ Inc(h) # t => Dist(Inc(h), t) = Dist(h, t) + 1
           /\ h # t => Dist(h, Inc(t)) = Dist(h, t) - 1
BY CapacityNat DEF Dist, Inc, Slots

\* What the invariant says of the number of queued frames.
LEMMA QueuedBounds ==
    ASSUME IInv
    PROVE  /\ Queued \in 0 .. Capacity - 1
           /\ cpc \in {"read", "release"} => ctail = tail_ /\ tail_ # head_ /\ Queued >= 1
<1>1. /\ Dist(head_, tail_) \in Nat /\ Dist(head_, tail_) <= Capacity - 1
      /\ Dist(head_, tail_) = 0 <=> head_ = tail_
  BY DistBounds DEF IInv, TypeOK
<1>2. Dist(headSeen, tail_) \in Nat /\ (Dist(headSeen, tail_) = 0 <=> headSeen = tail_)
  BY DistBounds DEF IInv, TypeOK
<1> QED BY <1>1, <1>2, CapacityNat DEF IInv, Control, Order, Queued

LEMMA IdxBounds ==
    ASSUME NEW h \in Slots, NEW t \in Slots, NEW i \in 0 .. Capacity - 1
    PROVE  /\ Idx(t, i) \in Slots
           /\ Idx(t, i) = h <=> i = Dist(h, t)
           /\ i # Capacity - 1 => Idx(Inc(t), i) = Idx(t, i + 1)
           /\ Idx(t, 0) = t
BY CapacityNat DEF Dist, Inc, Slots, Idx

\* A load returns an index between the newest one seen and the latest one stored.
LEMMA LoadsBetween ==
    ASSUME NEW seen \in Slots, NEW latest \in Slots, NEW i \in Loads(seen, latest)
    PROVE  i \in Slots /\ Dist(i, seen) <= Dist(latest, seen)
BY DistBounds, SMTT(30) DEF Loads

\* A producer's load keeps the order of the indices.
LEMMA TailLoadOrder ==
    ASSUME NEW h \in Slots, NEW t \in Slots, NEW s \in Slots, NEW n \in Loads(s, t),
           Dist(t, s) + Dist(h, t) = Dist(h, s)
    PROVE  Dist(t, n) + Dist(h, t) = Dist(h, n)
<1> n \in Slots /\ Dist(n, s) <= Dist(t, s)
  BY LoadsBetween
<1> QED BY CapacityNat DEF Dist, Slots

\* A consumer's load keeps the order of the indices.
LEMMA HeadLoadOrder ==
    ASSUME NEW h \in Slots, NEW t \in Slots, NEW s \in Slots, NEW n \in Loads(s, h),
           Dist(s, t) <= Dist(h, t)
    PROVE  Dist(n, t) <= Dist(h, t)
<1> n \in Slots /\ Dist(n, s) <= Dist(h, s)
  BY LoadsBetween
<1> QED BY CapacityNat DEF Dist, Slots

\* A newer view of the tail leaves fewer deliveries unknown.
LEMMA FresherTail ==
    ASSUME NEW t \in Slots, NEW s \in Slots, NEW n \in Slots, Dist(n, s) <= Dist(t, s)
    PROVE  Dist(t, n) \in Nat /\ Dist(t, n) <= Dist(t, s)
BY CapacityNat DEF Dist, Slots

LEMMA AppendFunction ==
    ASSUME NEW S, NEW s \in Seq(S), NEW e \in S
    PROVE  Append(s, e) = [i \in 1 .. Len(s) + 1 |-> IF i = Len(s) + 1 THEN e ELSE s[i]]
<1> DEFINE t == Append(s, e)
<1>1. /\ t \in Seq(S) /\ Len(t) = Len(s) + 1 /\ Len(s) \in Nat
      /\ \A i \in 1 .. Len(s) : t[i] = s[i]
      /\ t[Len(s) + 1] = e
  OBVIOUS
<1> HIDE DEF t
<1>2. t = [i \in 1 .. Len(s) + 1 |-> t[i]]
  BY <1>1
<1>3. \A i \in 1 .. Len(s) + 1 : t[i] = IF i = Len(s) + 1 THEN e ELSE s[i]
  BY <1>1
<1>4. t = [i \in 1 .. Len(s) + 1 |-> IF i = Len(s) + 1 THEN e ELSE s[i]]
  BY <1>2, <1>3
<1> QED BY <1>4 DEF t

LEMMA InitIInv == Init => IInv
BY CapacityNat, MovedAssumption
   DEF Init, IInv, TypeOK, Control, Order, Window, Queued, Dist, Slots, Full, Inc, Idx

LEMMA NextIInv ==
    ASSUME IInv, [Next]_vars, ~Evicting PROVE IInv'
<1> USE CapacityNat DEF IInv
<1>1. CASE Callback
  <2>1. TypeOK'
    BY <1>1 DEF TypeOK, Callback, shared, counters, config, consumer
  <2>2. Control'
    BY <1>1 DEF TypeOK, Control, Callback, shared, counters, config, consumer, Full, Frame
  <2>3. Order' /\ Window'
    BY <1>1 DEF Order, Window, Queued, Callback, shared, counters, config, consumer
  <2> QED BY <2>1, <2>2, <2>3
<1>2. CASE TryPushRoom
  <2>1. TypeOK'
    BY <1>2 DEF TypeOK, TryPushRoom, Loads, shared, counters, config, consumer
  <2>2. Control'
    BY <1>2 DEF TypeOK, Control, TryPushRoom, shared, counters, config, consumer, Full, Frame
  <2>3. Order'
    BY <1>2, TailLoadOrder
    DEF TypeOK, Order, Queued, TryPushRoom, shared, counters, config, consumer
  <2>4. Window'
    BY <1>2 DEF Window, Queued, TryPushRoom, shared, counters, config, consumer
  <2> QED BY <2>1, <2>2, <2>3, <2>4
<1>3. CASE DropOnFull
  <2>1. TypeOK'
    BY <1>3 DEF TypeOK, DropOnFull, TryPushFull, Loads, shared, counters, config, consumer
  <2>2. Control'
    BY <1>3 DEF TypeOK, Control, DropOnFull, TryPushFull, shared, counters, config, consumer, Full, Frame
  <2>3. Order'
    BY <1>3, TailLoadOrder
    DEF TypeOK, Order, Queued, DropOnFull, TryPushFull, shared, counters, config, consumer
  <2>4. Window'
    BY <1>3 DEF Window, Queued, DropOnFull, TryPushFull, shared, counters, config, consumer
  <2> QED BY <2>1, <2>2, <2>3, <2>4
<1>4. CASE BlockOnFull
  <2>1. TypeOK'
    BY <1>4 DEF TypeOK, BlockOnFull, TryPushFull, Loads, shared, counters, config, consumer
  <2>2. Control'
    BY <1>4 DEF TypeOK, Control, BlockOnFull, TryPushFull, shared, counters, config, consumer, Full, Frame
  <2>3. Order'
    BY <1>4, TailLoadOrder
    DEF TypeOK, Order, Queued, BlockOnFull, TryPushFull, shared, counters, config, consumer
  <2>4. Window'
    BY <1>4 DEF Window, Queued, BlockOnFull, TryPushFull, shared, counters, config, consumer
  <2> QED BY <2>1, <2>2, <2>3, <2>4
<1>5. CASE ForceOnFull \/ EvictLoad \/ EvictStore \/ ForcedPushFails
  BY <1>5 DEF Control, ForceOnFull, EvictLoad, EvictStore, ForcedPushFails
<1>6. CASE WriteSlot
  <2>1. TypeOK'
    BY <1>6 DEF TypeOK, Control, WriteSlot, Frame, counters, config, consumer
  <2>2. Control'
    BY <1>6 DEF TypeOK, Control, WriteSlot, Full, Frame, counters, config, consumer
  <2>3. Order'
    BY <1>6 DEF Order, Queued, WriteSlot, counters, config, consumer
  <2>4. ASSUME NEW i \in 0 .. Queued - 1 PROVE buffer_'[Idx(tail_, i)] = buffer_[Idx(tail_, i)]
    <3>1. i \in 0 .. Capacity - 1 /\ i # Dist(head_, tail_)
      BY QueuedBounds DEF Queued
    <3>2. Idx(tail_, i) # head_
      BY <3>1, IdxBounds DEF TypeOK
    <3> QED BY <1>6, <3>1, <3>2, IdxBounds DEF TypeOK, WriteSlot
  <2>5. Window'
    BY <1>6, <2>4 DEF Window, Queued, WriteSlot, counters, config, consumer
  <2> QED BY <2>1, <2>2, <2>3, <2>5
<1>7. CASE Publish
  <2>1. Frame \in Nat
    BY <1>7 DEF Publish, Control, TypeOK, Frame
  <2>2. TypeOK'
    BY <1>7, <2>1, DistBounds DEF TypeOK, Publish, consumer, config
  <2>3. Control'
    BY <1>7 DEF TypeOK, Control, Publish, consumer
  <2>4. Inc(head_) # tailSeen /\ Inc(head_) # tail_
    BY <1>7, DistBounds DEF TypeOK, Control, Publish, Full, Order, Queued
  <2>5. Queued' = Queued + 1 /\ Dist(head_, tailSeen)' = Dist(head_, tailSeen) + 1
    BY <1>7, <2>4, DistBounds DEF TypeOK, Publish, Queued
  <2>6. Order'
    <3>1. Dist(headSeen, tail_) \in Nat /\ Dist(tail_, tailSeen) \in Nat
      BY DistBounds DEF TypeOK
    <3>2. Dist(headSeen, tail_)' = Dist(headSeen, tail_) /\ Dist(tail_, tailSeen)' = Dist(tail_, tailSeen)
      BY <1>7 DEF Publish, consumer
    <3> QED BY <2>5, <3>1, <3>2, QueuedBounds DEF Order
  <2>7. Window'
    <3>1. /\ accepted' = Append(accepted, Frame) /\ accepted \in Seq(Nat)
          /\ Len(accepted) = Len(delivered) + Queued /\ Queued \in Nat
      BY <1>7, DistBounds DEF Publish, TypeOK, Window, Queued
    <3>2. Len(accepted)' = Len(accepted) + 1 /\ accepted'[Len(accepted) + 1] = Frame
      BY <2>1, <3>1
    <3>3. \A i \in 1 .. Len(accepted) : accepted'[i] = accepted[i]
      BY <2>1, <3>1
    <3>4. ASSUME NEW i \in 0 .. Queued' - 1, i = 0 => cpc' # "release"
          PROVE  buffer_'[Idx(tail_, i)'] = accepted'[Len(delivered)' + 1 + i]
      <4>1. CASE i = Queued
        <5>1. Idx(tail_, i) = head_
          BY <4>1, IdxBounds, QueuedBounds DEF TypeOK, Queued
        <5>2. buffer_[head_] = Frame
          BY <1>7 DEF Publish, Control
        <5> QED BY <1>7, <4>1, <5>1, <5>2, <3>1, <3>2 DEF Publish, consumer, TypeOK
      <4>2. CASE i # Queued
        <5>1. i \in 0 .. Queued - 1
          BY <4>2, <2>5, <3>1
        <5>2. buffer_[Idx(tail_, i)] = accepted[Len(delivered) + 1 + i]
          BY <5>1, <3>4, <1>7 DEF Window, Publish, consumer
        <5>3. Len(delivered) + 1 + i \in 1 .. Len(accepted)
          BY <5>1, <3>1 DEF TypeOK
        <5> QED BY <5>2, <5>3, <3>3, <1>7 DEF Publish, consumer
      <4> QED BY <4>1, <4>2
    <3>5. \A i \in 1 .. Len(delivered)' : accepted'[i] = delivered'[i]
      BY <1>7, <3>1, <3>3 DEF Window, Publish, consumer, TypeOK
    <3>6. cpc' = "release" => out' = accepted'[Len(delivered)' + 1]
      <4>1. cpc = "release" => Queued >= 1
        BY QueuedBounds
      <4> QED BY <4>1, <1>7, <3>1, <3>3 DEF Window, Publish, consumer, TypeOK
    <3>7. Len(accepted)' = Len(delivered)' + Queued'
      <4>1. Len(delivered)' = Len(delivered) /\ Len(delivered) \in Nat
        BY <1>7 DEF Publish, consumer, TypeOK
      <4> QED BY <2>5, <3>1, <3>2, <4>1
    <3> QED BY <3>4, <3>5, <3>6, <3>7 DEF Window
  <2> QED BY <2>2, <2>3, <2>6, <2>7
<1>8. CASE PopLoadTail
  BY <1>8 DEF TypeOK, Control, Order, Window, Queued, PopLoadTail, Full, Frame,
              shared, counters, config, producer
<1>9. CASE PopEmpty
  <2>1. TypeOK' /\ Control'
    BY <1>9 DEF TypeOK, Control, PopEmpty, Loads, Full, Frame, shared, counters, config, producer
  <2>2. Order'
    BY <1>9, HeadLoadOrder DEF TypeOK, Order, Queued, PopEmpty, shared, counters, config, producer
  <2>3. Window'
    BY <1>9 DEF Window, Queued, PopEmpty, shared, counters, config, producer
  <2> QED BY <2>1, <2>2, <2>3
<1>10. CASE PopNonEmpty
  <2>1. TypeOK' /\ Control'
    BY <1>10 DEF TypeOK, Control, PopNonEmpty, Loads, Full, Frame, shared, counters, config, producer
  <2>2. Order'
    BY <1>10, HeadLoadOrder DEF TypeOK, Order, Queued, PopNonEmpty, shared, counters, config, producer
  <2>3. Window'
    BY <1>10 DEF Window, Queued, PopNonEmpty, shared, counters, config, producer
  <2> QED BY <2>1, <2>2, <2>3
<1>11. CASE ReadSlot
  <2>1. ctail = tail_ /\ tail_ # head_ /\ Queued >= 1
    BY <1>11, QueuedBounds DEF ReadSlot
  <2>2. TypeOK'
    BY <1>11, <2>1 DEF TypeOK, ReadSlot, counters, config, producer
  <2>3. Control'
    BY <1>11, <2>1 DEF TypeOK, Control, ReadSlot, Full, Frame, counters, config, producer
  <2>4. Order'
    BY <1>11 DEF Order, Queued, ReadSlot, counters, config, producer
  <2>5. ASSUME NEW i \in 0 .. Queued - 1, i # 0
        PROVE  buffer_'[Idx(tail_, i)] = buffer_[Idx(tail_, i)]
    <3>1. i \in 0 .. Capacity - 1 /\ i # Dist(tail_, tail_)
      BY <2>5, QueuedBounds DEF TypeOK, Dist, Slots
    <3>2. Idx(tail_, i) \in Slots /\ Idx(tail_, i) # tail_
      BY <3>1, IdxBounds DEF TypeOK
    <3> QED BY <1>11, <2>1, <3>2 DEF TypeOK, ReadSlot
  <2>6. out' = accepted[Len(delivered) + 1]
    <3>1. 0 \in 0 .. Queued - 1 /\ Idx(tail_, 0) = tail_ /\ Len(delivered) + 1 + 0 = Len(delivered) + 1
      <4>1. Queued \in Nat /\ Len(delivered) \in Nat
        BY QueuedBounds DEF TypeOK
      <4>2. Idx(tail_, 0) = tail_
        BY DEF Idx, TypeOK, Slots
      <4> QED BY <2>1, <4>1, <4>2
    <3>2. buffer_[Idx(tail_, 0)] = accepted[Len(delivered) + 1 + 0]
      BY <3>1, <1>11 DEF Window, ReadSlot
    <3> QED BY <3>1, <3>2, <1>11, <2>1 DEF ReadSlot
  <2>7. Window'
    BY <1>11, <2>5, <2>6 DEF Window, Queued, ReadSlot, counters, config, producer
  <2> QED BY <2>2, <2>3, <2>4, <2>7
<1>12. CASE Release
  <2>1. ctail = tail_ /\ tail_ # head_ /\ Queued >= 1 /\ headSeen # tail_
    BY <1>12, QueuedBounds DEF Release, Control
  <2>2. TypeOK'
    BY <1>12, DistBounds DEF TypeOK, Release, counters, config, producer
  <2>3. Control'
    BY <1>12 DEF TypeOK, Control, Release, Full, Frame, counters, config, producer
  <2>4. Queued' = Queued - 1
    BY <1>12, <2>1, DistBounds DEF Release, TypeOK, Queued
  <2>5. Order'
    BY <1>12, <2>1 DEF TypeOK, Order, Queued, Dist, Inc, Slots, Release, counters, config, producer
  <2>6. Window'
    <3>1. /\ delivered' = Append(delivered, out) /\ delivered \in Seq(Nat \cup {Moved})
          /\ out \in Nat \cup {Moved} /\ Queued \in Nat
          /\ out = accepted[Len(delivered) + 1]
      BY <1>12, DistBounds DEF Release, TypeOK, Window, Queued
    <3>2. /\ Len(delivered)' = Len(delivered) + 1
          /\ delivered'[Len(delivered) + 1] = out
          /\ \A i \in 1 .. Len(delivered) : delivered'[i] = delivered[i]
      BY <3>1
    <3>3. \A i \in 1 .. Len(delivered)' : accepted'[i] = delivered'[i]
      BY <1>12, <3>1, <3>2 DEF Window, Release, producer
    <3>4. ASSUME NEW i \in 0 .. Queued' - 1
          PROVE  buffer_'[Idx(tail_, i)'] = accepted'[Len(delivered)' + 1 + i]
      <4>1. i + 1 \in 0 .. Queued - 1 /\ i \in 0 .. Capacity - 1 /\ i # Capacity - 1
        BY <2>4, QueuedBounds
      <4>2. Idx(tail_, i)' = Idx(tail_, i + 1)
        BY <4>1, <1>12, <2>1, IdxBounds DEF Release, TypeOK, Idx
      <4>3. buffer_[Idx(tail_, i + 1)] = accepted[Len(delivered) + 1 + (i + 1)]
        BY <4>1 DEF Window
      <4>4. Len(delivered)' + 1 + i = Len(delivered) + 1 + (i + 1)
        BY <3>1, <3>2
      <4> QED BY <4>2, <4>3, <4>4, <1>12 DEF Release, producer
    <3> QED BY <3>1, <3>2, <3>3, <3>4, <2>4, <1>12 DEF Window, Release, producer, Queued
  <2> QED BY <2>2, <2>3, <2>5, <2>6
<1>13. CASE UNCHANGED vars
  BY <1>13 DEF vars, shared, counters, config, producer, consumer, TypeOK, Control, Order,
               Window, Queued, Full, Frame
<1> QED BY <1>1, <1>2, <1>3, <1>4, <1>5, <1>6, <1>7, <1>8, <1>9, <1>10, <1>11, <1>12, <1>13
        DEF Next, ProducerStep, ConsumerStep

\* A stream keeps its policy.
LEMMA SamePolicy == [Next]_vars => UNCHANGED policy
BY DEF Next, ProducerStep, ConsumerStep, Callback, TryPushRoom, DropOnFull, BlockOnFull, ForceOnFull, EvictLoad,
       EvictStore, ForcedPushFails, WriteSlot, Publish, PopLoadTail, PopEmpty, PopNonEmpty, ReadSlot, Release,
       config, vars

LEMMA Inductive == Spec => [](~Evicting => IInv)
<1>1. Init => (~Evicting => IInv)
  BY InitIInv
<1>2. (~Evicting => IInv) /\ [Next]_vars => (~Evicting => IInv)'
  BY NextIInv, SamePolicy DEF Evicting
<1> QED BY <1>1, <1>2, PTL DEF Spec

\* The indices stay in the array and the threads at steps of the code, for every
\* capacity and every number of captured frames, unless the producer evicts.
THEOREM RingTypeCorrect == Spec => [](~Evicting => TypeOK)
<1>1. (~Evicting => IInv) => (~Evicting => TypeOK)
  BY DEF IInv
<1> QED BY <1>1, Inductive, PTL

\* Producer and consumer never touch the same slot at once: the unlocked copy in
\* try_push and the unlocked move in try_pop do not race, unless the producer evicts.
THEOREM RingNoSlotRace == Spec => []NoSlotRace
<1>1. ASSUME ~Evicting => IInv PROVE NoSlotRace
  BY <1>1, QueuedBounds DEF NoSlotRace, IInv
<1> QED BY <1>1, Inductive, PTL

LEMMA ContentsSeq ==
    ASSUME IInv
    PROVE  /\ Contents \in Seq(Nat \cup {Moved}) /\ Len(Contents) = Queued
           /\ DOMAIN Contents = 1 .. Queued
           /\ \A i \in 1 .. Queued : Contents[i] = accepted[Len(delivered) + i]
<1>1. Queued \in Nat /\ Queued <= Capacity - 1
  BY QueuedBounds, CapacityNat
<1>2. ASSUME NEW i \in 1 .. Queued PROVE Contents[i] = accepted[Len(delivered) + i]
  <2>1. i - 1 \in 0 .. Queued - 1 /\ Len(delivered) + 1 + (i - 1) = Len(delivered) + i
    BY <1>1, CapacityNat DEF IInv, TypeOK
  <2>2. CASE i = 1 /\ cpc = "release"
    BY <2>2 DEF Contents, IInv, Window, Queued
  <2>3. CASE ~(i = 1 /\ cpc = "release")
    <3>1. buffer_[Idx(tail_, i - 1)] = accepted[Len(delivered) + 1 + (i - 1)]
      BY <2>1, <2>3 DEF IInv, Window
    <3> QED BY <2>1, <2>3, <3>1 DEF Contents, Queued
  <2> QED BY <2>2, <2>3
<1>3. ASSUME NEW i \in 1 .. Queued PROVE accepted[Len(delivered) + i] \in Nat
  BY <1>1 DEF IInv, TypeOK, Window
<1>4. Contents = [i \in 1 .. Queued |-> Contents[i]]
  BY DEF Contents, Queued
<1>5. Contents \in [1 .. Queued -> Nat \cup {Moved}]
  BY <1>2, <1>3, <1>4
<1> QED BY <1>1, <1>2, <1>5

\* What try_push stored is delivered, or still in the ring, in the order stored,
\* unless the producer evicts.
THEOREM RingFifoNoLoss == Spec => []FifoNoLoss
<1>1. ASSUME IInv PROVE FifoNoLoss
  <2> DEFINE joined == delivered \o Contents
  <2>1. /\ delivered \in Seq(Nat \cup {Moved}) /\ Contents \in Seq(Nat \cup {Moved})
        /\ Len(Contents) = Queued /\ Queued \in Nat
    BY <1>1, ContentsSeq, QueuedBounds, CapacityNat DEF IInv, TypeOK
  <2>2. joined \in Seq(Nat \cup {Moved}) /\ Len(joined) = Len(delivered) + Queued
    BY <2>1
  <2>3. accepted \in Seq(Nat \cup {Moved}) /\ Len(accepted) = Len(joined)
    BY <1>1, <2>2 DEF IInv, TypeOK, Window
  <2>4. ASSUME NEW i \in 1 .. Len(joined) PROVE accepted[i] = joined[i]
    <3>1. CASE i <= Len(delivered)
      BY <1>1, <2>1, <2>2, <3>1 DEF IInv, Window
    <3>2. CASE i > Len(delivered)
      <4>1. i - Len(delivered) \in 1 .. Queued /\ Len(delivered) + (i - Len(delivered)) = i
        BY <2>1, <2>2, <3>2
      <4>2. joined[i] = Contents[i - Len(delivered)]
        BY <2>1, <2>2, <3>2, <4>1
      <4> QED BY <1>1, <4>1, <4>2, ContentsSeq
    <3> QED BY <2>1, <2>2, <3>1, <3>2
  <2> HIDE DEF joined
  <2>5. accepted = joined
    BY <2>2, <2>3, <2>4
  <2> QED BY <2>5 DEF FifoNoLoss, joined
<1>2. (~Evicting => IInv) => FifoNoLoss
  BY <1>1 DEF FifoNoLoss
<1> QED BY <1>2, Inductive, PTL

-----------------------------------------------------------------------------
\* The counters, config, and what kNeverDropBlock adds to the invariant.
Counted ==
    /\ enqueued_count_ + dropped_count_ = Decided
    /\ enqueued_count_ = Len(accepted)
    /\ policy = "NeverDropBlock" =>
         /\ dropped_count_ = 0
         /\ \A i \in 1 .. Len(accepted) : accepted[i] = i - 1

LEMMA InitCounted == Init => Counted
BY DEF Init, Counted, Decided

LEMMA NextCounted ==
    ASSUME IInv, Counted, [Next]_vars, ~Evicting PROVE Counted'
<1> USE DEF IInv, TypeOK, Control
<1>1. CASE Callback
  BY <1>1 DEF Callback, Counted, Decided, counters, config
<1>2. CASE TryPushRoom
  BY <1>2 DEF TryPushRoom, Counted, Decided, counters, config
<1>3. CASE DropOnFull
  BY <1>3 DEF DropOnFull, TryPushFull, Counted, Decided, config
<1>4. CASE BlockOnFull
  BY <1>4 DEF BlockOnFull, TryPushFull, Counted, Decided, counters, config
<1>5. CASE ForceOnFull \/ EvictLoad \/ EvictStore \/ ForcedPushFails
  BY <1>5 DEF ForceOnFull, EvictLoad, EvictStore, ForcedPushFails
<1>6. CASE WriteSlot
  BY <1>6 DEF WriteSlot, Counted, Decided, counters, config
<1>7. CASE Publish
  <2>1. Frame \in Nat /\ Decided' = Decided + 1 /\ Decided = Frame
    BY <1>7 DEF Publish, Frame, Decided
  <2>2. /\ accepted' = Append(accepted, Frame) /\ Len(accepted') = Len(accepted) + 1
        /\ accepted'[Len(accepted) + 1] = Frame
        /\ \A i \in 1 .. Len(accepted) : accepted'[i] = accepted[i]
    BY <1>7, <2>1 DEF Publish
  <2> QED BY <1>7, <2>1, <2>2 DEF Publish, Counted, config
<1>8. CASE ConsumerStep
  BY <1>8 DEF ConsumerStep, PopLoadTail, PopEmpty, PopNonEmpty, ReadSlot, Release,
              Counted, Decided, counters, config, producer
<1>9. CASE UNCHANGED vars
  BY <1>9 DEF vars, counters, config, producer, Counted, Decided
<1> QED BY <1>1, <1>2, <1>3, <1>4, <1>5, <1>6, <1>7, <1>8, <1>9 DEF Next, ProducerStep

LEMMA InductiveCounted == Spec => [](~Evicting => IInv /\ Counted)
<1>1. Init => (~Evicting => IInv /\ Counted)
  BY InitIInv, InitCounted
<1>2. (~Evicting => IInv /\ Counted) /\ [Next]_vars => (~Evicting => IInv /\ Counted)'
  BY NextIInv, NextCounted, SamePolicy DEF Evicting
<1> QED BY <1>1, <1>2, PTL DEF Spec

\* The metrics agree with the ring: each capture is counted once, and the frames
\* counted as stored are those delivered or queued, unless the producer evicts.
THEOREM RingCountersAccount == Spec => []CountersAccount
<1>1. (~Evicting => IInv /\ Counted) => CountersAccount
  BY DEF IInv, Window, Queued, Counted, CountersAccount
<1> QED BY <1>1, InductiveCounted, PTL

\* A blocking stream loses no frame: what was captured is stored, in order.
THEOREM RingNeverDropLossless == Spec => []NeverDropLossless
<1>1. ASSUME IInv, Counted, policy = "NeverDropBlock" PROVE NeverDropLossless
  <2>1. Len(accepted) = Decided /\ dropped_count_ = 0
    BY <1>1 DEF IInv, TypeOK, Counted
  <2>2. accepted \in Seq(Nat)
    BY <1>1 DEF IInv, TypeOK
  <2>3. accepted = [i \in 1 .. Len(accepted) |-> i - 1]
    BY <1>1, <2>2 DEF Counted
  <2> QED BY <2>1, <2>3 DEF NeverDropLossless
<1>2. (~Evicting => IInv /\ Counted) => NeverDropLossless
  BY <1>1 DEF NeverDropLossless, Evicting
<1> QED BY <1>2, InductiveCounted, PTL

-----------------------------------------------------------------------------
(* The ring implements the bounded FIFO                                    *)

Known == Len(delivered) - Dist(tail_, tailSeen)

\* The frames in the ring, as a window on the history of accepted frames.
LEMMA ContentsWindow ==
    ASSUME IInv
    PROVE  Contents = [i \in 1 .. Queued |-> accepted[Len(delivered) + i]]
<1>1. \A i \in 1 .. Queued : Contents[i] = accepted[Len(delivered) + i]
  BY ContentsSeq
<1>2. Contents = [i \in 1 .. Queued |-> Contents[i]]
  BY DEF Contents, Queued
<1> QED BY <1>1, <1>2

LEMMA KnownBounds ==
    ASSUME IInv
    PROVE  /\ Queued \in Nat /\ Dist(tail_, tailSeen) \in Nat /\ Len(delivered) \in Nat
           /\ Len(Contents) = Queued
           /\ Len(delivered) + Queued - Known = Dist(head_, tailSeen)
           /\ Known <= Len(delivered) /\ Known \in Int
<1>1. Dist(tail_, tailSeen) \in Nat
  BY DistBounds DEF IInv, TypeOK
<1> QED BY <1>1, ContentsSeq, QueuedBounds, CapacityNat DEF IInv, Order, TypeOK, Known

LEMMA InitFifo == Init => Fifo!Init
BY CapacityNat DEF Init, Fifo!Init, Decided, Contents, Dist

\* A step that moves no frame and decides no capture is a step in which the
\* producer learns of deliveries, perhaps of none.
LEMMA LearnStep ==
    ASSUME IInv, IInv', ~Evicting, UNCHANGED <<policy, head_, tail_, accepted, delivered>>,
           Decided' = Decided, tailSeen' \in Loads(tailSeen, tail_) \/ UNCHANGED tailSeen
    PROVE  Fifo!Learn
<1>1. Contents' = Contents
  <2>1. Contents = [i \in 1 .. Queued |-> accepted[Len(delivered) + i]]
    BY ContentsWindow
  <2>2. (Contents = [i \in 1 .. Queued |-> accepted[Len(delivered) + i]])'
    BY ContentsWindow, PTL
  <2> QED BY <2>1, <2>2 DEF Queued
<1>2. Dist(tail_, tailSeen') \in Nat /\ Dist(tail_, tailSeen') <= Dist(tail_, tailSeen)
  <2>1. tail_ \in Slots /\ tailSeen \in Slots
    BY DEF IInv, TypeOK
  <2>2. CASE tailSeen' \in Loads(tailSeen, tail_)
    BY <2>1, <2>2, LoadsBetween, FresherTail
  <2>3. CASE UNCHANGED tailSeen
    BY <2>1, <2>3, DistBounds, CapacityNat
  <2> QED BY <2>2, <2>3
<1>3. Known' \in Known .. Len(delivered)
  BY <1>2, KnownBounds DEF Known
<1> QED BY <1>1, <1>3 DEF Evicting, Fifo!Learn, Known

LEMMA NextFifo ==
    ASSUME IInv, IInv', [Next]_vars, ~Evicting
    PROVE  Fifo!Next
<1>1. CASE Callback
  <2>1. Decided' = Decided
    BY <1>1 DEF Callback, Decided, IInv, TypeOK
  <2> QED BY <1>1, <2>1, LearnStep DEF Callback, config, shared, consumer, Fifo!Next
<1>2. CASE TryPushRoom \/ BlockOnFull
  BY <1>2, LearnStep DEF TryPushRoom, BlockOnFull, TryPushFull, Decided, config, shared, consumer, Fifo!Next
<1>3. CASE DropOnFull
  <2>1. Decided' = Decided + 1
    BY <1>3 DEF DropOnFull, TryPushFull, Decided, IInv, TypeOK
  <2>2. Contents' = Contents
    BY <1>3 DEF DropOnFull, Contents, shared, consumer
  <2>3. tailSeen' \in Slots /\ Dist(tailSeen', tailSeen) <= Dist(tail_, tailSeen)
    BY <1>3, LoadsBetween DEF DropOnFull, TryPushFull, IInv, TypeOK
  <2>4. Dist(tail_, tailSeen') \in Nat /\ Dist(tail_, tailSeen') <= Dist(tail_, tailSeen)
    BY <2>3, FresherTail DEF IInv, TypeOK
  <2>5. Known' \in Known .. Len(delivered)
    BY <1>3, <2>4, KnownBounds DEF Known, DropOnFull, shared, consumer
  <2>6. Len(delivered) + Queued - Known' = Capacity - 1
    <3>1. (Len(delivered) + Queued - Known = Dist(head_, tailSeen))'
      BY KnownBounds, PTL
    <3>2. Dist(head_, tailSeen') = Capacity - 1
      BY <1>3, <2>3, DistBounds DEF DropOnFull, TryPushFull, Full, IInv, TypeOK
    <3> QED BY <1>3, <3>1, <3>2 DEF DropOnFull, shared, consumer, Queued
  <2>7. Fifo!DropNewest
    BY <1>3, <2>1, <2>2, <2>5, <2>6, KnownBounds
    DEF Evicting, Fifo!DropNewest, Fifo!Taken, DropOnFull, config, consumer, Known
  <2> QED BY <2>7 DEF Fifo!Next
<1>4. CASE ForceOnFull \/ EvictLoad \/ EvictStore \/ ForcedPushFails
  BY <1>4 DEF IInv, TypeOK, Control, ForceOnFull, EvictLoad, EvictStore, ForcedPushFails
<1>5. CASE WriteSlot
  BY <1>5, LearnStep DEF WriteSlot, Decided, config, consumer, Fifo!Next
<1>6. CASE Publish
  <2>1. Decided' = Decided + 1 /\ Decided = Frame /\ Frame \in Nat
    BY <1>6 DEF Publish, Decided, Frame, IInv, TypeOK, Control
  <2>2. Dist(head_, tailSeen) < Capacity - 1 /\ Queued' = Queued + 1
    <3>1. Dist(head_, tailSeen) \in Nat /\ Dist(head_, tailSeen) <= Capacity - 1
          /\ Dist(head_, tailSeen) # Capacity - 1
      BY <1>6, DistBounds DEF Publish, IInv, TypeOK, Control, Full
    <3>2. Inc(head_) # tail_
      <4>1. Queued # Capacity - 1
        BY <3>1, KnownBounds, CapacityNat DEF IInv, Order
      <4> QED BY <4>1, DistBounds DEF IInv, TypeOK, Queued
    <3> QED BY <1>6, <3>1, <3>2, DistBounds, CapacityNat, SMTT(30) DEF Publish, Queued, IInv, TypeOK
  <2>3. Contents' = Append(Contents, Frame)
    <3>1. Contents = [i \in 1 .. Queued |-> accepted[Len(delivered) + i]]
      BY ContentsWindow
    <3>2. (Contents = [i \in 1 .. Queued |-> accepted[Len(delivered) + i]])'
      BY ContentsWindow, PTL
    <3>3. Contents' = [i \in 1 .. Queued + 1 |-> accepted'[Len(delivered) + i]]
      BY <1>6, <2>2, <3>2 DEF Publish, consumer
    <3>4. /\ Len(accepted) = Len(delivered) + Queued
          /\ accepted \in Seq(Nat) /\ accepted' = Append(accepted, Frame)
          /\ Queued \in Nat /\ Len(delivered) \in Nat
      BY <1>6, KnownBounds DEF IInv, Window, TypeOK, Publish
    <3>5. \A i \in 1 .. Queued : accepted'[Len(delivered) + i] = accepted[Len(delivered) + i]
      BY <2>1, <3>4
    <3>6. accepted'[Len(delivered) + (Queued + 1)] = Frame
      BY <2>1, <3>4
    <3>7. Contents \in Seq(Nat \cup {Moved}) /\ Len(Contents) = Queued
      BY ContentsSeq
    <3>8. Append(Contents, Frame) = [i \in 1 .. Queued + 1 |-> IF i = Queued + 1 THEN Frame ELSE Contents[i]]
      BY <3>7, <2>1, AppendFunction
    <3>9. ASSUME NEW i \in 1 .. Queued + 1
          PROVE  accepted'[Len(delivered) + i] = IF i = Queued + 1 THEN Frame ELSE Contents[i]
      <4>1. CASE i = Queued + 1
        BY <4>1, <3>6
      <4>2. CASE i # Queued + 1
        <5>1. i \in 1 .. Queued
          BY <4>2, <3>4
        <5> QED BY <4>2, <5>1, <3>1, <3>5
      <4> QED BY <4>1, <4>2
    <3> QED BY <3>3, <3>8, <3>9
  <2>4. Known' = Known
    BY <1>6 DEF Publish, consumer, Known
  <2>5. Fifo!Accept
    BY <1>6, <2>1, <2>2, <2>3, <2>4, KnownBounds
    DEF Evicting, Fifo!Accept, Fifo!Taken, Publish, config, consumer, Known
  <2> QED BY <2>5 DEF Fifo!Next
<1>7. CASE PopLoadTail \/ PopEmpty \/ PopNonEmpty \/ ReadSlot
  BY <1>7, LearnStep DEF PopLoadTail, PopEmpty, PopNonEmpty, ReadSlot, Decided,
                         config, shared, producer, Fifo!Next
<1>8. CASE Release
  <2>1. Queued >= 1 /\ tail_ # head_ /\ ctail = tail_ /\ out = accepted[Len(delivered) + 1]
    BY <1>8, QueuedBounds DEF Release, IInv, Window
  <2>2. Queued' = Queued - 1
    BY <1>8, <2>1, DistBounds, SMTT(30) DEF Release, Queued, IInv, TypeOK
  <2>3. /\ delivered' = Append(delivered, out) /\ delivered \in Seq(Nat \cup {Moved})
        /\ out \in Nat \cup {Moved} /\ Len(delivered') = Len(delivered) + 1
    BY <1>8 DEF Release, IInv, TypeOK
  <2>4. /\ Contents \in Seq(Nat \cup {Moved}) /\ Len(Contents) = Queued /\ Queued \in Nat
        /\ Contents = [i \in 1 .. Queued |-> accepted[Len(delivered) + i]]
    BY ContentsSeq, ContentsWindow, KnownBounds
  <2>5. Contents # << >> /\ Head(Contents) = out
    BY <2>1, <2>4
  <2>6. Contents' = Tail(Contents)
    <3>1. (Contents = [i \in 1 .. Queued |-> accepted[Len(delivered) + i]])'
      BY ContentsWindow, PTL
    <3>2. Contents' = [i \in 1 .. Queued - 1 |-> accepted[Len(delivered) + 1 + i]]
      BY <3>1, <1>8, <2>2, <2>3 DEF Release, producer
    <3>3. Tail(Contents) = [i \in 1 .. Queued - 1 |-> Contents[i + 1]]
      BY <2>4, <2>5
    <3>4. \A i \in 1 .. Queued - 1 : Contents[i + 1] = accepted[Len(delivered) + 1 + i]
      BY <2>3, <2>4
    <3> QED BY <3>2, <3>3, <3>4
  <2>7. Known' = Known
    <3>1. Dist(tail_, tailSeen)' = Dist(tail_, tailSeen) + 1
      <4>1. Dist(tail_, tailSeen) + Queued = Dist(head_, tailSeen)
            /\ Dist(head_, tailSeen) <= Capacity - 1
        BY DistBounds DEF IInv, Order, TypeOK
      <4>2. Inc(tail_) # tailSeen
        <5>1. Dist(tail_, tailSeen) # Capacity - 1
          BY <2>1, <4>1, KnownBounds, CapacityNat
        <5> QED BY <5>1, DistBounds DEF IInv, TypeOK
      <4> QED BY <1>8, <2>1, <4>2, DistBounds DEF Release, producer, IInv, TypeOK
    <3> QED BY <2>3, <3>1, KnownBounds DEF Known
  <2>8. Decided' = Decided
    BY <1>8 DEF Release, producer, Decided
  <2>9. Fifo!Deliver
    BY <1>8, <2>3, <2>5, <2>6, <2>7, <2>8 DEF Evicting, Fifo!Deliver, Known, Release, config
  <2> QED BY <2>9 DEF Fifo!Next
<1>9. CASE UNCHANGED vars
  BY <1>9, LearnStep DEF vars, config, shared, producer, consumer, Decided, Fifo!Next
<1> QED BY <1>1, <1>2, <1>3, <1>4, <1>5, <1>6, <1>7, <1>8, <1>9
        DEF Next, ProducerStep, ConsumerStep

\* The two indices and the unlocked array implement the bounded FIFO of StreamFifo,
\* whatever the loads of the other thread's index return, unless the producer evicts.
THEOREM RingImplementsFifo == Spec => ImplementsFifo
<1>1. Spec => [](~Evicting => IInv)
  BY Inductive
<1>2. Init => Fifo!Init
  BY InitFifo
<1>3. (~Evicting => IInv) /\ (~Evicting => IInv)' /\ [Next]_vars => [Fifo!Next]_(Fifo!vars)
  <2>1. CASE Evicting
    BY <2>1, SamePolicy DEF Fifo!vars, Evicting
  <2>2. CASE ~Evicting
    BY <2>2, NextFifo, SamePolicy DEF Evicting
  <2> QED BY <2>1, <2>2
<1> QED BY <1>1, <1>2, <1>3, PTL DEF Spec, ImplementsFifo, Fifo!Spec

-----------------------------------------------------------------------------
(***************************************************************************)
(* Proofs about Seqlock for every size of the payload and every number of  *)
(* stores.                                                                 *)
(*                                                                         *)
(* The argument has two halves.  Whoever has read version k of a byte and  *)
(* passed the acquire fence has seen seq_ reach 2k - 1 (the writer's first *)
(* fence); whoever has acquired seq_ = 2k can no longer read a byte older  *)
(* than version k (the release store).  A reader that finds the same even  *)
(* value before and after is caught between the two.                       *)
(***************************************************************************)

\* Where the writer is, in terms of what it has stored.
WriterAt ==
    /\ \A l \in Locs : wview[l] = Latest(l)
    /\ wpc = "idle" => \A b \in Bytes : 2 * Latest(b) = Latest(SeqLoc)
    /\ wpc = "fence1" => \A b \in Bytes : 2 * Latest(b) + 1 = Latest(SeqLoc)
    /\ wpc = "bytes" =>
         /\ wi \in Bytes /\ wfence[SeqLoc] = Latest(SeqLoc)
         /\ \A b \in Bytes : b < wi => 2 * Latest(b) = Latest(SeqLoc) + 1
         /\ \A b \in Bytes : b >= wi => 2 * Latest(b) + 1 = Latest(SeqLoc)
    /\ wpc \in {"fence2", "publish"} =>
         \A b \in Bytes : 2 * Latest(b) = Latest(SeqLoc) + 1

\* A byte of version n carries the odd sequence of its store().
BytesCarrySeq ==
    \A b \in Bytes : \A n \in 1 .. Latest(b) : Released(b, n)[SeqLoc] >= 2 * n - 1

\* An even sequence carries the bytes published with it.
EvenCarriesBytes ==
    \A n \in 0 .. Latest(SeqLoc) :
        n % 2 = 0 => \A b \in Bytes : 2 * Released(SeqLoc, n)[b] >= n

\* What the reader knows at each step.
ReaderAt ==
    /\ rpc = "bytes" => ri \in Bytes
    /\ rpc \in {"fence", "seq1"} => ri = NumBytes + 1
    /\ rpc # "idle" =>
         /\ seq0 % 2 = 0
         /\ \A b \in Bytes : 2 * rview[b] >= seq0
         /\ \A b \in Bytes : b < ri => 2 * tmp[b] >= seq0 /\ racq[SeqLoc] + 1 >= 2 * tmp[b]
    /\ rpc = "seq1" => \A b \in Bytes : rview[SeqLoc] + 1 >= 2 * tmp[b]

\* The inductive invariant.
SeqlockIInv ==
    /\ SeqlockTypeOK /\ WriterAt /\ BytesCarrySeq /\ EvenCarriesBytes /\ ReaderAt
    /\ NoTornRead

-----------------------------------------------------------------------------
LEMMA LocFacts ==
    /\ SeqLoc \in Locs /\ Bytes \subseteq Locs /\ 1 \in Bytes
    /\ \A b \in Bytes : b \in Nat /\ b # SeqLoc /\ b <= NumBytes /\ b >= 1
    /\ NumBytes \in Nat /\ NumBytes >= 1
BY NumBytesAssumption DEF SeqLoc, Locs, Bytes

LEMMA JoinFacts ==
    ASSUME NEW v \in Views, NEW w \in Views
    PROVE  /\ Join(v, w) \in Views
           /\ \A l \in Locs : Join(v, w)[l] >= v[l] /\ Join(v, w)[l] >= w[l]
BY DEF Join, Views

LEMMA MemFacts ==
    ASSUME SeqlockTypeOK, NEW l \in Locs
    PROVE  /\ Latest(l) \in Nat /\ Len(mem[l]) = Latest(l) + 1
           /\ \A n \in 0 .. Latest(l) : Released(l, n) \in Views
<1>1. mem[l] \in Seq(Views) /\ mem[l] # << >>
  BY DEF SeqlockTypeOK
<1>2. Len(mem[l]) \in Nat /\ Len(mem[l]) # 0
  BY <1>1
<1>3. \A n \in 0 .. Len(mem[l]) - 1 : mem[l][n + 1] \in Views
  BY <1>1, <1>2
<1> QED BY <1>2, <1>3 DEF Latest, Released

\* A store appends one message to its location and leaves the others alone.
LEMMA PutFacts ==
    ASSUME SeqlockTypeOK, NEW l \in Locs, NEW v \in Views, PutAt(l, v)
    PROVE  /\ mem' \in [Locs -> Seq(Views)] /\ \A m \in Locs : mem'[m] # << >>
           /\ wview' \in Views
           /\ wview' = [wview EXCEPT ![l] = Latest(l) + 1]
           /\ Latest(l)' = Latest(l) + 1
           /\ \A m \in Locs : m # l => Latest(m)' = Latest(m)
           /\ \A n \in Nat : n = Latest(l) + 1 => Released(l, n)' = [v EXCEPT ![l] = n]
           /\ \A m \in Locs : \A n \in 0 .. Latest(m) : Released(m, n)' = Released(m, n)
<1> DEFINE new == [v EXCEPT ![l] = Latest(l) + 1]
<1>1. Latest(l) \in Nat /\ Len(mem[l]) = Latest(l) + 1
  BY MemFacts
<1>2. new \in Views
  BY <1>1 DEF Views
<1>3. mem' = [mem EXCEPT ![l] = Append(mem[l], new)] /\ mem \in [Locs -> Seq(Views)]
  BY DEF PutAt, SeqlockTypeOK
<1>4. wview' = [wview EXCEPT ![l] = Latest(l) + 1]
  BY DEF PutAt
<1> HIDE DEF new
<1>5. /\ mem'[l] = Append(mem[l], new) /\ mem[l] \in Seq(Views)
      /\ \A m \in Locs : m # l => mem'[m] = mem[m]
  BY <1>3
<1>6. /\ mem'[l] \in Seq(Views) /\ Len(mem'[l]) = Len(mem[l]) + 1
      /\ \A i \in 1 .. Len(mem[l]) : mem'[l][i] = mem[l][i]
      /\ mem'[l][Len(mem[l]) + 1] = new
  BY <1>2, <1>5
<1>7. mem' \in [Locs -> Seq(Views)]
  BY <1>3, <1>2, <1>6
<1>8. \A m \in Locs : mem'[m] # << >>
  BY <1>5, <1>6, <1>1 DEF SeqlockTypeOK
<1>9. wview' \in Views
  BY <1>1, <1>4 DEF SeqlockTypeOK, Views
<1>10. Latest(l)' = Latest(l) + 1 /\ \A m \in Locs : m # l => Latest(m)' = Latest(m)
  BY <1>1, <1>5, <1>6 DEF Latest
<1>11. ASSUME NEW n \in Nat, n = Latest(l) + 1 PROVE Released(l, n)' = [v EXCEPT ![l] = n]
  <2>1. mem'[l][n + 1] = new
    BY <1>1, <1>6, <1>11
  <2> QED BY <2>1, <1>11 DEF Released, new
<1>12. ASSUME NEW m \in Locs, NEW n \in 0 .. Latest(m) PROVE Released(m, n)' = Released(m, n)
  <2>1. CASE m # l
    BY <2>1, <1>5 DEF Released
  <2>2. CASE m = l
    <3>1. n + 1 \in 1 .. Len(mem[l])
      BY <2>2, <1>1
    <3> QED BY <2>2, <3>1, <1>6 DEF Released
  <2> QED BY <2>1, <2>2
<1> QED BY <1>4, <1>7, <1>8, <1>9, <1>10, <1>11, <1>12

LEMMA SeqlockInitIInv == SeqlockInit => SeqlockIInv
<1> SUFFICES ASSUME SeqlockInit PROVE SeqlockIInv
  OBVIOUS
<1>1. /\ Zero \in Views /\ \A l \in Locs : Zero[l] = 0
  BY DEF Zero, Views
<1>2. \A l \in Locs : mem[l] = <<Zero>> /\ Len(mem[l]) = 1 /\ mem[l][1] = Zero
  BY <1>1 DEF SeqlockInit
<1>3. \A l \in Locs : Latest(l) = 0 /\ Released(l, 0) = Zero
  BY <1>2 DEF Latest, Released
<1>4. SeqlockTypeOK
  <2>1. mem \in [Locs -> Seq(Views)] /\ \A l \in Locs : mem[l] # << >>
    BY <1>1, <1>2 DEF SeqlockInit
  <2> QED BY <2>1, <1>1, LocFacts DEF SeqlockInit, SeqlockTypeOK
<1>5. WriterAt /\ ReaderAt
  BY <1>1, <1>3, LocFacts DEF SeqlockInit, WriterAt, ReaderAt
<1>6. BytesCarrySeq /\ EvenCarriesBytes
  BY <1>1, <1>3, LocFacts DEF BytesCarrySeq, EvenCarriesBytes
<1>7. NoTornRead
  BY DEF SeqlockInit, NoTornRead
<1> QED BY <1>4, <1>5, <1>6, <1>7 DEF SeqlockIInv

\* The reader's part of the invariant only looks at the reader.
LEMMA WriterStepKeepsReader ==
    ASSUME SeqlockIInv, UNCHANGED reader PROVE ReaderAt' /\ NoTornRead'
BY DEF SeqlockIInv, reader, ReaderAt, NoTornRead

LEMMA StoreOddIInv == ASSUME SeqlockIInv, StoreOdd PROVE SeqlockIInv'
<1> USE LocFacts
<1>1. PutAt(SeqLoc, wfence) /\ wpc = "idle" /\ wpc' = "fence1" /\ UNCHANGED <<wfence, wi, reader>>
  BY DEF StoreOdd, StoreRelaxed
<1>2. SeqlockTypeOK /\ wfence \in Views
  BY DEF SeqlockIInv, SeqlockTypeOK
<1>3. /\ mem' \in [Locs -> Seq(Views)] /\ \A m \in Locs : mem'[m] # << >>
      /\ wview' \in Views
      /\ wview' = [wview EXCEPT ![SeqLoc] = Latest(SeqLoc) + 1]
      /\ Latest(SeqLoc)' = Latest(SeqLoc) + 1
      /\ \A m \in Locs : m # SeqLoc => Latest(m)' = Latest(m)
      /\ \A m \in Locs : \A n \in 0 .. Latest(m) : Released(m, n)' = Released(m, n)
  BY <1>1, <1>2, PutFacts
<1>4. \A l \in Locs : Latest(l) \in Nat
  BY <1>2, MemFacts
<1>5. SeqlockTypeOK'
  BY <1>1, <1>2, <1>3 DEF SeqlockTypeOK, reader
<1>6. WriterAt'
  BY <1>1, <1>2, <1>3, <1>4, ZenonT(40) DEF SeqlockIInv, WriterAt, SeqlockTypeOK, Views
<1>7. BytesCarrySeq'
  BY <1>3, <1>4 DEF SeqlockIInv, BytesCarrySeq
<1>8. EvenCarriesBytes'
  <2>1. Latest(1) \in Nat /\ 2 * Latest(1) = Latest(SeqLoc)
    BY <1>1, <1>4 DEF SeqlockIInv, WriterAt
  <2>2. (Latest(SeqLoc) + 1) % 2 = 1
    <3>1. \A k \in Nat : (2 * k + 1) % 2 = 1
      OBVIOUS
    <3> QED BY <2>1, <3>1
  <2>3. \A n \in 0 .. Latest(SeqLoc)' : n % 2 = 0 => n \in 0 .. Latest(SeqLoc)
    <3>1. Latest(SeqLoc)' = Latest(SeqLoc) + 1 /\ Latest(SeqLoc) \in Nat
      BY <1>3, <1>4
    <3>2. \A n \in 0 .. Latest(SeqLoc) + 1 : n % 2 = 0 => n \in 0 .. Latest(SeqLoc)
      BY <2>2, <3>1
    <3> QED BY <3>1, <3>2
  <2> QED BY <2>3, <1>3 DEF SeqlockIInv, EvenCarriesBytes
<1> QED BY <1>1, <1>5, <1>6, <1>7, <1>8, WriterStepKeepsReader DEF SeqlockIInv

LEMMA WriteByteIInv == ASSUME SeqlockIInv, WriteByte PROVE SeqlockIInv'
<1> USE LocFacts
<1>1. /\ PutAt(wi, wfence) /\ wpc = "bytes" /\ wi' = wi + 1
      /\ wpc' = (IF wi = NumBytes THEN "fence2" ELSE "bytes")
      /\ UNCHANGED <<wfence, reader>>
  BY DEF WriteByte, StoreRelaxed
<1>2. SeqlockTypeOK /\ wfence \in Views /\ wi \in Bytes /\ wi \in Locs
  BY <1>1 DEF SeqlockIInv, SeqlockTypeOK, WriterAt
<1>3. /\ mem' \in [Locs -> Seq(Views)] /\ \A m \in Locs : mem'[m] # << >>
      /\ wview' \in Views
      /\ wview' = [wview EXCEPT ![wi] = Latest(wi) + 1]
      /\ \A n \in Nat : n = Latest(wi) + 1 => mem'[wi][n + 1] = [wfence EXCEPT ![wi] = n]
      /\ Len(mem'[wi]) - 1 = Latest(wi) + 1
      /\ \A m \in Locs : m # wi => Latest(m)' = Latest(m)
      /\ \A m \in Locs : \A n \in 0 .. Latest(m) : Released(m, n)' = Released(m, n)
  <2> DEFINE l == wi
  <2>1. l \in Locs /\ PutAt(l, wfence)
    BY <1>1, <1>2
  <2> QED BY <2>1, <1>2, PutFacts DEF Latest, Released
<1>4. \A m \in Locs : Latest(m) \in Nat
  BY <1>2, MemFacts
<1>5. SeqlockTypeOK'
  BY <1>1, <1>2, <1>3, SMTT(30) DEF SeqlockTypeOK, reader
<1>6. /\ wfence[SeqLoc] = Latest(SeqLoc) /\ 2 * Latest(wi) + 1 = Latest(SeqLoc)
  BY <1>1, <1>2 DEF SeqlockIInv, WriterAt
<1>7. \A m \in Locs : Latest(m)' = IF m = wi THEN Latest(m) + 1 ELSE Latest(m)
  BY <1>2, <1>3 DEF Latest
<1>8. WriterAt'
  <2>1. \A m \in Locs : wview'[m] = Latest(m)'
    BY <1>3, <1>7, <1>2 DEF SeqlockIInv, WriterAt, SeqlockTypeOK, Views
  <2>2. \A b \in Bytes : b <= wi => 2 * Latest(b)' = Latest(SeqLoc)' + 1
    BY <1>1, <1>2, <1>4, <1>6, <1>7 DEF SeqlockIInv, WriterAt
  <2>3. \A b \in Bytes : b > wi => 2 * Latest(b)' + 1 = Latest(SeqLoc)'
    BY <1>1, <1>2, <1>4, <1>7 DEF SeqlockIInv, WriterAt
  <2>4. wi \in Nat /\ (wi # NumBytes => wi + 1 \in Bytes)
    BY <1>2 DEF Bytes
  <2>5. wfence'[SeqLoc] = Latest(SeqLoc)'
    BY <1>1, <1>2, <1>6, <1>7
  <2> QED BY <1>1, <2>1, <2>2, <2>3, <2>4, <2>5 DEF WriterAt
<1>9. BytesCarrySeq'
  <2> SUFFICES ASSUME NEW b \in Bytes, NEW n \in 1 .. Latest(b)'
               PROVE  Released(b, n)'[SeqLoc] >= 2 * n - 1
    BY DEF BytesCarrySeq
  <2>1. CASE n \in 1 .. Latest(b)
    BY <2>1, <1>3, <1>4 DEF SeqlockIInv, BytesCarrySeq
  <2>2. CASE n \notin 1 .. Latest(b)
    <3>1. b = wi /\ n = Latest(wi) + 1 /\ n \in Nat
      BY <2>2, <1>4, <1>7
    <3>2. Released(b, n)' = [wfence EXCEPT ![wi] = n]
      BY <3>1, <1>3 DEF Released
    <3>3. Released(b, n)'[SeqLoc] = wfence[SeqLoc]
      BY <3>2, <1>2 DEF Views
    <3> QED BY <3>1, <3>3, <1>6, <1>4, <1>2
  <2> QED BY <2>1, <2>2
<1>10. EvenCarriesBytes'
  <2>1. Latest(SeqLoc)' = Latest(SeqLoc)
    BY <1>2, <1>3
  <2> QED BY <2>1, <1>3 DEF SeqlockIInv, EvenCarriesBytes
<1> QED BY <1>1, <1>5, <1>8, <1>9, <1>10, WriterStepKeepsReader DEF SeqlockIInv

LEMMA StoreEvenIInv == ASSUME SeqlockIInv, StoreEven PROVE SeqlockIInv'
<1> USE LocFacts
<1>1. PutAt(SeqLoc, wview) /\ wpc = "publish" /\ wpc' = "idle" /\ UNCHANGED <<wfence, wi, reader>>
  BY DEF StoreEven, StoreRelease
<1>2. SeqlockTypeOK /\ wview \in Views
  BY DEF SeqlockIInv, SeqlockTypeOK
<1>3. /\ mem' \in [Locs -> Seq(Views)] /\ \A m \in Locs : mem'[m] # << >>
      /\ wview' \in Views
      /\ wview' = [wview EXCEPT ![SeqLoc] = Latest(SeqLoc) + 1]
      /\ Latest(SeqLoc)' = Latest(SeqLoc) + 1
      /\ \A m \in Locs : m # SeqLoc => Latest(m)' = Latest(m)
      /\ \A n \in Nat : n = Latest(SeqLoc) + 1 => Released(SeqLoc, n)' = [wview EXCEPT ![SeqLoc] = n]
      /\ \A m \in Locs : \A n \in 0 .. Latest(m) : Released(m, n)' = Released(m, n)
  BY <1>1, <1>2, PutFacts
<1>4. \A l \in Locs : Latest(l) \in Nat
  BY <1>2, MemFacts
<1>5. SeqlockTypeOK'
  BY <1>1, <1>2, <1>3 DEF SeqlockTypeOK, reader
<1>6. WriterAt'
  BY <1>1, <1>2, <1>3, <1>4, ZenonT(60) DEF SeqlockIInv, WriterAt, SeqlockTypeOK, Views
<1>7. BytesCarrySeq'
  BY <1>3, <1>4 DEF SeqlockIInv, BytesCarrySeq
<1>8. EvenCarriesBytes'
  <2> SUFFICES ASSUME NEW n \in 0 .. Latest(SeqLoc)', n % 2 = 0, NEW b \in Bytes
               PROVE  2 * Released(SeqLoc, n)'[b] >= n
    BY DEF EvenCarriesBytes
  <2>1. CASE n \in 0 .. Latest(SeqLoc)
    BY <2>1, <1>3 DEF SeqlockIInv, EvenCarriesBytes
  <2>2. CASE n \notin 0 .. Latest(SeqLoc)
    <3>1. n = Latest(SeqLoc) + 1 /\ n \in Nat
      <4>1. Latest(SeqLoc)' = Latest(SeqLoc) + 1 /\ Latest(SeqLoc) \in Nat
        BY <1>3, <1>4
      <4>2. n \in 0 .. Latest(SeqLoc) + 1
        BY <4>1
      <4> QED BY <2>2, <4>1, <4>2
    <3>2. Released(SeqLoc, n)' = [wview EXCEPT ![SeqLoc] = n]
      BY <3>1, <1>3
    <3>3. Released(SeqLoc, n)'[b] = wview[b]
      BY <3>2, <1>2 DEF Views
    <3>4. wview[b] = Latest(b) /\ 2 * Latest(b) = Latest(SeqLoc) + 1
      BY <1>1 DEF SeqlockIInv, WriterAt
    <3> QED BY <3>1, <3>3, <3>4, <1>4
  <2> QED BY <2>1, <2>2
<1> QED BY <1>1, <1>5, <1>6, <1>7, <1>8, WriterStepKeepsReader DEF SeqlockIInv

LEMMA FenceIInv == ASSUME SeqlockIInv, ReleaseFence1 \/ ReleaseFence2 PROVE SeqlockIInv'
<1> USE LocFacts
<1>1. UNCHANGED <<mem, wview, reader>> /\ wfence' = wview
  BY DEF ReleaseFence1, ReleaseFence2
<1>2. \A l \in Locs : Latest(l)' = Latest(l) /\ \A n : Released(l, n)' = Released(l, n)
  BY <1>1 DEF Latest, Released
<1>3. SeqlockTypeOK'
  BY <1>1 DEF SeqlockIInv, SeqlockTypeOK, reader, ReleaseFence1, ReleaseFence2
<1>4. \A l \in Locs : Latest(l) \in Nat
  BY MemFacts DEF SeqlockIInv
<1>5. WriterAt'
  BY <1>1, <1>2, <1>4 DEF SeqlockIInv, WriterAt, ReleaseFence1, ReleaseFence2
<1>6. BytesCarrySeq' /\ EvenCarriesBytes'
  BY <1>2 DEF SeqlockIInv, BytesCarrySeq, EvenCarriesBytes
<1> QED BY <1>1, <1>3, <1>5, <1>6, WriterStepKeepsReader DEF SeqlockIInv

-----------------------------------------------------------------------------
\* The writer's part of the invariant only looks at the memory and the writer.
LEMMA ReaderStepKeepsWriter ==
    ASSUME SeqlockIInv, UNCHANGED <<mem, writer>>
    PROVE  WriterAt' /\ BytesCarrySeq' /\ EvenCarriesBytes'
BY DEF SeqlockIInv, writer, WriterAt, BytesCarrySeq, EvenCarriesBytes, Latest, Released

\* Every store the reader may return is one that was made.
LEMMA ReadableFacts ==
    ASSUME SeqlockTypeOK, NEW l \in Locs, NEW n \in Readable(l)
    PROVE  n \in Nat /\ n >= rview[l] /\ n \in 0 .. Latest(l) /\ Released(l, n) \in Views
<1>1. rview[l] \in Nat /\ Latest(l) \in Nat
  BY MemFacts DEF SeqlockTypeOK, Views
<1>2. n \in 0 .. Latest(l) /\ n \in Nat /\ n >= rview[l]
  BY <1>1 DEF Readable
<1> QED BY <1>2, MemFacts

LEMMA LoadSeq0IInv == ASSUME SeqlockIInv, LoadSeq0 PROVE SeqlockIInv'
<1> USE LocFacts
<1>1. PICK n \in Readable(SeqLoc) :
        /\ LoadAcquire(SeqLoc, n) /\ seq0' = n
        /\ rpc' = IF n % 2 = 1 THEN "idle" ELSE "bytes"
  BY DEF LoadSeq0
<1>2. UNCHANGED <<mem, writer, tmp, result>> /\ ri' = 1
  BY DEF LoadSeq0
<1>3. SeqlockTypeOK /\ rview \in Views /\ racq \in Views
  BY DEF SeqlockIInv, SeqlockTypeOK
<1>4. n \in Nat /\ n \in 0 .. Latest(SeqLoc) /\ Released(SeqLoc, n) \in Views
  BY <1>3, ReadableFacts
<1>5. [rview EXCEPT ![SeqLoc] = n] \in Views
  BY <1>3, <1>4 DEF Views
<1>6. /\ rview' \in Views /\ racq' \in Views
      /\ \A l \in Locs : rview'[l] >= Released(SeqLoc, n)[l]
  BY <1>1, <1>3, <1>4, <1>5, JoinFacts DEF LoadAcquire
<1>7. SeqlockTypeOK'
  BY <1>1, <1>2, <1>3, <1>4, <1>6 DEF SeqlockTypeOK, writer
<1>8. ReaderAt'
  <2>1. n % 2 = 0 \/ n % 2 = 1
    BY <1>4
  <2>2. CASE n % 2 = 1
    BY <1>1, <2>2 DEF ReaderAt
  <2>3. CASE n % 2 = 0
    <3>1. \A b \in Bytes : 2 * Released(SeqLoc, n)[b] >= n
      BY <1>4, <2>3 DEF SeqlockIInv, EvenCarriesBytes
    <3>2. \A b \in Bytes : rview'[b] \in Nat /\ Released(SeqLoc, n)[b] \in Nat
      BY <1>4, <1>6 DEF Views
    <3>3. \A b \in Bytes : 2 * rview'[b] >= n
      BY <3>1, <3>2, <1>4, <1>6
    <3> QED BY <1>1, <1>2, <2>3, <3>3 DEF ReaderAt
  <2> QED BY <2>1, <2>2, <2>3
<1>9. NoTornRead'
  BY <1>2 DEF SeqlockIInv, NoTornRead
<1> QED BY <1>2, <1>7, <1>8, <1>9, ReaderStepKeepsWriter DEF SeqlockIInv

LEMMA ReadByteIInv == ASSUME SeqlockIInv, ReadByte PROVE SeqlockIInv'
<1> USE LocFacts
<1>1. PICK n \in Readable(ri) : LoadRelaxed(ri, n) /\ tmp' = [tmp EXCEPT ![ri] = n]
  BY DEF ReadByte
<1>2. /\ rpc = "bytes" /\ UNCHANGED <<mem, writer, seq0, result>> /\ ri' = ri + 1
      /\ rpc' = IF ri = NumBytes THEN "fence" ELSE "bytes"
  BY DEF ReadByte
<1>3. /\ SeqlockTypeOK /\ rview \in Views /\ racq \in Views /\ ri \in Bytes /\ ri \in Locs
      /\ tmp \in [Bytes -> Nat] /\ seq0 \in Nat
  BY <1>2 DEF SeqlockIInv, SeqlockTypeOK, ReaderAt
<1>4. n \in Nat /\ n >= rview[ri] /\ n \in 0 .. Latest(ri) /\ Released(ri, n) \in Views
  BY <1>3, ReadableFacts
<1>5. /\ rview' = [rview EXCEPT ![ri] = n] /\ rview' \in Views /\ racq' \in Views
      /\ \A l \in Locs : racq'[l] >= racq[l] /\ racq'[l] >= Released(ri, n)[l]
  BY <1>1, <1>3, <1>4, JoinFacts DEF LoadRelaxed, Views
<1>6. ri \in Nat /\ ri + 1 \in 1 .. NumBytes + 1 /\ (ri # NumBytes => ri + 1 \in Bytes)
  BY <1>3 DEF Bytes
<1>7. SeqlockTypeOK'
  BY <1>1, <1>2, <1>3, <1>4, <1>5, <1>6 DEF SeqlockTypeOK, writer
<1>8. /\ seq0 % 2 = 0 /\ \A b \in Bytes : 2 * rview[b] >= seq0
      /\ \A b \in Bytes : b < ri => 2 * tmp[b] >= seq0 /\ racq[SeqLoc] + 1 >= 2 * tmp[b]
  BY <1>2 DEF SeqlockIInv, ReaderAt
<1>9. \A b \in Bytes : rview[b] \in Nat /\ tmp[b] \in Nat
  BY <1>3 DEF Views
<1>10. racq[SeqLoc] \in Nat /\ racq'[SeqLoc] \in Nat /\ Released(ri, n)[SeqLoc] \in Nat
  BY <1>3, <1>4, <1>5 DEF Views
<1>11. racq'[SeqLoc] + 1 >= 2 * n
  <2>1. CASE n = 0
    BY <2>1, <1>10
  <2>2. CASE n # 0
    <3>1. Released(ri, n)[SeqLoc] >= 2 * n - 1
      BY <2>2, <1>3, <1>4 DEF SeqlockIInv, BytesCarrySeq
    <3> QED BY <3>1, <1>4, <1>5, <1>10
  <2> QED BY <2>1, <2>2
<1>12. \A b \in Bytes : 2 * rview'[b] >= seq0
  BY <1>3, <1>4, <1>5, <1>8, <1>9 DEF Views
<1>13. \A b \in Bytes : b < ri + 1 => 2 * tmp'[b] >= seq0 /\ racq'[SeqLoc] + 1 >= 2 * tmp'[b]
  <2> SUFFICES ASSUME NEW b \in Bytes, b < ri + 1
               PROVE  2 * tmp'[b] >= seq0 /\ racq'[SeqLoc] + 1 >= 2 * tmp'[b]
    OBVIOUS
  <2>1. CASE b = ri
    BY <2>1, <1>1, <1>3, <1>4, <1>8, <1>9, <1>11
  <2>2. CASE b # ri
    <3>1. b < ri /\ tmp'[b] = tmp[b]
      BY <2>2, <1>1, <1>3, <1>6
    <3> QED BY <3>1, <1>5, <1>8, <1>9, <1>10
  <2> QED BY <2>1, <2>2
<1>14. ReaderAt'
  BY <1>2, <1>6, <1>8, <1>12, <1>13 DEF ReaderAt
<1>15. NoTornRead'
  BY <1>2 DEF SeqlockIInv, NoTornRead
<1> QED BY <1>2, <1>7, <1>14, <1>15, ReaderStepKeepsWriter DEF SeqlockIInv

LEMMA AcquireFenceIInv == ASSUME SeqlockIInv, AcquireFence PROVE SeqlockIInv'
<1> USE LocFacts
<1>1. /\ rpc = "fence" /\ rpc' = "seq1" /\ rview' = Join(rview, racq)
      /\ UNCHANGED <<mem, writer, racq, ri, seq0, tmp, result>>
  BY DEF AcquireFence
<1>2. rview \in Views /\ racq \in Views /\ tmp \in [Bytes -> Nat] /\ seq0 \in Nat
  BY DEF SeqlockIInv, SeqlockTypeOK
<1>3. /\ rview' \in Views
      /\ \A l \in Locs : rview'[l] >= rview[l] /\ rview'[l] >= racq[l]
  BY <1>1, <1>2, JoinFacts
<1>4. SeqlockTypeOK'
  BY <1>1, <1>3 DEF SeqlockIInv, SeqlockTypeOK, writer
<1>5. \A l \in Locs : rview[l] \in Nat /\ racq[l] \in Nat /\ rview'[l] \in Nat
  BY <1>2, <1>3 DEF Views
<1>6. \A b \in Bytes : rview[b] \in Nat /\ rview'[b] \in Nat /\ rview'[b] >= rview[b] /\ tmp[b] \in Nat
  BY <1>2, <1>3, <1>5
<1>7. \A b \in Bytes : 2 * rview'[b] >= seq0 /\ rview'[SeqLoc] + 1 >= 2 * tmp[b]
  BY <1>1, <1>2, <1>3, <1>5, <1>6 DEF SeqlockIInv, ReaderAt
<1>8. ReaderAt' /\ NoTornRead'
  BY <1>1, <1>7 DEF SeqlockIInv, ReaderAt, NoTornRead
<1> QED BY <1>1, <1>4, <1>8, ReaderStepKeepsWriter DEF SeqlockIInv

\* The heart of the matter: an unchanged even sequence leaves one version.
LEMMA Caught ==
    ASSUME SeqlockIInv, rpc = "seq1", NEW n \in Readable(SeqLoc), n = seq0, NEW b \in Bytes
    PROVE  2 * tmp[b] = seq0
<1>1. n \in Nat /\ n >= rview[SeqLoc] /\ rview[SeqLoc] \in Nat /\ tmp[b] \in Nat
  BY ReadableFacts, LocFacts DEF SeqlockIInv, SeqlockTypeOK, Views
<1>2. /\ seq0 % 2 = 0 /\ 2 * tmp[b] >= seq0 /\ rview[SeqLoc] + 1 >= 2 * tmp[b]
  BY LocFacts DEF SeqlockIInv, ReaderAt
<1> QED BY <1>1, <1>2

LEMMA LoadSeq1IInv == ASSUME SeqlockIInv, LoadSeq1 PROVE SeqlockIInv'
<1> USE LocFacts
<1>1. PICK n \in Readable(SeqLoc) :
        LoadRelaxed(SeqLoc, n) /\ result' = IF n = seq0 THEN tmp ELSE result
  BY DEF LoadSeq1
<1>2. rpc = "seq1" /\ rpc' = "idle" /\ UNCHANGED <<mem, writer, ri, seq0, tmp>>
  BY DEF LoadSeq1
<1>3. /\ SeqlockTypeOK /\ rview \in Views /\ racq \in Views /\ tmp \in [Bytes -> Nat]
      /\ n \in Nat /\ Released(SeqLoc, n) \in Views /\ seq0 \in Nat
  BY ReadableFacts DEF SeqlockIInv, SeqlockTypeOK
<1>4. rview' \in Views /\ racq' \in Views
  BY <1>1, <1>3, JoinFacts DEF LoadRelaxed, Views
<1>5. SeqlockTypeOK'
  BY <1>1, <1>2, <1>3, <1>4 DEF SeqlockTypeOK, writer
<1>6. NoTornRead'
  <2>1. CASE n = seq0
    <3>1. \A b \in Bytes : 2 * tmp[b] = seq0 /\ tmp[b] \in Nat
      BY <1>2, <1>3, <2>1, Caught
    <3>2. \A b, c \in Bytes : tmp[b] = tmp[c]
      BY <3>1, <1>3
    <3> QED BY <1>1, <2>1, <3>2 DEF NoTornRead
  <2>2. CASE n # seq0
    BY <1>1, <2>2 DEF SeqlockIInv, NoTornRead
  <2> QED BY <2>1, <2>2
<1>7. ReaderAt'
  BY <1>2 DEF ReaderAt
<1> QED BY <1>2, <1>5, <1>6, <1>7, ReaderStepKeepsWriter DEF SeqlockIInv

LEMMA SeqlockNextIInv == SeqlockIInv /\ [SeqlockNext]_seqlockVars => SeqlockIInv'
<1> SUFFICES ASSUME SeqlockIInv, [SeqlockNext]_seqlockVars PROVE SeqlockIInv'
  OBVIOUS
<1>1. CASE UNCHANGED seqlockVars
  BY <1>1 DEF seqlockVars, writer, reader, SeqlockIInv, SeqlockTypeOK, WriterAt, BytesCarrySeq,
              EvenCarriesBytes, ReaderAt, NoTornRead, Latest, Released
<1> QED BY <1>1, StoreOddIInv, FenceIInv, WriteByteIInv, StoreEvenIInv, LoadSeq0IInv,
           ReadByteIInv, AcquireFenceIInv, LoadSeq1IInv DEF SeqlockNext, WriterStep, ReaderStep

LEMMA SeqlockInductive == SeqlockSpec => []SeqlockIInv
BY SeqlockInitIInv, SeqlockNextIInv, PTL DEF SeqlockSpec

-----------------------------------------------------------------------------
\* Positions and program counters stay in range for every payload size.
THEOREM SeqlockTypeCorrect == SeqlockSpec => []SeqlockTypeOK
<1>1. SeqlockIInv => SeqlockTypeOK
  BY DEF SeqlockIInv
<1> QED BY <1>1, SeqlockInductive, PTL

\* No load() ever returns bytes of two different store() calls, however the
\* relaxed accesses are reordered.
THEOREM SeqlockNoTornRead == SeqlockSpec => []NoTornRead
<1>1. SeqlockIInv => NoTornRead
  BY DEF SeqlockIInv
<1> QED BY <1>1, SeqlockInductive, PTL

\* What load() returns is exactly the version published with the sequence it saw.
THEOREM SeqlockUnchangedMeansPublished == SeqlockSpec => UnchangedMeansPublished
<1>1. ASSUME SeqlockIInv, LoadSeq1, rview'[SeqLoc] = seq0, NEW b \in Bytes
      PROVE  2 * tmp[b] = seq0
  <2>1. PICK n \in Readable(SeqLoc) : rview' = [rview EXCEPT ![SeqLoc] = n]
    BY <1>1 DEF LoadSeq1, LoadRelaxed
  <2>2. n = seq0
    BY <1>1, <2>1, LocFacts DEF SeqlockIInv, SeqlockTypeOK, Views
  <2> QED BY <1>1, <2>2, Caught DEF LoadSeq1
<1>2. SeqlockIInv => [(LoadSeq1 /\ rview'[SeqLoc] = seq0) => \A b \in Bytes : 2 * tmp[b] = seq0]_seqlockVars
  BY <1>1
<1> QED BY <1>2, SeqlockInductive, PTL DEF UnchangedMeansPublished
=============================================================================
