------------------------------ MODULE SpscRing ------------------------------
(***************************************************************************)
(* The lock-free single-producer / single-consumer ring of a sensor stream *)
(* (include/sensorforge/core/spsc_ring.hpp) driven by the backpressure     *)
(* policies of backpressure_policy.hpp, with the drop counters that        *)
(* SubscriptionManager::callback keeps.                                    *)
(*                                                                         *)
(* Two threads.  The producer runs callback -> apply_policy -> try_push /  *)
(* force_push_overwrite; the consumer runs try_pop.  A step is one access  *)
(* to shared memory: a load or store of an index, or the copy in or out of *)
(* one slot.  Loads of the other thread's index are acquires and stores    *)
(* releases, so the steps of a thread take effect in program order; but an *)
(* atomic load need not return the latest store, only one that is not      *)
(* older than what the thread has already seen.  tailSeen and headSeen are *)
(* what each thread has seen of the other's index.                         *)
(*                                                                         *)
(* Under kOverwriteOldest both threads store tail_; there the loads return *)
(* the latest store, which is fewer behaviours than the memory model has.  *)
(***************************************************************************)
EXTENDS Naturals, Sequences

CONSTANTS Capacity,   \* slots of the array, one of them always free
          Policies,   \* the BackpressurePolicies a stream may be configured with
          Threading,  \* subset of BOOLEAN: TRUE, both callbacks share an executor thread
          MaxFrames,  \* bound: frames captured in a behaviour
          Moved       \* content of a slot never filled or moved from

\* The static_asserts of the class: at least two slots, a power of two.
ASSUME CapacityAssumption ==
    /\ Capacity \in Nat /\ Capacity >= 2
    /\ \E k \in 1 .. Capacity : Capacity = 2 ^ k

ASSUME PolicyAssumption ==
    /\ Policies \subseteq {"OverwriteOldest", "DropNewest", "BatchAccumulate", "NeverDropBlock"}
    /\ Threading \subseteq BOOLEAN
ASSUME MaxFramesAssumption == MaxFrames \in Nat
ASSUME MovedAssumption == Moved \notin Nat

VARIABLES
    policy, oneThread,   \* configuration: the stream's policy, the executor
    head_, tail_,        \* the two atomic indices
    buffer_,             \* the slots
    tailSeen, headSeen,  \* newest tail_ the producer, head_ the consumer has loaded
    capture_sequence_,   \* frames captured so far
    enqueued_count_, dropped_count_, overwritten_count_,
    ppc, call, ptail,    \* producer: next step, try_push being run, tail to evict
    cpc, ctail, out,     \* consumer: next step, own index, frame moved out
    accepted, delivered  \* history: frames published, frames handed over

config   == <<policy, oneThread>>
shared   == <<head_, tail_, buffer_>>
counters == <<enqueued_count_, dropped_count_, overwritten_count_>>
producer == <<capture_sequence_, tailSeen, ppc, call, ptail, accepted>>
consumer == <<headSeen, cpc, ctail, out, delivered>>
vars     == <<config, shared, counters, producer, consumer>>

Slots == 0 .. Capacity - 1

\* (i + 1) & kMask, for a power of two.
Inc(i) == IF i + 1 = Capacity THEN 0 ELSE i + 1

\* (h - t) & kMask: size_approx on one consistent pair of indices.
Dist(h, t) == IF h >= t THEN h - t ELSE h + Capacity - t

\* The slot i places after t.
Idx(t, i) == IF t + i >= Capacity THEN t + i - Capacity ELSE t + i

\* Only this policy's producer stores the consumer's index.
Evicting == policy = "OverwriteOldest"

\* The frame the running callback carries.
Frame == capture_sequence_ - 1

Init ==
    /\ policy \in Policies /\ oneThread \in Threading
    /\ head_ = 0 /\ tail_ = 0
    /\ buffer_ = [i \in Slots |-> Moved]
    /\ tailSeen = 0 /\ headSeen = 0
    /\ capture_sequence_ = 0
    /\ enqueued_count_ = 0 /\ dropped_count_ = 0 /\ overwritten_count_ = 0
    /\ ppc = "idle" /\ call = "try" /\ ptail = 0
    /\ cpc = "idle" /\ ctail = 0 /\ out = Moved
    /\ accepted = << >> /\ delivered = << >>

\* Test seeding: the index is loaded once and kept in a register.
LoadsCached(seen, latest) == {seen}

\* What an atomic load of an index may return, given the newest value seen.
Loads(seen, latest) ==
    IF oneThread \/ Evicting
    THEN {latest}
    ELSE {i \in Slots : Dist(i, seen) <= Dist(latest, seen)}

-----------------------------------------------------------------------------
(* Producer thread                                                         *)

\* callback: number a new frame and enter apply_policy's first try_push.
Callback ==
    /\ ppc = "idle" /\ capture_sequence_ < MaxFrames
    /\ oneThread => cpc = "idle"
    /\ capture_sequence_' = capture_sequence_ + 1
    /\ ppc' = "check" /\ call' = "try"
    /\ UNCHANGED <<config, shared, counters, consumer, tailSeen, ptail, accepted>>

\* try_push's test on the loaded tail.
Full(t) == Inc(head_) = t

\* Test seeding: the load of the other index is dropped, the ring never full.
RoomUnchecked ==
    /\ ppc = "check"
    /\ tailSeen' = tail_
    /\ ppc' = "write"
    /\ UNCHANGED <<config, shared, counters, consumer, capture_sequence_, call, ptail, accepted>>

TryPushRoom ==
    /\ ppc = "check"
    /\ tailSeen' \in Loads(tailSeen, tail_)
    /\ ~Full(tailSeen')
    /\ ppc' = "write"
    /\ UNCHANGED <<config, shared, counters, consumer, capture_sequence_, call, ptail, accepted>>

\* try_push's failing test.
TryPushFull ==
    /\ ppc = "check"
    /\ tailSeen' \in Loads(tailSeen, tail_)
    /\ Full(tailSeen')

\* Test seeding: a frame is dropped without being counted.
DropSilently ==
    /\ TryPushFull
    /\ policy \in {"DropNewest", "BatchAccumulate"}
    /\ ppc' = "idle"
    /\ UNCHANGED <<config, shared, counters, consumer, capture_sequence_, call, ptail, accepted>>

\* kDropNewest and kBatchAccumulate give up at once.
DropOnFull ==
    /\ TryPushFull
    /\ policy \in {"DropNewest", "BatchAccumulate"}
    /\ dropped_count_' = dropped_count_ + 1
    /\ ppc' = "idle"
    /\ UNCHANGED <<config, shared, consumer, capture_sequence_, call, ptail, accepted,
                   enqueued_count_, overwritten_count_>>

\* kNeverDropBlock yields, sleeps and tries again, for as long as it takes.
BlockOnFull ==
    /\ TryPushFull /\ policy = "NeverDropBlock"
    /\ call' = "retry"
    /\ UNCHANGED <<config, shared, counters, consumer, capture_sequence_, ppc, ptail, accepted>>

\* kOverwriteOldest: force_push_overwrite tries once more, then evicts.
ForceOnFull ==
    /\ TryPushFull /\ Evicting
    /\ \/ call = "try" /\ call' = "force" /\ ppc' = ppc
       \/ call = "force" /\ ppc' = "evict" /\ UNCHANGED call
    /\ UNCHANGED <<config, shared, counters, consumer, capture_sequence_, ptail, accepted>>

\* The evicting producer loads the consumer's index ...
EvictLoad ==
    /\ ppc = "evict"
    /\ ptail' = tail_ /\ ppc' = "evicting"
    /\ UNCHANGED <<config, shared, counters, consumer, capture_sequence_, tailSeen, call, accepted>>

\* Test seeding: the advanced index is not stored.
EvictStoreForgotten ==
    /\ ppc = "evicting"
    /\ ppc' = "check" /\ call' = "evicted"
    /\ UNCHANGED <<config, shared, counters, consumer, capture_sequence_, tailSeen, ptail, accepted>>

\* ... and stores it advanced, without a compare.
EvictStore ==
    /\ ppc = "evicting"
    /\ tail_' = Inc(ptail)
    /\ ppc' = "check" /\ call' = "evicted"
    /\ UNCHANGED <<config, head_, buffer_, counters, consumer, capture_sequence_, tailSeen,
                   ptail, accepted>>

\* The try_push after the eviction fails; apply_policy does not look at the
\* result and reports kOverwrote.
ForcedPushFails ==
    /\ TryPushFull /\ call = "evicted"
    /\ overwritten_count_' = overwritten_count_ + 1
    /\ enqueued_count_' = enqueued_count_ + 1
    /\ ppc' = "idle"
    /\ UNCHANGED <<config, shared, consumer, capture_sequence_, call, ptail, accepted, dropped_count_>>

\* buffer_[head] = item.
WriteSlot ==
    /\ ppc = "write"
    /\ buffer_' = [buffer_ EXCEPT ![head_] = Frame]
    /\ ppc' = "publish"
    /\ UNCHANGED <<config, head_, tail_, counters, consumer, capture_sequence_, tailSeen,
                   call, ptail, accepted>>

\* The release store of head_, and the count the callback then keeps.
Publish ==
    /\ ppc = "publish"
    /\ head_' = Inc(head_)
    /\ accepted' = Append(accepted, Frame)
    /\ enqueued_count_' = enqueued_count_ + 1
    /\ overwritten_count_' =
         overwritten_count_ + (IF call \in {"force", "evicted"} THEN 1 ELSE 0)
    /\ ppc' = "idle"
    /\ UNCHANGED <<config, tail_, buffer_, dropped_count_, consumer, capture_sequence_,
                   tailSeen, call, ptail>>

-----------------------------------------------------------------------------
(* Consumer thread: try_pop                                                *)

PopLoadTail ==
    /\ cpc = "idle"
    /\ oneThread => ppc = "idle"
    /\ ctail' = tail_ /\ cpc' = "check"
    /\ UNCHANGED <<config, shared, counters, producer, headSeen, out, delivered>>

PopEmpty ==
    /\ cpc = "check"
    /\ headSeen' \in Loads(headSeen, head_) /\ ctail = headSeen'
    /\ cpc' = "idle"
    /\ UNCHANGED <<config, shared, counters, producer, ctail, out, delivered>>

PopNonEmpty ==
    /\ cpc = "check"
    /\ headSeen' \in Loads(headSeen, head_) /\ ctail # headSeen'
    /\ cpc' = "read"
    /\ UNCHANGED <<config, shared, counters, producer, ctail, out, delivered>>

\* Test seeding: the slot is handed back before it has been read.
ReleaseThenRead ==
    /\ \/ /\ cpc = "read"
          /\ tail_' = Inc(ctail) /\ cpc' = "take"
          /\ UNCHANGED <<buffer_, out>>
       \/ /\ cpc = "take"
          /\ out' = buffer_[ctail]
          /\ buffer_' = [buffer_ EXCEPT ![ctail] = Moved]
          /\ cpc' = "release"
          /\ UNCHANGED tail_
    /\ UNCHANGED <<config, head_, counters, producer, headSeen, ctail, delivered>>

\* out = std::move(buffer_[tail]).
ReadSlot ==
    /\ cpc = "read"
    /\ out' = buffer_[ctail]
    /\ buffer_' = [buffer_ EXCEPT ![ctail] = Moved]
    /\ cpc' = "release"
    /\ UNCHANGED <<config, head_, tail_, counters, producer, headSeen, ctail, delivered>>

\* The release store of tail_; try_pop returns the frame.
Release ==
    /\ cpc = "release"
    /\ tail_' = Inc(ctail)
    /\ delivered' = Append(delivered, out)
    /\ cpc' = "idle"
    /\ UNCHANGED <<config, head_, buffer_, counters, producer, headSeen, ctail, out>>

-----------------------------------------------------------------------------
ProducerStep ==
    \/ TryPushRoom \/ DropOnFull \/ BlockOnFull \/ ForceOnFull
    \/ EvictLoad \/ EvictStore \/ ForcedPushFails \/ WriteSlot \/ Publish

ConsumerStep == PopLoadTail \/ PopEmpty \/ PopNonEmpty \/ ReadSlot \/ Release

Next == Callback \/ ProducerStep \/ ConsumerStep

Spec == Init /\ [][Next]_vars

(***************************************************************************)
(* Both threads keep running: a callback that has started runs to its end, *)
(* the send timer keeps calling try_pop, and a store of an index becomes   *)
(* visible to the other thread's loads in finite time (the fairness of     *)
(* TryPushRoom and PopNonEmpty).  Nothing obliges the sensor to publish,   *)
(* so Callback has no fairness; and under kOverwriteOldest the consumer    *)
(* may stop anywhere.                                                      *)
(***************************************************************************)
FairSpec ==
    /\ Spec
    /\ WF_vars(ProducerStep) /\ WF_vars(~Evicting /\ ConsumerStep)
    /\ WF_vars(TryPushRoom) /\ SF_vars(~Evicting /\ PopNonEmpty)

-----------------------------------------------------------------------------
(* Properties                                                              *)

\* The indices stay in the array, the program counters at a step of the code.
TypeOK ==
    /\ policy \in Policies /\ oneThread \in Threading
    /\ head_ \in Slots /\ tail_ \in Slots /\ tailSeen \in Slots /\ headSeen \in Slots
    /\ buffer_ \in [Slots -> Nat \cup {Moved}]
    /\ capture_sequence_ \in Nat
    /\ enqueued_count_ \in Nat /\ dropped_count_ \in Nat /\ overwritten_count_ \in Nat
    /\ ppc \in {"idle", "check", "evict", "evicting", "write", "publish"}
    /\ call \in {"try", "retry", "force", "evicted"}
    /\ ptail \in Slots /\ ctail \in Slots
    /\ cpc \in {"idle", "check", "read", "release"}
    /\ out \in Nat \cup {Moved}
    /\ accepted \in Seq(Nat) /\ delivered \in Seq(Nat \cup {Moved})

\* Unless the producer evicts, its copy into a slot and the consumer's move out of it
\* are never possible at once: the slots need no lock (buffer_[head] = item against
\* out = std::move(buffer_[tail])).
NoSlotRace == ~Evicting => ~(ppc = "write" /\ cpc = "read" /\ head_ = ctail)

\* Frames in the ring, oldest first; the frame being moved out is in "out".
Contents ==
    [i \in 1 .. Dist(head_, tail_) |->
        IF i = 1 /\ cpc = "release" THEN out ELSE buffer_[Idx(tail_, i - 1)]]

\* Then every frame try_push stored is, in order, either delivered or still in the
\* ring: nothing is lost, repeated, overtaken or torn out of a moved slot.
FifoNoLoss == ~Evicting => accepted = delivered \o Contents

\* Captured frames whose callback has decided their fate.
Decided == capture_sequence_ - (IF ppc = "idle" THEN 0 ELSE 1)

\* kNeverDropBlock loses no frame at all: what was captured is stored, in order.
NeverDropLossless ==
    policy = "NeverDropBlock" =>
        /\ dropped_count_ = 0
        /\ accepted = [i \in 1 .. Decided |-> i - 1]

\* The metrics add up unless the producer evicts: each decided capture is counted once, as stored or as
\* dropped, and what counts as stored can be found in the ring or downstream.
CountersAccount ==
    ~Evicting => /\ enqueued_count_ + dropped_count_ = Decided
                 /\ enqueued_count_ = Len(delivered) + Dist(head_, tail_)

\* kOverwriteOldest on one thread: nothing newer than an evicted frame is
\* missing.  The ring holds the latest captures and the overwritten counter
\* explains the rest.
KeepsFreshest ==
    Evicting /\ oneThread /\ ppc = "idle" =>
      /\ Contents = [i \in 1 .. Dist(head_, tail_) |->
                       capture_sequence_ - Dist(head_, tail_) + i - 1]
      /\ capture_sequence_ = Len(delivered) + overwritten_count_ + Dist(head_, tail_)

\* The ring implements the bounded FIFO: the frames are the abstract queue, a
\* frame is offered when its callback decides, and the producer knows of the
\* deliveries behind the newest tail it has loaded.  kOverwriteOldest promises
\* no such queue; it is mapped to one that is never used.
Fifo == INSTANCE StreamFifo
          WITH Room <- Capacity - 1,
               mayDropNewest <- policy \in {"DropNewest", "BatchAccumulate"},
               offered <- IF Evicting THEN 0 ELSE Decided,
               queue <- IF Evicting THEN << >> ELSE Contents,
               delivered <- IF Evicting THEN << >> ELSE delivered,
               known <- IF Evicting THEN 0 ELSE Len(delivered) - Dist(tail_, tailSeen)

ImplementsFifo == Fifo!Spec

\* A blocking callback that waits for the consumer on its own thread waits for ever.
WaitsForItself == policy = "NeverDropBlock" /\ oneThread

\* Every other callback returns.  Under kNeverDropBlock a blocked producer gets its slot
\* because the consumer runs; under kOverwriteOldest it returns wherever the consumer
\* stops, and even when its eviction is lost.
CallbackReturns == (ppc # "idle" /\ ~WaitsForItself) ~> (ppc = "idle")

\* Every stored frame is delivered.
StoredIsDelivered ==
    \A n \in 1 .. MaxFrames :
        (Len(accepted) >= n /\ ~Evicting /\ ~WaitsForItself) ~> (Len(delivered) >= n)

\* Neither side is left behind: callbacks return, also those that block or evict, and
\* what they store is delivered.
Progress == CallbackReturns /\ StoredIsDelivered
=============================================================================
