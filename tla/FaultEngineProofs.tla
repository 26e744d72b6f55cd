-------------------------- MODULE FaultEngineProofs --------------------------
(***************************************************************************)
(* Proofs about FaultEngine for every set of streams and rule sets and     *)
(* every bound on frames and time.                                         *)
(***************************************************************************)
EXTENDS FaultEngine, FiniteSetTheorems, WellFoundedInduction, TLAPS

-----------------------------------------------------------------------------
(* The inductive invariant                                                 *)

\* Who may be where: dispatches are left only inside process(), which ends by LastSend;
\* the worker ends after stop_ only, and the engine is gone after the worker.
Control ==
    /\ mpc \in {"dispatch", "notify"} \/ todo = << >>
    /\ todo # << >> => now <= LastSend /\ LastSend + mdelay <= MaxTime
    /\ stop_ <=> mpc \in {"stopNotify", "join", "destroyed"}
    /\ wpc = "done" => stop_
    /\ mpc = "destroyed" => wpc = "done"
    /\ last_refill <= now

\* What dispatches can be left: copies; a frame and its copies; two frames to swap.
Shape ==
    \/ \A i \in DOMAIN todo : todo[i].then = "duplicated"
    \/ /\ todo # << >> /\ todo[1].then = "nothing"
       /\ \A i \in DOMAIN todo : i # 1 => todo[i].then = "duplicated"
    \/ Len(todo) = 2 /\ todo[1].then = "nothing" /\ todo[2].then = "reordered"
    \/ Len(todo) = 1 /\ todo[1].then = "reordered"

\* The queue is finite and its ids are of the past, so that a push adds an entry.
Queued == IsFiniteSet(delayed_) /\ \A d \in delayed_ : d.id < pushed

\* The frames that have left process(), wherever they are.
Abroad == {todo[i].frame : i \in DOMAIN todo} \cup {d.frame : d \in delayed_}
          \cup {out[i] : i \in DOMAIN out}
          \cup (IF wpc = "emit" THEN {wframe} ELSE {})
          \cup (IF mpc = "flushEmit" THEN {mframe} ELSE {})

\* A rule of that kind for all streams and all of sending.
Covers(r, k) == r.kind = k /\ r.stream = Any /\ r.start <= 1 /\ r.start + r.duration > LastSend

\* A frame that came when no reorder rule was active for it.
Passes(f) == \A c \in calls : c[3] = f => ~Under(c, "Reorder")

\* Frames are numbered as they come, and those abroad that came after the held one came
\* under no reorder rule.
Numbered ==
    /\ held_ <= processed /\ \A f \in Abroad : f <= processed
    /\ held_ # 0 => \A f \in Abroad : f < held_ \/ (f > held_ /\ Passes(f))

InWindow(t, r) == r.start <= t /\ t < r.start + r.duration

\* A stream whose restart is remembered has had some rule active in every call since.
Hooked ==
    /\ \A c \in calls : c[3] <= processed
    /\ \A s \in restarted_this_window_ : \E d \in restarts :
         d[1] = s /\ \A e \in calls : e[1] = s /\ d[3] <= e[3] => ActiveAt(e[1], e[2]) # {}
    /\ HookFires

\* Calls of the hook are of the past; a window has one at most for a stream, which is
\* remembered for as long as the window lasts.
Edges ==
    /\ Hooked /\ \A c \in restarts : c[2] <= now
    /\ \A r \in rules_, s \in Streams :
         r.kind = "ProcessRestart" /\ r.stream \in {s, Any} =>
           /\ \A c \in restarts : c[1] = s /\ InWindow(c[2], r) /\ InWindow(now, r)
                                    => s \in restarted_this_window_
           /\ \A c, d \in restarts :
                c[1] = s /\ d[1] = s /\ InWindow(c[2], r) /\ InWindow(d[2], r) => c = d

\* What has passed a lasting bandwidth rule and what is left in the bucket come from
\* the first filling and the refills up to the last.
Bucket ==
    \A r \in rules_ : Covers(r, "BandwidthLimit") =>
        /\ last_refill = 0 => processed = stats_.dropped
        /\ last_refill # 0 => processed - stats_.dropped + tokens_bytes_ <= r.bandwidth * last_refill

\* The inductive invariant.
IInv == /\ TypeOK /\ Control /\ Shape /\ Queued /\ Accounting /\ NoLostWakeup
        /\ Numbered /\ Edges /\ Bucket

-----------------------------------------------------------------------------
(* Facts about the operators                                               *)

\* A non-empty set of naturals has a least element.
LEMMA LeastNatural ==
    ASSUME NEW T \in SUBSET Nat, T # {}
    PROVE  \E x \in T : \A y \in T : x <= y
<1>1. PICK x \in T : \A y \in T : ~(<<y, x>> \in OpToRel(<, Nat))
  BY NatLessThanWellFounded, WFMin, Zenon
<1>2. ASSUME NEW y \in T PROVE x <= y
  <2>1. ~(y < x)
    BY <1>1 DEF OpToRel
  <2> QED BY <2>1
<1> QED BY <1>2

\* Max of a bounded set is its largest element.
LEMMA MaxOfBounded ==
    ASSUME NEW K \in Nat, NEW S \in SUBSET (0 .. K), S # {}
    PROVE  Max(S) \in S /\ \A y \in S : y <= Max(S)
<1> DEFINE T == {n \in Nat : \E x \in S : n = K - x}
<1>1. T # {}
  <2>1. PICK x \in S : TRUE
    OBVIOUS
  <2>2. K - x \in T
    BY <2>1
  <2> QED BY <2>2
<1>2. PICK t \in T : \A y \in T : t <= y
  BY <1>1, LeastNatural
<1>3. PICK x \in S : t = K - x
  OBVIOUS
<1>4. \A y \in S : x >= y
  <2> TAKE y \in S
  <2>1. K - y \in T
    OBVIOUS
  <2> QED BY <2>1, <1>2, <1>3
<1>5. \E z \in S : \A y \in S : z >= y
  BY <1>4
<1>6. Max(S) \in S /\ \A y \in S : Max(S) >= y
  BY <1>5, Zenon DEF Max
<1> QED BY <1>6

LEMMA MinOfTwo ==
    ASSUME NEW a \in Nat, NEW b \in Nat
    PROVE  Min({a, b}) = IF a <= b THEN a ELSE b
BY DEF Min

LEMMA CardinalityOfTwo == Cardinality({1, 2}) = 2
<1>1. IsFiniteSet({1}) /\ Cardinality({1}) = 1
  BY FS_Singleton
<1>2. Cardinality({1} \cup {2}) = 2
  BY <1>1, FS_AddElement
<1>3. {1} \cup {2} = {1, 2}
  OBVIOUS
<1> QED BY <1>2, <1>3

LEMMA SeqElement ==
    ASSUME NEW X, NEW q \in Seq(X), NEW i \in DOMAIN q
    PROVE  q[i] \in X
OBVIOUS

LEMMA SeqAppend ==
    ASSUME NEW X, NEW q \in Seq(X), NEW e \in X
    PROVE  /\ Append(q, e) \in Seq(X) /\ DOMAIN Append(q, e) = DOMAIN q \cup {Len(q) + 1}
           /\ Append(q, e)[Len(q) + 1] = e
           /\ \A i \in DOMAIN q : Append(q, e)[i] = q[i]
OBVIOUS

LEMMA SeqTail ==
    ASSUME NEW X, NEW q \in Seq(X), q # << >>
    PROVE  /\ Head(q) \in X /\ Head(q) = q[1] /\ 1 \in DOMAIN q
           /\ Tail(q) \in Seq(X) /\ Len(Tail(q)) = Len(q) - 1
           /\ \A i \in DOMAIN Tail(q) : i + 1 \in DOMAIN q /\ Tail(q)[i] = q[i + 1]
OBVIOUS

Rule == [kind : Kinds, stream : Streams \cup {Any}, start : Nat, duration : Nat,
         delay : Nat, bandwidth : Nat]

LEMMA RulesTyped ==
    ASSUME rules_ \in RuleSets
    PROVE  /\ IsFiniteSet(rules_)
           /\ \A r \in rules_ : /\ r.start \in Nat /\ r.duration \in Nat /\ r.delay \in Nat
                                /\ r.bandwidth \in Nat /\ LastSend + r.delay <= MaxTime
                                /\ r.kind = "BandwidthLimit" => r.bandwidth > 0
<1>1. /\ IsFiniteSet(rules_) /\ rules_ \subseteq Rule
      /\ \A r \in rules_ : LastSend + r.delay <= MaxTime
      /\ \A r \in rules_ : r.kind = "BandwidthLimit" => r.bandwidth > 0
  BY RulesAssumption, Zenon DEF Rule
<1>2. \A r \in rules_ : /\ r.start \in Nat /\ r.duration \in Nat /\ r.delay \in Nat
                        /\ r.bandwidth \in Nat
  BY <1>1 DEF Rule
<1> QED BY <1>1, <1>2, Zenon

\* The delay of a stream is over by MaxTime for a frame sent by LastSend.
LEMMA DelayBounded ==
    ASSUME TypeOK, NEW s \in Streams
    PROVE  DelayOf(s) \in Nat /\ LastSend + DelayOf(s) <= MaxTime
<1> DEFINE S == {r.delay : r \in OfKind(s, "Delay")} \cup {0}
           K == MaxTime - LastSend
<1>1. \A r \in rules_ : r.delay \in Nat /\ LastSend + r.delay <= MaxTime
  BY RulesTyped DEF TypeOK
<1>2. K \in Nat
  BY BoundsAssumption
<1>3. S \in SUBSET (0 .. K) /\ S # {}
  BY <1>1, BoundsAssumption DEF OfKind, Active, ActiveAt
<1>4. Max(S) \in S
  BY <1>2, <1>3, MaxOfBounded
<1>5. Max(S) \in 0 .. K
  BY <1>3, <1>4
<1> QED BY <1>5, BoundsAssumption DEF DelayOf

LEMMA RulesFinite ==
    ASSUME TypeOK, NEW s \in Streams, NEW k
    PROVE  IsFiniteSet(OfKind(s, k)) /\ Cardinality(OfKind(s, k)) \in Nat
<1>1. IsFiniteSet(rules_)
  BY RulesTyped DEF TypeOK
<1>2. OfKind(s, k) \in SUBSET rules_
  BY DEF OfKind, Active, ActiveAt
<1> QED BY <1>1, <1>2, FS_Subset, FS_CardinalityType

\* The bandwidth rule there is, and the bucket after a refill.
LEMMA RefilledBounds ==
    ASSUME TypeOK, last_refill <= now, NEW s \in Streams, NEW r \in OfKind(s, "BandwidthLimit")
    PROVE  /\ r.bandwidth \in Nat \ {0}
           /\ Refilled(s) \in Nat
           /\ last_refill = 0 => Refilled(s) = r.bandwidth
           /\ last_refill # 0 => Refilled(s) <= tokens_bytes_ + (now - last_refill) * r.bandwidth
<1> DEFINE B == {q \in rules_ : q.kind = "BandwidthLimit"}
           c == CHOOSE q \in OfKind(s, "BandwidthLimit") : TRUE
<1>0. rules_ \in RuleSets
  BY DEF TypeOK
<1>1. IsFiniteSet(rules_) /\ Cardinality(B) <= 1
      /\ \A q \in rules_ : q.kind = "BandwidthLimit" => q.bandwidth \in Nat \ {0}
  <2>1. IsFiniteSet(rules_) /\ Cardinality(B) <= 1
    BY <1>0, RulesAssumption, Zenon
  <2>2. \A q \in rules_ : q.kind = "BandwidthLimit" => q.bandwidth \in Nat \ {0}
    BY <1>0, RulesTyped
  <2> QED BY <2>1, <2>2
<1>2. r \in B /\ c \in B
  BY DEF OfKind, Active, ActiveAt
<1>3. IsFiniteSet(B) /\ Cardinality(B) \in Nat
  BY <1>1, FS_Subset, FS_CardinalityType
<1>4. Cardinality(B) = 1
  BY <1>1, <1>2, <1>3, FS_EmptySet
<1>5. \E x : B = {x}
  BY <1>3, <1>4, FS_Singleton
<1>6. c = r
  BY <1>2, <1>5
<1>7. r.bandwidth \in Nat \ {0}
  BY <1>1, <1>2
<1> DEFINE cap == r.bandwidth
           had == IF last_refill = 0 THEN cap ELSE tokens_bytes_
           elapsed == IF last_refill = 0 THEN 0 ELSE now - last_refill
           sum == had + elapsed * cap
<1>8. Refilled(s) = Min({cap, sum})
  BY <1>6 DEF Refilled
<1>9. had \in Nat /\ elapsed \in Nat
  BY <1>7, BoundsAssumption DEF TypeOK
<1>10. sum \in Nat
  BY <1>7, <1>9
<1>11. last_refill = 0 => sum = cap
  BY <1>7
<1>12. last_refill # 0 => sum = tokens_bytes_ + (now - last_refill) * r.bandwidth
  OBVIOUS
<1> HIDE DEF sum
<1>13. Refilled(s) = IF cap <= sum THEN cap ELSE sum
  BY <1>7, <1>8, <1>10, MinOfTwo
<1> QED BY <1>7, <1>10, <1>11, <1>12, <1>13

-----------------------------------------------------------------------------
(* The initial states                                                      *)

LEMMA InitIInv == Init => IInv
<1> SUFFICES ASSUME Init PROVE IInv
  OBVIOUS
<1>1. TypeOK
  <2>1. stats_ \in [Counters -> Nat]
    BY DEF Init, Counters
  <2>2. rules_ \in RuleSets /\ stop_ \in BOOLEAN /\ linkUp \in BOOLEAN
    BY Zenon DEF Init
  <2> QED BY <2>1, <2>2, BoundsAssumption DEF Init, TypeOK, Frames
<1>2. Control /\ Shape
  BY BoundsAssumption DEF Init, Control, Shape
<1>3. Queued
  BY FS_EmptySet DEF Init, Queued
<1>4. Accounting
  <2>1. Undispatched = {}
    BY DEF Init, Undispatched
  <2> QED BY <2>1, FS_EmptySet DEF Init, Accounting, InHands, InHand
<1>5. NoLostWakeup
  BY DEF Init, NoLostWakeup
<1>6. Numbered
  BY DEF Init, Numbered, Abroad
<1>7. Edges
  BY DEF Init, Edges, Hooked, HookFires
<1>8. Bucket
  BY DEF Init, Bucket
<1> QED BY <1>1, <1>2, <1>3, <1>4, <1>5, <1>6, <1>7, <1>8 DEF IInv

-----------------------------------------------------------------------------
(* What a step leaves alone                                                *)

LEMMA EdgesKept ==
    ASSUME Edges, UNCHANGED <<rules_, now, processed, calls, restarts, restarted_this_window_>>
    PROVE  Edges'
BY DEF Edges, Hooked, HookFires, Under, ActiveAt, InWindow

LEMMA BucketKept ==
    ASSUME Bucket, UNCHANGED <<rules_, processed, last_refill, tokens_bytes_>>,
           stats_'.dropped = stats_.dropped
    PROVE  Bucket'
BY DEF Bucket, Covers

LEMMA NumberedKept ==
    ASSUME Numbered, Abroad' \subseteq Abroad, UNCHANGED <<rules_, processed, held_, calls>>
    PROVE  Numbered'
<1>1. \A f : Passes(f)' <=> Passes(f)
  BY DEF Passes, Under, ActiveAt
<1> QED BY <1>1 DEF Numbered

-----------------------------------------------------------------------------
(* Steps that only wait, wake, stop or return                              *)

Quiet == \/ DispatchNotify \/ ProcessReturns \/ BeginFlush \/ FlushReturns \/ Destroy
         \/ DestroyNotify \/ Join \/ WorkerExits \/ WorkerWaits \/ WorkerTimesOut
         \/ SpuriousWake

LEMMA QuietKeeps ==
    ASSUME TypeOK, Quiet
    PROVE  /\ UNCHANGED <<rules_, now, processed, held_, tokens_bytes_, last_refill,
                          restarted_this_window_, calls, restarts, delayed_, pushed, stats_, todo,
                          mdelay, mframe, wframe, out>>
           /\ (wpc' = "emit") <=> (wpc = "emit")
           /\ (mpc' = "flushEmit") <=> (mpc = "flushEmit")
BY DEF Quiet, DispatchNotify, ProcessReturns, BeginFlush, FlushReturns, Destroy, DestroyNotify,
       Join, WorkerExits, WorkerWaits, WorkerTimesOut, SpuriousWake, Wake, faults, queue, owner,
       worker

LEMMA QuietType ==
    ASSUME IInv, Quiet PROVE TypeOK'
<1>1. linkUp' \in BOOLEAN /\ stop_' \in BOOLEAN
  BY Zenon DEF IInv, TypeOK, Quiet, DispatchNotify, ProcessReturns, BeginFlush, FlushReturns,
         Destroy, DestroyNotify, Join, WorkerExits, WorkerWaits, WorkerTimesOut, SpuriousWake
<1>2. mpc' \in {"idle", "dispatch", "notify", "flush", "flushEmit", "flushed",
                "stopNotify", "join", "destroyed"}
  BY DEF IInv, TypeOK, Quiet, DispatchNotify, ProcessReturns, BeginFlush, FlushReturns,
         Destroy, DestroyNotify, Join, WorkerExits, WorkerWaits, WorkerTimesOut, SpuriousWake, owner
<1>3. wpc' \in {"loop", "sleep", "timed", "emit", "done"} /\ wdue' \in Nat
  BY DEF IInv, TypeOK, Quiet, DispatchNotify, ProcessReturns, BeginFlush, FlushReturns,
         Destroy, DestroyNotify, Join, WorkerExits, WorkerWaits, WorkerTimesOut, SpuriousWake, Wake,
         worker, Tops
<1> QED BY <1>1, <1>2, <1>3, QuietKeeps DEF IInv, TypeOK

LEMMA QuietControl ==
    ASSUME IInv, Quiet PROVE Control' /\ NoLostWakeup'
<1> USE DEF IInv, TypeOK, Control, NoLostWakeup
<1>1. CASE DispatchNotify \/ DestroyNotify
  BY <1>1 DEF DispatchNotify, DestroyNotify, Wake, faults, queue
<1>2. CASE ProcessReturns \/ BeginFlush \/ FlushReturns
  BY <1>2 DEF ProcessReturns, BeginFlush, FlushReturns, faults, queue, worker
<1>3. CASE Destroy \/ Join
  BY <1>3 DEF Destroy, Join, faults, queue, worker
<1>4. CASE WorkerExits \/ WorkerTimesOut \/ SpuriousWake
  BY <1>4 DEF WorkerExits, WorkerTimesOut, SpuriousWake, faults, queue, owner
<1>5. CASE WorkerWaits
  BY <1>5 DEF WorkerWaits, Tops, faults, queue, owner
<1> QED BY <1>1, <1>2, <1>3, <1>4, <1>5 DEF Quiet

LEMMA QuietIInv ==
    ASSUME IInv, Quiet PROVE IInv'
<1>1. TypeOK' /\ Control' /\ NoLostWakeup'
  BY QuietType, QuietControl
<1>2. Shape' /\ Queued'
  BY QuietKeeps DEF IInv, Shape, Queued
<1>3. Accounting'
  BY QuietKeeps DEF IInv, Accounting, InHands, InHand, Undispatched
<1>4. Abroad' = Abroad
  BY QuietKeeps DEF IInv, Abroad
<1>5. Numbered' /\ Edges' /\ Bucket'
  BY <1>4, QuietKeeps, NumberedKept, EdgesKept, BucketKept DEF IInv
<1> QED BY <1>1, <1>2, <1>3, <1>5 DEF IInv

-----------------------------------------------------------------------------
(* Time                                                                    *)

LEMMA TickIInv ==
    ASSUME IInv, Tick PROVE IInv'
<1> USE DEF IInv
<1>1. /\ now' = now + 1 /\ now < MaxTime /\ (now < LastSend \/ todo = << >>)
      /\ UNCHANGED <<rules_, processed, held_, tokens_bytes_, last_refill, restarted_this_window_,
                     calls, restarts, delayed_, pushed, stop_, stats_, mpc, todo, mdelay, mframe, wpc,
                     wdue, wframe, linkUp, out>>
  BY DEF Tick, faults, queue, owner, worker
<1>2. TypeOK'
  BY <1>1, BoundsAssumption DEF TypeOK
<1>3. Control'
  BY <1>1, BoundsAssumption DEF Control, TypeOK
<1>4. Shape' /\ Queued' /\ NoLostWakeup'
  BY <1>1 DEF Shape, Queued, NoLostWakeup
<1>5. Accounting'
  BY <1>1 DEF Accounting, InHands, InHand, Undispatched
<1>6. Abroad' = Abroad
  BY <1>1 DEF Abroad
<1>7. Numbered' /\ Bucket'
  BY <1>1, <1>6, NumberedKept, BucketKept
<1>8. Edges'
  <2>1. \A c \in restarts' : c[2] <= now'
    BY <1>1 DEF Edges, TypeOK
  <2>2. ASSUME NEW r \in rules_, NEW s \in Streams, r.kind = "ProcessRestart",
               r.stream \in {s, Any}, NEW c \in restarts, c[1] = s, InWindow(c[2], r),
               InWindow(now', r)
        PROVE  s \in restarted_this_window_
    <3>1. r.start \in Nat /\ r.duration \in Nat
      BY RulesTyped DEF TypeOK
    <3>2. c[2] \in Nat /\ c[2] <= now /\ now \in Nat
      BY <2>2 DEF TypeOK, Edges
    <3>3. InWindow(now, r)
      BY <1>1, <2>2, <3>1, <3>2 DEF InWindow
    <3> QED BY <2>2, <3>3 DEF Edges
  <2>3. Hooked'
    BY <1>1 DEF Edges, Hooked, HookFires, Under, ActiveAt
  <2> QED BY <1>1, <2>1, <2>2, <2>3 DEF Edges, InWindow
<1> QED BY <1>2, <1>3, <1>4, <1>5, <1>7, <1>8

-----------------------------------------------------------------------------
(* process(): what its outcomes have in common                             *)

LEMMA CountFacts ==
    ASSUME TypeOK, NEW k \in Counters
    PROVE  /\ Count(k) \in [Counters -> Nat]
           /\ Count(k)[k] = stats_[k] + 1
           /\ \A j \in Counters : j # k => Count(k)[j] = stats_[j]
BY DEF TypeOK, Count

LEMMA AbroadFrames ==
    ASSUME TypeOK PROVE Abroad \subseteq Frames
<1>1. \A i \in DOMAIN todo : todo[i].frame \in Frames
  <2>1. todo \in Seq([frame : Frames, then : {"nothing", "reordered", "duplicated"}])
    BY DEF TypeOK
  <2>2. \A i \in DOMAIN todo :
          todo[i] \in [frame : Frames, then : {"nothing", "reordered", "duplicated"}]
    BY <2>1, SeqElement
  <2> QED BY <2>2
<1>2. \A d \in delayed_ : d.frame \in Frames
  BY DEF TypeOK
<1>3. \A i \in DOMAIN out : out[i] \in Frames
  BY DEF TypeOK
<1> QED BY <1>1, <1>2, <1>3 DEF Abroad, TypeOK

\* The hook after the first half of process().
LEMMA HookedStep ==
    ASSUME IInv, NEW s \in Streams, Enter(s), UNCHANGED <<rules_, now>>
    PROVE  Hooked'
<1> DEFINE n == <<s, now, processed + 1>>
<1>1. /\ calls' = calls \cup {n} /\ processed' = processed + 1 /\ processed \in Nat
      /\ \A t : ActiveAt(s, t)' = ActiveAt(s, t) /\ Active(s) = ActiveAt(s, now)
      /\ \A z, t : ActiveAt(z, t)' = ActiveAt(z, t)
  BY DEF IInv, TypeOK, Enter, ActiveAt, Active
<1>2. /\ n[1] = s /\ n[2] = now /\ n[3] = processed + 1
      /\ \A c \in calls : c[3] \in Nat /\ c[3] <= processed
  BY DEF IInv, TypeOK, Edges, Hooked, Frames
<1>3. \A c \in calls' : c[3] <= processed'
  BY <1>1, <1>2
<1> HIDE DEF n
<1>4. Has(s, "ProcessRestart") <=> Under(n, "ProcessRestart")
  BY <1>2 DEF Has, OfKind, Active, Under
<1>5. restarts \subseteq restarts' /\ restarts \subseteq calls
  BY DEF IInv, TypeOK, Enter
<1>6. ASSUME NEW z \in restarted_this_window_'
      PROVE  \E d \in restarts' :
               d[1] = z /\ \A e \in calls' : e[1] = z /\ d[3] <= e[3] => ActiveAt(e[1], e[2]) # {}
  <2>1. CASE z \in restarted_this_window_ /\ (z = s => Active(s) # {})
    <3>1. PICK d \in restarts : d[1] = z /\ \A e \in calls : e[1] = z /\ d[3] <= e[3]
                                                     => ActiveAt(e[1], e[2]) # {}
      BY <2>1 DEF IInv, Edges, Hooked
    <3> QED BY <1>1, <1>2, <1>5, <2>1, <3>1
  <2>2. CASE ~(z \in restarted_this_window_ /\ (z = s => Active(s) # {}))
    <3>1. z = s /\ Has(s, "ProcessRestart") /\ n \in restarts'
      BY <1>6, <2>2 DEF Enter, n, Has, OfKind
    <3>2. Active(s) # {}
      BY <3>1 DEF Has, OfKind
    <3>3. \A e \in calls' : n[3] <= e[3] => e = n
      BY <1>1, <1>2
    <3> QED BY <1>1, <1>2, <3>1, <3>2, <3>3
  <2> QED BY <2>1, <2>2
<1>7. ASSUME NEW c \in calls', Under(c, "ProcessRestart")
      PROVE  \E d \in restarts' :
               /\ d[1] = c[1] /\ d[3] <= c[3]
               /\ \A e \in calls' : e[1] = c[1] /\ d[3] <= e[3] /\ e[3] <= c[3]
                                    => ActiveAt(e[1], e[2]) # {}
  <2>1. CASE c \in calls
    <3>1. PICK d \in restarts :
            /\ d[1] = c[1] /\ d[3] <= c[3]
            /\ \A e \in calls : e[1] = c[1] /\ d[3] <= e[3] /\ e[3] <= c[3] => ActiveAt(e[1], e[2]) # {}
      BY <1>7, <2>1 DEF IInv, Edges, Hooked, HookFires
    <3>2. c[3] < n[3]
      BY <1>1, <1>2, <2>1
    <3> QED BY <1>1, <1>2, <1>5, <2>1, <3>1, <3>2
  <2>2. CASE c = n
    <3>1. Has(s, "ProcessRestart")
      BY <1>4, <1>7, <2>2
    <3>2. s \in restarted_this_window_'
      BY <3>1 DEF Enter, Has, OfKind
    <3>3. PICK d \in restarts' :
            d[1] = s /\ \A e \in calls' : e[1] = s /\ d[3] <= e[3] => ActiveAt(e[1], e[2]) # {}
      BY <1>6, <3>2
    <3>4. d[3] <= n[3]
      BY <1>1, <1>2, <1>5, <3>3 DEF Enter, n
    <3> QED BY <1>2, <2>2, <3>3, <3>4
  <2> QED BY <1>1, <1>7, <2>1, <2>2
<1>8. \A c : Under(c, "ProcessRestart")' <=> Under(c, "ProcessRestart")
  BY <1>1 DEF Under
<1> QED BY <1>1, <1>3, <1>6, <1>7, <1>8 DEF Hooked, HookFires

\* The restart edges after the first half of process().
LEMMA EnterFacts ==
    ASSUME IInv, NEW s \in Streams, Enter(s), UNCHANGED <<rules_, now>>
    PROVE  /\ mpc = "idle" /\ todo = << >> /\ now <= LastSend
           /\ processed' = processed + 1 /\ processed' \in Frames
           /\ restarted_this_window_' \subseteq Streams
           /\ calls' \subseteq Streams \X (1 .. LastSend) \X Frames /\ restarts' \subseteq calls'
           /\ calls' = calls \cup {<<s, now, processed + 1>>}
           /\ Edges'
<1> USE DEF IInv
<1>0. Hooked' /\ calls' = calls \cup {<<s, now, processed + 1>>}
  BY HookedStep DEF Enter
<1>1. /\ mpc = "idle" /\ todo = << >> /\ now <= LastSend
      /\ processed' = processed + 1 /\ processed' \in Frames /\ now \in 1 .. LastSend
  BY BoundsAssumption DEF Enter, Control, TypeOK, Frames
<1> DEFINE Fires == Has(s, "ProcessRestart") /\ s \notin restarted_this_window_
<1>2. CASE Fires
  <2>1. /\ restarted_this_window_' = restarted_this_window_ \cup {s}
        /\ restarts' = restarts \cup {<<s, now, processed'>>}
    BY <1>2 DEF Enter
  <2>2. /\ restarted_this_window_' \subseteq Streams
        /\ calls' \subseteq Streams \X (1 .. LastSend) \X Frames /\ restarts' \subseteq calls'
    BY <1>0, <1>1, <2>1 DEF TypeOK
  <2>3. \A c \in restarts' : c[2] <= now'
    BY <1>1, <2>1 DEF Edges
  <2>4. ASSUME NEW r \in rules_, NEW z \in Streams, r.kind = "ProcessRestart",
               r.stream \in {z, Any}, NEW c \in restarts', c[1] = z, InWindow(c[2], r),
               InWindow(now, r)
        PROVE  z \in restarted_this_window_'
    BY <2>1, <2>4 DEF Edges
  <2>5. ASSUME NEW r \in rules_, NEW z \in Streams, r.kind = "ProcessRestart",
               r.stream \in {z, Any}, NEW c \in restarts', NEW d \in restarts',
               c[1] = z, d[1] = z, InWindow(c[2], r), InWindow(d[2], r)
        PROVE  c = d
    <3>1. CASE c \in restarts /\ d \in restarts
      BY <2>5, <3>1 DEF Edges
    <3>2. ASSUME NEW a \in restarts, a[1] = s, InWindow(a[2], r), InWindow(now, r), z = s
          PROVE  FALSE
      BY <1>2, <2>5, <3>2 DEF Edges
    <3> QED BY <2>1, <2>5, <3>1, <3>2
  <2> QED BY <1>0, <1>1, <2>2, <2>3, <2>4, <2>5 DEF Edges, InWindow
<1>3. CASE ~Fires
  <2>1. /\ restarts' = restarts
        /\ restarted_this_window_' =
             IF Active(s) = {} THEN restarted_this_window_ \ {s} ELSE restarted_this_window_
    BY <1>3 DEF Enter
  <2>2. /\ restarted_this_window_' \subseteq Streams
        /\ calls' \subseteq Streams \X (1 .. LastSend) \X Frames /\ restarts' \subseteq calls'
    BY <1>0, <1>1, <2>1 DEF TypeOK
  <2>3. ASSUME NEW r \in rules_, NEW z \in Streams, r.kind = "ProcessRestart",
               r.stream \in {z, Any}, NEW c \in restarts, c[1] = z, InWindow(c[2], r),
               InWindow(now, r)
        PROVE  z \in restarted_this_window_'
    <3>1. z \in restarted_this_window_
      BY <2>3 DEF Edges
    <3>2. z = s => r \in Active(s)
      BY <2>3 DEF Active, ActiveAt, InWindow
    <3> QED BY <2>1, <3>1, <3>2
  <2> QED BY <1>0, <1>1, <2>1, <2>2, <2>3 DEF Edges, InWindow
<1> QED BY <1>2, <1>3

\* A frame that was abroad before a call still passes after it.
LEMMA PassesKept ==
    ASSUME IInv, NEW s \in Streams, calls' = calls \cup {<<s, now, processed + 1>>}, rules_' = rules_
    PROVE  \A f \in Abroad : Passes(f) => Passes(f)'
<1>1. \A c : Under(c, "Reorder")' <=> Under(c, "Reorder")
  BY DEF Under, ActiveAt
<1>2. \A f \in Abroad : f # processed + 1
  <2>1. \A f \in Abroad : f \in Nat /\ f <= processed
    BY AbroadFrames DEF IInv, Numbered, Frames
  <2> QED BY <2>1 DEF IInv, TypeOK
<1> QED BY <1>1, <1>2 DEF Passes

\* What the bucket of a lasting rule holds after a frame is dropped, or pays.
LEMMA BucketStep ==
    ASSUME IInv, NEW s \in Streams, now <= LastSend, UNCHANGED <<rules_, now>>,
           processed' = processed + 1, stats_' \in [Counters -> Nat],
           \/ UNCHANGED <<tokens_bytes_, last_refill>> /\ stats_'.dropped = stats_.dropped + 1
           \/ /\ UNCHANGED <<tokens_bytes_, last_refill>> /\ stats_'.dropped = stats_.dropped
              /\ ~Has(s, "BandwidthLimit")
           \/ /\ tokens_bytes_' = Refilled(s) /\ last_refill' = now
              /\ stats_'.dropped = stats_.dropped + 1
           \/ /\ Refilled(s) >= 1 /\ tokens_bytes_' = Refilled(s) - 1 /\ last_refill' = now
              /\ stats_'.dropped = stats_.dropped
    PROVE  Bucket'
<1> SUFFICES ASSUME NEW r \in rules_, Covers(r, "BandwidthLimit")
             PROVE  /\ last_refill' = 0 => processed' = stats_'.dropped
                    /\ last_refill' # 0 =>
                         processed' - stats_'.dropped + tokens_bytes_' <= r.bandwidth * last_refill'
  BY DEF Bucket, Covers
<1>1. /\ now \in Nat \ {0} /\ last_refill \in Nat /\ last_refill <= now /\ tokens_bytes_ \in Nat
      /\ processed \in Nat /\ stats_.dropped \in Nat
  BY BoundsAssumption DEF IInv, TypeOK, Control, Counters
<1>2. r \in OfKind(s, "BandwidthLimit")
  <2>1. r.start \in Nat /\ r.duration \in Nat
    BY RulesTyped DEF IInv, TypeOK
  <2> QED BY <1>1, <2>1, BoundsAssumption DEF OfKind, Active, ActiveAt, Covers
<1>3. /\ r.bandwidth \in Nat \ {0} /\ Refilled(s) \in Nat
      /\ last_refill = 0 => Refilled(s) = r.bandwidth
      /\ last_refill # 0 => Refilled(s) <= tokens_bytes_ + (now - last_refill) * r.bandwidth
  BY <1>1, <1>2, RefilledBounds DEF IInv
<1>4. /\ last_refill = 0 => processed = stats_.dropped
      /\ last_refill # 0 => processed - stats_.dropped + tokens_bytes_ <= r.bandwidth * last_refill
  BY DEF IInv, Bucket
<1> DEFINE Same == /\ UNCHANGED <<tokens_bytes_, last_refill>>
                   /\ \/ stats_'.dropped = stats_.dropped + 1
                      \/ stats_'.dropped = stats_.dropped /\ ~Has(s, "BandwidthLimit")
           Paid == /\ last_refill' = now
                   /\ \/ tokens_bytes_' = Refilled(s) /\ stats_'.dropped = stats_.dropped + 1
                      \/ /\ Refilled(s) >= 1 /\ tokens_bytes_' = Refilled(s) - 1
                         /\ stats_'.dropped = stats_.dropped
           n == processed - stats_.dropped
           atLast == r.bandwidth * last_refill
           refill == (now - last_refill) * r.bandwidth
           atNow == r.bandwidth * now
<1>5. Same \/ Paid
  OBVIOUS
<1>6. CASE Same
  BY <1>1, <1>2, <1>4, <1>6 DEF Has
<1>7. CASE Paid
  <2>1. n \in Int /\ atLast \in Int /\ refill \in Int /\ atNow \in Int
    BY <1>1, <1>3
  <2>2. n + Refilled(s) <= atNow
    <3>1. CASE last_refill = 0
      <4>1. n = 0 /\ r.bandwidth <= atNow
        BY <1>1, <1>3, <1>4, <3>1
      <4> QED BY <1>3, <3>1, <4>1
    <3>2. CASE last_refill # 0
      <4>1. atLast + refill = atNow
        BY <1>1, <1>3
      <4>2. n + tokens_bytes_ <= atLast /\ Refilled(s) <= tokens_bytes_ + refill
        BY <1>3, <1>4, <3>2
      <4> HIDE DEF atLast, refill, atNow, n
      <4> QED BY <1>1, <1>3, <2>1, <4>1, <4>2
    <3> QED BY <3>1, <3>2
  <2>3. processed' - stats_'.dropped + tokens_bytes_' = n + Refilled(s)
    BY <1>1, <1>3, <1>7
  <2> QED BY <1>1, <1>7, <2>2, <2>3
<1> QED BY <1>5, <1>6, <1>7

-----------------------------------------------------------------------------
(* process(): its outcomes                                                 *)

Drops(s) == ProcessSuppressed(s) \/ ProcessRandomDrop(s) \/ ProcessOverBudget(s)

LEMMA DropsIInv ==
    ASSUME IInv, NEW s \in Streams, Drops(s) PROVE IInv'
<1> USE DEF IInv
<1>1. /\ Enter(s) /\ stats_' = Count("dropped")
      /\ UNCHANGED <<rules_, now, held_, delayed_, pushed, stop_, mpc, todo, mdelay, mframe, wpc,
                     wdue, wframe, linkUp, out>>
      /\ \/ UNCHANGED <<tokens_bytes_, last_refill>>
         \/ /\ tokens_bytes_' = Refilled(s) /\ last_refill' = now
            /\ Has(s, "BandwidthLimit")
  BY DEF Drops, ProcessSuppressed, ProcessRandomDrop, ProcessOverBudget, queue, owner, worker
<1>2. /\ mpc = "idle" /\ todo = << >> /\ now <= LastSend
      /\ processed' = processed + 1 /\ processed' \in Frames
      /\ restarted_this_window_' \subseteq Streams
      /\ calls' \subseteq Streams \X (1 .. LastSend) \X Frames /\ restarts' \subseteq calls'
      /\ calls' = calls \cup {<<s, now, processed + 1>>}
      /\ Edges'
  BY <1>1, EnterFacts
<1>3. /\ stats_' \in [Counters -> Nat]
      /\ stats_'.dropped = stats_.dropped + 1 /\ stats_'.forwarded = stats_.forwarded
      /\ stats_'.duplicated = stats_.duplicated
  <2>1. "dropped" \in Counters /\ "forwarded" \in Counters /\ "duplicated" \in Counters
    BY DEF Counters
  <2> QED BY <1>1, <2>1, CountFacts
<1>4. tokens_bytes_' \in Nat /\ last_refill' \in 0 .. LastSend /\ last_refill' <= now
  <2>1. Has(s, "BandwidthLimit") => Refilled(s) \in Nat
    BY RefilledBounds DEF Has, Control
  <2> QED BY <1>1, <1>2, <2>1 DEF TypeOK, Control
<1>5. TypeOK'
  BY <1>1, <1>2, <1>3, <1>4, BoundsAssumption DEF TypeOK, Frames
<1>6. Control' /\ Shape' /\ Queued' /\ NoLostWakeup'
  BY <1>1, <1>4 DEF Control, Shape, Queued, NoLostWakeup
<1>7. Accounting'
  <2>1. Undispatched' = Undispatched
    BY <1>1 DEF Undispatched
  <2>2. stats_.forwarded \in Nat /\ stats_.dropped \in Nat /\ stats_.duplicated \in Nat
        /\ processed \in Nat
    BY DEF TypeOK, Counters
  <2>3. Cardinality(Undispatched) = 0
    BY <1>2, FS_EmptySet DEF Undispatched
  <2>4. Cardinality(delayed_) \in Nat
    BY FS_CardinalityType DEF Queued
  <2>5. InHands' = InHands /\ InHands \in Nat /\ delayed_' = delayed_
    BY <1>1 DEF InHands, InHand
  <2>6. processed' = processed + 1
    BY <1>2
  <2> QED BY <1>3, <2>1, <2>2, <2>3, <2>4, <2>5, <2>6 DEF Accounting
<1>8. Numbered'
  <2>1. Abroad' = Abroad
    BY <1>1 DEF Abroad
  <2>2. held_ \in Nat /\ processed \in Nat /\ Abroad \subseteq Nat
    BY AbroadFrames DEF TypeOK, Frames
  <2> QED BY <1>1, <1>2, <2>1, <2>2, PassesKept DEF Numbered
<1>9. Bucket'
  BY <1>1, <1>2, <1>3, BucketStep
<1> QED BY <1>2, <1>5, <1>6, <1>7, <1>8, <1>9

\* What the outcomes that keep the frame have in common.
LEMMA SurvivesFacts ==
    ASSUME IInv, NEW s \in Streams, Survives(s)
    PROVE  /\ mpc = "idle" /\ todo = << >> /\ now <= LastSend
           /\ processed' = processed + 1 /\ processed' \in Frames
           /\ restarted_this_window_' \subseteq Streams
           /\ calls' \subseteq Streams \X (1 .. LastSend) \X Frames /\ restarts' \subseteq calls'
           /\ calls' = calls \cup {<<s, now, processed + 1>>}
           /\ Edges' /\ Bucket'
           /\ UNCHANGED <<rules_, now, delayed_, pushed, stop_, mframe, wpc, wdue, wframe,
                          linkUp, out>>
           /\ tokens_bytes_' \in Nat /\ last_refill' \in 0 .. LastSend /\ last_refill' <= now
           /\ stats_' \in [Counters -> Nat] /\ stats_'.dropped = stats_.dropped
           /\ stats_'.forwarded = stats_.forwarded /\ stats_'.duplicated = stats_.duplicated
<1> USE DEF IInv
<1>1. /\ Enter(s)
      /\ UNCHANGED <<rules_, now, delayed_, pushed, stop_, mframe, wpc, wdue, wframe, linkUp, out>>
      /\ IF Has(s, "BandwidthLimit")
         THEN /\ Refilled(s) >= 1
              /\ tokens_bytes_' = Refilled(s) - 1 /\ last_refill' = now
         ELSE UNCHANGED <<tokens_bytes_, last_refill>>
      /\ stats_' = [stats_ EXCEPT !.corrupted = @ + Cardinality(OfKind(s, "Corrupt"))]
  BY DEF Survives, queue, worker
<1>2. /\ mpc = "idle" /\ todo = << >> /\ now <= LastSend
      /\ processed' = processed + 1 /\ processed' \in Frames
      /\ restarted_this_window_' \subseteq Streams
      /\ calls' \subseteq Streams \X (1 .. LastSend) \X Frames /\ restarts' \subseteq calls'
      /\ calls' = calls \cup {<<s, now, processed + 1>>}
      /\ Edges'
  BY <1>1, EnterFacts
<1>3. /\ stats_' \in [Counters -> Nat] /\ stats_'.dropped = stats_.dropped
      /\ stats_'.forwarded = stats_.forwarded /\ stats_'.duplicated = stats_.duplicated
  <2>1. Cardinality(OfKind(s, "Corrupt")) \in Nat
    BY RulesFinite
  <2>2. stats_ \in [Counters -> Nat] /\ "corrupted" \in Counters
    BY DEF TypeOK, Counters
  <2>3. /\ stats_' \in [Counters -> Nat]
        /\ \A j \in Counters : j # "corrupted" => stats_'[j] = stats_[j]
    BY <1>1, <2>1, <2>2
  <2> QED BY <2>3 DEF Counters
<1>4. tokens_bytes_' \in Nat /\ last_refill' \in 0 .. LastSend /\ last_refill' <= now
  <2>1. Has(s, "BandwidthLimit") => Refilled(s) \in Nat
    BY RefilledBounds DEF Has, Control
  <2> QED BY <1>1, <1>2, <2>1 DEF TypeOK, Control
<1>5. Bucket'
  BY <1>1, <1>2, <1>3, BucketStep
<1> QED BY <1>1, <1>2, <1>3, <1>4, <1>5

LEMMA CountsTyped ==
    ASSUME IInv
    PROVE  /\ processed \in Nat /\ held_ \in Nat /\ InHands \in Nat /\ Cardinality(delayed_) \in Nat
           /\ stats_.forwarded \in Nat /\ stats_.dropped \in Nat /\ stats_.duplicated \in Nat
<1>1. processed \in Nat /\ held_ \in Nat
  BY DEF IInv, TypeOK, Frames
<1>2. stats_.forwarded \in Nat /\ stats_.dropped \in Nat /\ stats_.duplicated \in Nat
  BY DEF IInv, TypeOK, Counters
<1>3. InHands \in Nat
  BY DEF InHands, InHand
<1>4. Cardinality(delayed_) \in Nat
  BY FS_CardinalityType DEF IInv, Queued
<1> QED BY <1>1, <1>2, <1>3, <1>4

LEMMA UndispatchedFinite ==
    ASSUME IInv PROVE Cardinality(Undispatched) \in Nat
<1>1. DOMAIN todo = 1 .. Len(todo) /\ Len(todo) \in Nat
  BY DEF IInv, TypeOK
<1>2. IsFiniteSet(1 .. Len(todo))
  BY <1>1, FS_Interval
<1>3. Undispatched \subseteq 1 .. Len(todo)
  BY <1>1 DEF Undispatched
<1> QED BY <1>2, <1>3, FS_Subset, FS_CardinalityType

LEMMA NothingUndispatched ==
    ASSUME todo = << >> PROVE Cardinality(Undispatched) = 0
<1>1. Undispatched = {}
  BY DEF Undispatched
<1> QED BY <1>1, FS_EmptySet

LEMMA SurvivesType ==
    ASSUME IInv, NEW s \in Streams, Survives(s),
           held_' \in {0} \cup Frames, mpc' \in {"idle", "dispatch"}, mdelay' \in Nat,
           todo' \in Seq([frame : Frames, then : {"nothing", "reordered", "duplicated"}])
    PROVE  TypeOK'
<1>1. /\ UNCHANGED <<rules_, now, delayed_, pushed, stop_, mframe, wpc, wdue, wframe, linkUp, out>>
      /\ processed' \in Frames /\ tokens_bytes_' \in Nat /\ last_refill' \in 0 .. LastSend
      /\ restarted_this_window_' \subseteq Streams
      /\ calls' \subseteq Streams \X (1 .. LastSend) \X Frames /\ restarts' \subseteq calls'
      /\ stats_' \in [Counters -> Nat]
  BY SurvivesFacts
<1>2. processed' \in 0 .. MaxFrames
  BY <1>1, BoundsAssumption DEF Frames
<1>3. mpc' # "flushEmit" /\ mpc' \in {"idle", "dispatch", "notify", "flush", "flushEmit",
                                     "flushed", "stopNotify", "join", "destroyed"}
  OBVIOUS
<1> QED BY <1>1, <1>2, <1>3 DEF IInv, TypeOK

LEMMA HoldIInv ==
    ASSUME IInv, NEW s \in Streams, ProcessHold(s) PROVE IInv'
<1> USE DEF IInv
<1>1. held_ = 0 /\ held_' = processed' /\ UNCHANGED <<mpc, todo, mdelay>> /\ Survives(s)
  BY DEF ProcessHold
<1>2. TypeOK'
  <2>1. processed' \in Frames /\ mpc = "idle"
    BY <1>1, SurvivesFacts
  <2>2. mdelay' \in Nat /\ todo' \in Seq([frame : Frames, then : {"nothing", "reordered", "duplicated"}])
    BY <1>1 DEF TypeOK
  <2> QED BY <1>1, <2>1, <2>2, SurvivesType
<1>3. Control' /\ Shape' /\ Queued' /\ NoLostWakeup'
  BY <1>1, SurvivesFacts DEF Control, Shape, Queued, NoLostWakeup
<1>4. Accounting'
  <2>1. Undispatched' = Undispatched /\ Cardinality(Undispatched) = 0
    <3>1. todo = << >>
      BY <1>1, SurvivesFacts
    <3>2. Undispatched' = Undispatched
      BY <1>1 DEF Undispatched
    <3> QED BY <3>1, <3>2, NothingUndispatched
  <2>2. /\ processed' = processed + 1 /\ delayed_' = delayed_ /\ stats_'.dropped = stats_.dropped
        /\ stats_'.forwarded = stats_.forwarded /\ stats_'.duplicated = stats_.duplicated
    BY <1>1, SurvivesFacts
  <2>3. InHands' = InHands + 1
    <3>1. held_' # 0 /\ wpc' = wpc
      BY <1>1, <2>2, SurvivesFacts, CountsTyped
    <3> QED BY <1>1, <3>1 DEF InHands, InHand
  <2> QED BY <2>1, <2>2, <2>3, CountsTyped DEF Accounting
<1>5. Numbered'
  <2>1. Abroad' = Abroad
    BY <1>1, SurvivesFacts DEF Abroad
  <2>2. Abroad \subseteq Nat /\ processed' = processed + 1
    BY <1>1, AbroadFrames, SurvivesFacts DEF Frames
  <2> QED BY <1>1, <2>1, <2>2, CountsTyped DEF Numbered
<1> QED BY <1>1, <1>2, <1>3, <1>4, <1>5, SurvivesFacts

LEMMA SwapIInv ==
    ASSUME IInv, NEW s \in Streams, ProcessSwap(s) PROVE IInv'
<1> USE DEF IInv
<1> DEFINE first == [frame |-> processed', then |-> "nothing"]
           second == [frame |-> held_, then |-> "reordered"]
<1>1. /\ held_ # 0 /\ held_' = 0 /\ Survives(s) /\ todo' = <<first, second>>
      /\ mdelay' = DelayOf(s) /\ mpc' = "dispatch"
  BY DEF ProcessSwap
<1>2. /\ DOMAIN todo' = {1, 2} /\ todo'[1] = first /\ todo'[2] = second /\ Len(todo') = 2
  BY <1>1
<1>3. /\ first \in [frame : Frames, then : {"nothing", "reordered", "duplicated"}]
      /\ second \in [frame : Frames, then : {"nothing", "reordered", "duplicated"}]
  BY <1>1, SurvivesFacts DEF TypeOK
<1>4. mdelay' \in Nat /\ LastSend + mdelay' <= MaxTime
  BY <1>1, DelayBounded
<1>5. TypeOK'
  <2>1. todo' \in Seq([frame : Frames, then : {"nothing", "reordered", "duplicated"}])
    BY <1>1, <1>3
  <2> QED BY <1>1, <1>4, <2>1, SurvivesType
<1>6. Control' /\ Queued' /\ NoLostWakeup'
  <2> HIDE DEF first, second
  <2> QED BY <1>1, <1>4, SurvivesFacts DEF Control, Queued, NoLostWakeup
<1>7. Shape'
  BY <1>2 DEF Shape
<1>8. Accounting'
  <2>1. Undispatched' = {1, 2}
    BY <1>2 DEF Undispatched
  <2>2. Cardinality(Undispatched') = 2
    BY <2>1, CardinalityOfTwo
  <2>3. Cardinality(Undispatched) = 0
    <3>1. todo = << >>
      BY <1>1, SurvivesFacts
    <3> QED BY <3>1, NothingUndispatched
  <2>4. /\ processed' = processed + 1 /\ delayed_' = delayed_ /\ stats_'.dropped = stats_.dropped
        /\ stats_'.forwarded = stats_.forwarded /\ stats_'.duplicated = stats_.duplicated
    BY <1>1, SurvivesFacts
  <2>5. InHands = InHands' + 1
    <3>1. wpc' = wpc /\ mpc = "idle"
      BY <1>1, SurvivesFacts
    <3> QED BY <1>1, <3>1 DEF InHands, InHand
  <2>6. InHands' \in Nat
    BY DEF InHands, InHand
  <2> QED BY <2>2, <2>3, <2>4, <2>5, <2>6, CountsTyped DEF Accounting
<1>9. Numbered'
  <2>1. Abroad' \subseteq Abroad \cup {processed', held_}
    BY <1>1, <1>2, SurvivesFacts DEF Abroad
  <2>2. Abroad \subseteq Nat /\ processed' = processed + 1
    BY <1>1, AbroadFrames, SurvivesFacts DEF Frames
  <2> QED BY <1>1, <2>1, <2>2, CountsTyped DEF Numbered
<1> QED BY <1>1, <1>5, <1>6, <1>7, <1>8, <1>9, SurvivesFacts

LEMMA ForwardIInv ==
    ASSUME IInv, NEW s \in Streams, ProcessForward(s) PROVE IInv'
<1> USE DEF IInv
<1> DEFINE D == [frame : Frames, then : {"nothing", "reordered", "duplicated"}]
           c == Cardinality(OfKind(s, "Duplicate"))
           e(i) == [frame |-> processed', then |-> IF i = 1 THEN "nothing" ELSE "duplicated"]
<1>1. /\ held_' = held_ /\ Survives(s) /\ ~Has(s, "Reorder") /\ todo' = [i \in 1 .. 1 + c |-> e(i)]
      /\ mdelay' = DelayOf(s) /\ mpc' = "dispatch"
  BY DEF ProcessForward
<1>2. c \in Nat
  BY RulesFinite
<1>3. /\ \A i \in 1 .. 1 + c : e(i) \in D /\ e(i).frame = processed'
      /\ e(1).then = "nothing" /\ \A i \in 1 .. 1 + c : i # 1 => e(i).then = "duplicated"
  BY <1>1, SurvivesFacts
<1> HIDE DEF e, c
<1>4. /\ todo' \in Seq(D) /\ todo' # << >> /\ DOMAIN todo' = 1 .. 1 + c /\ Len(todo') = 1 + c
      /\ \A i \in 1 .. 1 + c : todo'[i] = e(i)
  BY <1>1, <1>2, <1>3
<1>5. /\ todo'[1].then = "nothing" /\ \A i \in DOMAIN todo' : i # 1 => todo'[i].then = "duplicated"
      /\ \A i \in DOMAIN todo' : todo'[i].frame = processed'
  BY <1>2, <1>3, <1>4
<1>6. mdelay' \in Nat /\ LastSend + mdelay' <= MaxTime
  BY <1>1, DelayBounded
<1>7. TypeOK'
  <2>1. held_ \in {0} \cup Frames
    BY DEF TypeOK
  <2> QED BY <1>1, <1>4, <1>6, <2>1, SurvivesType
<1>8. Control' /\ Queued' /\ NoLostWakeup'
  BY <1>1, <1>6, SurvivesFacts DEF Control, Queued, NoLostWakeup
<1>9. Shape'
  BY <1>4, <1>5 DEF Shape
<1>10. Accounting'
  <2>1. Undispatched' = {1}
    BY <1>2, <1>4, <1>5 DEF Undispatched
  <2>2. Cardinality(Undispatched') = 1
    BY <2>1, FS_Singleton
  <2>3. Cardinality(Undispatched) = 0
    <3>1. todo = << >>
      BY <1>1, SurvivesFacts
    <3> QED BY <3>1, NothingUndispatched
  <2>4. /\ processed' = processed + 1 /\ delayed_' = delayed_ /\ stats_'.dropped = stats_.dropped
        /\ stats_'.forwarded = stats_.forwarded /\ stats_'.duplicated = stats_.duplicated
    BY <1>1, SurvivesFacts
  <2>5. InHands = InHands'
    <3>1. wpc' = wpc /\ mpc = "idle"
      BY <1>1, SurvivesFacts
    <3> QED BY <1>1, <3>1 DEF InHands, InHand
  <2> QED BY <2>2, <2>3, <2>4, <2>5, CountsTyped DEF Accounting
<1>11. Numbered'
  <2>1. Abroad' \subseteq Abroad \cup {processed'}
    BY <1>1, <1>5, SurvivesFacts DEF Abroad
  <2>2. Abroad \subseteq Nat /\ processed' = processed + 1
    BY <1>1, AbroadFrames, SurvivesFacts DEF Frames
  <2>3. ASSUME NEW f, f = processed + 1 PROVE Passes(f)'
    <3>1. calls' = calls \cup {<<s, now, f>>} /\ rules_' = rules_
      BY <1>1, <2>3, SurvivesFacts
    <3>2. \A d \in calls : d[3] # f
      <4>1. \A d \in calls : d[3] \in Nat /\ d[3] <= processed
        BY DEF TypeOK, Edges, Hooked, Frames
      <4> QED BY <2>3, <4>1, CountsTyped
    <3>3. ASSUME NEW d, d = <<s, now, f>> PROVE ~Under(d, "Reorder")'
      BY <1>1, <3>1, <3>3 DEF Has, OfKind, Active, ActiveAt, Under
    <3> QED BY <3>1, <3>2, <3>3 DEF Passes
  <2>4. \A f \in Abroad : Passes(f) => Passes(f)'
    BY <1>1, SurvivesFacts, PassesKept
  <2>5. processed' > held_
    BY <2>2, CountsTyped DEF Numbered
  <2> QED BY <1>1, <2>1, <2>2, <2>3, <2>4, <2>5, CountsTyped, SMTT(30) DEF Numbered
<1> QED BY <1>1, <1>7, <1>8, <1>9, <1>10, <1>11, SurvivesFacts

-----------------------------------------------------------------------------
(* Dispatching                                                             *)

LEMMA HeadTyped ==
    ASSUME TypeOK, todo # << >>
    PROVE  /\ Head(todo) = todo[1] /\ 1 \in DOMAIN todo
           /\ Head(todo).frame \in Frames
           /\ Head(todo).then \in {"nothing", "reordered", "duplicated"}
           /\ Tail(todo) \in Seq([frame : Frames, then : {"nothing", "reordered", "duplicated"}])
           /\ Len(Tail(todo)) = Len(todo) - 1 /\ Len(todo) \in Nat
           /\ \A i \in DOMAIN Tail(todo) : i + 1 \in DOMAIN todo /\ Tail(todo)[i] = todo[i + 1]
<1> DEFINE D == [frame : Frames, then : {"nothing", "reordered", "duplicated"}]
<1>1. todo \in Seq(D)
  BY DEF TypeOK
<1> HIDE DEF D
<1>2. /\ Head(todo) \in D /\ Head(todo) = todo[1] /\ 1 \in DOMAIN todo
      /\ Tail(todo) \in Seq(D) /\ Len(Tail(todo)) = Len(todo) - 1 /\ Len(todo) \in Nat
      /\ \A i \in DOMAIN Tail(todo) : i + 1 \in DOMAIN todo /\ Tail(todo)[i] = todo[i + 1]
  BY <1>1, SeqTail
<1> QED BY <1>2 DEF D

\* One dispatch fewer is left.
LEMMA TailShape ==
    ASSUME IInv, todo # << >>, todo' = Tail(todo)
    PROVE  /\ Shape' /\ Cardinality(Undispatched') \in Nat
           /\ Head(todo).then = "duplicated" => Cardinality(Undispatched) = Cardinality(Undispatched')
           /\ Head(todo).then # "duplicated" => Cardinality(Undispatched) = Cardinality(Undispatched') + 1
<1>1. /\ Head(todo) = todo[1] /\ 1 \in DOMAIN todo /\ DOMAIN todo = 1 .. Len(todo) /\ Len(todo) \in Nat
      /\ DOMAIN todo' = 1 .. Len(todo) - 1 /\ Len(todo') = Len(todo) - 1
      /\ \A i \in DOMAIN todo' : i + 1 \in DOMAIN todo /\ todo'[i] = todo[i + 1]
  <2>1. DOMAIN todo = 1 .. Len(todo)
    BY DEF IInv, TypeOK
  <2>2. todo' \in Seq([frame : Frames, then : {"nothing", "reordered", "duplicated"}])
    BY HeadTyped DEF IInv
  <2>3. DOMAIN todo' = 1 .. Len(todo')
    BY <2>2
  <2> QED BY <2>1, <2>3, HeadTyped DEF IInv
<1>2. Cardinality({}) = 0 /\ Cardinality({1}) = 1 /\ Cardinality({1, 2}) = 2
  <2>1. Cardinality({}) = 0 /\ IsFiniteSet({1}) /\ Cardinality({1}) = 1
    BY FS_EmptySet, FS_Singleton
  <2> QED BY <2>1, CardinalityOfTwo
<1>3. CASE \A i \in DOMAIN todo : todo[i].then = "duplicated"
  <2>1. Undispatched = {} /\ Undispatched' = {} /\ Head(todo).then = "duplicated"
    BY <1>1, <1>3 DEF Undispatched
  <2>2. Shape'
    BY <1>1, <1>3 DEF Shape
  <2> QED BY <1>2, <2>1, <2>2
<1>4. CASE /\ todo[1].then = "nothing" /\ \A i \in DOMAIN todo : i # 1 => todo[i].then = "duplicated"
  <2>1. \A i \in DOMAIN todo' : todo'[i].then = "duplicated"
    BY <1>1, <1>4
  <2>2. Undispatched = {1} /\ Undispatched' = {} /\ Head(todo).then # "duplicated"
    BY <1>1, <1>4, <2>1 DEF Undispatched
  <2> QED BY <1>2, <2>1, <2>2 DEF Shape
<1>5. CASE Len(todo) = 2 /\ todo[1].then = "nothing" /\ todo[2].then = "reordered"
  <2>1. Len(todo') = 1 /\ DOMAIN todo' = {1} /\ todo'[1].then = "reordered"
    BY <1>1, <1>5
  <2>2. Undispatched = {1, 2} /\ Undispatched' = {1} /\ Head(todo).then # "duplicated"
    BY <1>1, <1>5, <2>1 DEF Undispatched
  <2>3. Shape'
    BY <2>1 DEF Shape
  <2> QED BY <1>2, <2>2, <2>3
<1>6. CASE Len(todo) = 1 /\ todo[1].then = "reordered"
  <2>1. DOMAIN todo' = {}
    BY <1>1, <1>6
  <2>2. Undispatched = {1} /\ Undispatched' = {} /\ Head(todo).then # "duplicated"
    BY <1>1, <1>6, <2>1 DEF Undispatched
  <2> QED BY <1>2, <2>1, <2>2 DEF Shape
<1> QED BY <1>3, <1>4, <1>5, <1>6 DEF IInv, Shape

\* The statistics of a dispatch.
LEMMA AfterFacts ==
    ASSUME TypeOK, todo # << >>, NEW k \in {"forwarded", "delayed"},
           stats_' = After(Head(todo), Count(k))
    PROVE  /\ stats_' \in [Counters -> Nat] /\ stats_'.dropped = stats_.dropped
           /\ stats_'.forwarded = IF k = "forwarded" THEN stats_.forwarded + 1 ELSE stats_.forwarded
           /\ stats_'.duplicated = IF Head(todo).then = "duplicated" THEN stats_.duplicated + 1
                                   ELSE stats_.duplicated
<1> DEFINE t == Head(todo).then
           S == Count(k)
<1>1. t \in {"nothing", "reordered", "duplicated"}
  BY HeadTyped
<1>2. S \in [Counters -> Nat] /\ S[k] = stats_[k] + 1 /\ \A j \in Counters : j # k => S[j] = stats_[j]
  BY CountFacts DEF Counters
<1>3. stats_' = IF t = "nothing" THEN S ELSE [S EXCEPT ![t] = @ + 1]
  BY DEF After
<1> HIDE DEF t, S
<1>4. t # "nothing" => t \in Counters
  BY <1>1 DEF Counters
<1>5. /\ stats_' \in [Counters -> Nat]
      /\ \A j \in Counters : stats_'[j] = IF j = t THEN S[j] + 1 ELSE S[j]
  BY <1>2, <1>3, <1>4, SMTT(30) DEF Counters
<1>6. /\ stats_'["dropped"] = S["dropped"] /\ stats_'["forwarded"] = S["forwarded"]
      /\ stats_'["duplicated"] = IF t = "duplicated" THEN S["duplicated"] + 1 ELSE S["duplicated"]
  BY <1>1, <1>5 DEF Counters
<1>7. /\ S["dropped"] = stats_["dropped"] /\ S["duplicated"] = stats_["duplicated"]
      /\ S["forwarded"] = IF k = "forwarded" THEN stats_["forwarded"] + 1 ELSE stats_["forwarded"]
  BY <1>2 DEF Counters
<1> QED BY <1>5, <1>6, <1>7 DEF t

LEMMA WrittenFacts ==
    ASSUME TypeOK, NEW f \in Frames, out' = Written(f)
    PROVE  /\ out' \in Seq(Frames)
           /\ {out'[i] : i \in DOMAIN out'} \subseteq {out[i] : i \in DOMAIN out} \cup {f}
<1>1. out \in Seq(Frames)
  BY DEF TypeOK
<1>2. CASE out' = Append(out, f)
  BY <1>1, <1>2, SeqAppend
<1>3. CASE out' = out
  BY <1>1, <1>3
<1> QED BY <1>2, <1>3 DEF Written

LEMMA DispatchEmitIInv ==
    ASSUME IInv, DispatchEmit PROVE IInv'
<1> USE DEF IInv
<1> DEFINE d == Head(todo)
<1>1. /\ mpc = "dispatch" /\ todo # << >> /\ out' = Written(d.frame)
      /\ stats_' = After(d, Count("forwarded")) /\ todo' = Tail(todo)
      /\ UNCHANGED <<rules_, now, processed, held_, tokens_bytes_, last_refill,
                     restarted_this_window_, calls, restarts, delayed_, pushed, stop_, mpc, mdelay,
                     mframe, wpc, wdue, wframe, linkUp>>
  BY DEF DispatchEmit, faults, queue, worker
<1>2. /\ d.frame \in Frames /\ d = todo[1] /\ 1 \in DOMAIN todo
      /\ Tail(todo) \in Seq([frame : Frames, then : {"nothing", "reordered", "duplicated"}])
      /\ \A i \in DOMAIN Tail(todo) : i + 1 \in DOMAIN todo /\ Tail(todo)[i] = todo[i + 1]
  BY <1>1, HeadTyped
<1>3. /\ stats_' \in [Counters -> Nat] /\ stats_'.dropped = stats_.dropped
      /\ stats_'.forwarded = stats_.forwarded + 1
      /\ stats_'.duplicated = IF d.then = "duplicated" THEN stats_.duplicated + 1
                              ELSE stats_.duplicated
  BY <1>1, AfterFacts
<1>4. /\ out' \in Seq(Frames)
      /\ {out'[i] : i \in DOMAIN out'} \subseteq {out[i] : i \in DOMAIN out} \cup {d.frame}
  BY <1>1, <1>2, WrittenFacts
<1> HIDE DEF d
<1>5. TypeOK'
  BY <1>1, <1>2, <1>3, <1>4 DEF TypeOK
<1>6. Control' /\ Queued' /\ NoLostWakeup'
  BY <1>1 DEF Control, Queued, NoLostWakeup
<1>7. Shape' /\ Accounting'
  <2>1. /\ Shape' /\ Cardinality(Undispatched') \in Nat
        /\ d.then = "duplicated" => Cardinality(Undispatched) = Cardinality(Undispatched')
        /\ d.then # "duplicated" => Cardinality(Undispatched) = Cardinality(Undispatched') + 1
    BY <1>1, TailShape DEF d
  <2>2. InHands' = InHands
    BY <1>1 DEF InHands, InHand
  <2>3. processed' = processed /\ delayed_' = delayed_
    BY <1>1
  <2> QED BY <1>3, <2>1, <2>2, <2>3, CountsTyped DEF Accounting
<1>8. Abroad' \subseteq Abroad
  <2>1. {todo'[i].frame : i \in DOMAIN todo'} \subseteq {todo[i].frame : i \in DOMAIN todo}
    BY <1>1, <1>2
  <2>2. {out'[i] : i \in DOMAIN out'} \subseteq Abroad
    BY <1>2, <1>4 DEF Abroad
  <2> QED BY <1>1, <2>1, <2>2, ZenonT(40) DEF Abroad
<1>9. Numbered' /\ Edges' /\ Bucket'
  BY <1>1, <1>3, <1>8, NumberedKept, EdgesKept, BucketKept
<1> QED BY <1>5, <1>6, <1>7, <1>9

LEMMA DispatchDelayIInv ==
    ASSUME IInv, DispatchDelay PROVE IInv'
<1> USE DEF IInv
<1> DEFINE d == Head(todo)
           e == [due |-> now + mdelay, frame |-> d.frame, id |-> pushed]
<1>1. /\ mpc = "dispatch" /\ todo # << >> /\ delayed_' = delayed_ \cup {e} /\ pushed' = pushed + 1
      /\ stats_' = After(d, Count("delayed")) /\ todo' = Tail(todo) /\ mpc' = "notify"
      /\ UNCHANGED <<rules_, now, processed, held_, tokens_bytes_, last_refill,
                     restarted_this_window_, calls, restarts, stop_, mdelay, mframe, wpc, wdue, wframe,
                     linkUp, out>>
  BY DEF DispatchDelay, faults, worker
<1>2. /\ d.frame \in Frames /\ d = todo[1] /\ 1 \in DOMAIN todo
      /\ Tail(todo) \in Seq([frame : Frames, then : {"nothing", "reordered", "duplicated"}])
      /\ \A i \in DOMAIN Tail(todo) : i + 1 \in DOMAIN todo /\ Tail(todo)[i] = todo[i + 1]
  BY <1>1, HeadTyped
<1>3. /\ stats_' \in [Counters -> Nat] /\ stats_'.dropped = stats_.dropped
      /\ stats_'.forwarded = stats_.forwarded
      /\ stats_'.duplicated = IF d.then = "duplicated" THEN stats_.duplicated + 1
                              ELSE stats_.duplicated
  BY <1>1, AfterFacts
<1> HIDE DEF d
<1>4. e \in [due : 1 .. MaxTime, frame : Frames, id : Nat] /\ e.frame = d.frame /\ e.id = pushed
  <2>1. now + mdelay \in 1 .. MaxTime /\ pushed \in Nat
    BY <1>1, BoundsAssumption DEF TypeOK, Control
  <2> QED BY <1>2, <2>1
<1> HIDE DEF e
<1>5. TypeOK'
  <2>1. delayed_' \subseteq [due : 1 .. MaxTime, frame : Frames, id : Nat] /\ pushed' \in Nat
    BY <1>1, <1>4 DEF TypeOK
  <2> QED BY <1>1, <1>2, <1>3, <2>1 DEF TypeOK
<1>6. Control' /\ NoLostWakeup'
  BY <1>1 DEF Control, NoLostWakeup
<1>7. Queued' /\ Cardinality(delayed_') = Cardinality(delayed_) + 1
  <2>1. IsFiniteSet(delayed_) /\ \A x \in delayed_ : x.id < pushed
    BY DEF Queued
  <2>2. pushed \in Nat /\ \A x \in delayed_ : x.id \in Nat
    BY DEF TypeOK
  <2>3. e \notin delayed_
    BY <1>4, <2>1, <2>2
  <2>4. IsFiniteSet(delayed_ \cup {e}) /\ Cardinality(delayed_ \cup {e}) = Cardinality(delayed_) + 1
    BY <2>1, <2>3, FS_AddElement
  <2>5. \A x \in delayed_' : x.id < pushed'
    BY <1>1, <1>4, <2>1, <2>2
  <2> QED BY <1>1, <2>4, <2>5 DEF Queued
<1>8. Shape' /\ Accounting'
  <2>1. /\ Shape' /\ Cardinality(Undispatched') \in Nat
        /\ d.then = "duplicated" => Cardinality(Undispatched) = Cardinality(Undispatched')
        /\ d.then # "duplicated" => Cardinality(Undispatched) = Cardinality(Undispatched') + 1
    BY <1>1, TailShape DEF d
  <2>2. InHands' = InHands
    BY <1>1 DEF InHands, InHand
  <2>3. processed' = processed
    BY <1>1
  <2> QED BY <1>3, <1>7, <2>1, <2>2, <2>3, CountsTyped DEF Accounting
<1>9. Abroad' \subseteq Abroad
  <2>1. {todo'[i].frame : i \in DOMAIN todo'} \subseteq {todo[i].frame : i \in DOMAIN todo}
    BY <1>1, <1>2
  <2>2. {x.frame : x \in delayed_'} \subseteq Abroad
    BY <1>1, <1>2, <1>4 DEF Abroad
  <2> QED BY <1>1, <2>1, <2>2, ZenonT(40) DEF Abroad
<1>10. Numbered' /\ Edges' /\ Bucket'
  BY <1>1, <1>3, <1>9, NumberedKept, EdgesKept, BucketKept
<1> QED BY <1>5, <1>6, <1>7, <1>8, <1>10

-----------------------------------------------------------------------------
(* Taking a frame from the queue, and writing it                           *)

Pops == FlushPop \/ WorkerPops

LEMMA PopsIInv ==
    ASSUME IInv, Pops PROVE IInv'
<1> USE DEF IInv
<1>1. PICK d \in delayed_ :
        /\ delayed_' = delayed_ \ {d}
        /\ \/ /\ mpc = "flush" /\ mpc' = "flushEmit" /\ mframe' = d.frame
              /\ UNCHANGED <<wpc, wframe>>
           \/ /\ wpc = "loop" /\ ~stop_ /\ wpc' = "emit" /\ wframe' = d.frame
              /\ UNCHANGED <<mpc, mframe>>
  BY DEF Pops, FlushPop, WorkerPops, Tops, owner, worker
<1>2. UNCHANGED <<rules_, now, processed, held_, tokens_bytes_, last_refill, restarted_this_window_,
                  calls, restarts, pushed, stop_, stats_, todo, mdelay, wdue, linkUp, out>>
  BY DEF Pops, FlushPop, WorkerPops, faults, owner, worker
<1>3. d.frame \in Frames
  BY DEF TypeOK
<1>4. TypeOK'
  <2>1. delayed_' \subseteq [due : 1 .. MaxTime, frame : Frames, id : Nat]
    BY <1>1 DEF TypeOK
  <2>2. /\ mpc' \in {"idle", "dispatch", "notify", "flush", "flushEmit", "flushed",
                     "stopNotify", "join", "destroyed"}
        /\ wpc' \in {"loop", "sleep", "timed", "emit", "done"}
        /\ wpc' = "emit" => wframe' \in Frames
        /\ mpc' = "flushEmit" => mframe' \in Frames
    BY <1>1, <1>3 DEF TypeOK
  <2> QED BY <1>2, <2>1, <2>2 DEF TypeOK
<1>5. Control' /\ NoLostWakeup'
  BY <1>1, <1>2 DEF Control, NoLostWakeup
<1>6. Shape'
  BY <1>2 DEF Shape
<1>7. Queued' /\ Cardinality(delayed_) = Cardinality(delayed_') + 1 /\ Cardinality(delayed_') \in Nat
  <2>1. IsFiniteSet(delayed_) /\ \A x \in delayed_ : x.id < pushed
    BY DEF Queued
  <2>2. IsFiniteSet(delayed_ \ {d}) /\ Cardinality(delayed_ \ {d}) = Cardinality(delayed_) - 1
    BY <2>1, FS_RemoveElement
  <2>3. Cardinality(delayed_ \ {d}) \in Nat
    BY <2>2, FS_CardinalityType
  <2> QED BY <1>1, <1>2, <2>1, <2>2, <2>3, CountsTyped DEF Queued
<1>8. Accounting'
  <2>1. InHands' = InHands + 1
    BY <1>1, <1>2 DEF InHands, InHand
  <2>2. Undispatched' = Undispatched /\ processed' = processed /\ stats_' = stats_
    BY <1>2 DEF Undispatched
  <2>3. Cardinality(Undispatched) \in Nat
    BY UndispatchedFinite
  <2> QED BY <1>7, <2>1, <2>2, <2>3, CountsTyped DEF Accounting
<1>9. Abroad' \subseteq Abroad
  <2>1. {x.frame : x \in delayed_'} \subseteq {x.frame : x \in delayed_}
    BY <1>1
  <2> QED BY <1>1, <1>2, <2>1 DEF Abroad
<1>10. Numbered' /\ Edges' /\ Bucket'
  BY <1>2, <1>9, NumberedKept, EdgesKept, BucketKept
<1> QED BY <1>4, <1>5, <1>6, <1>7, <1>8, <1>10

Emits == FlushEmit \/ WorkerEmits

LEMMA EmitsIInv ==
    ASSUME IInv, Emits PROVE IInv'
<1> USE DEF IInv
<1>1. PICK f \in Frames :
        /\ out' = Written(f)
        /\ \/ /\ mpc = "flushEmit" /\ mpc' = "flush" /\ f = mframe /\ UNCHANGED wpc
           \/ /\ wpc = "emit" /\ wpc' = "loop" /\ f = wframe /\ UNCHANGED mpc
  <2>1. CASE FlushEmit
    BY <2>1 DEF FlushEmit, worker, TypeOK
  <2>2. CASE WorkerEmits
    BY <2>2 DEF WorkerEmits, owner, TypeOK
  <2> QED BY <2>1, <2>2 DEF Emits
<1>2. /\ stats_' = Count("forwarded")
      /\ UNCHANGED <<rules_, now, processed, held_, tokens_bytes_, last_refill, restarted_this_window_,
                     calls, restarts, delayed_, pushed, stop_, todo, mdelay, mframe, wdue, wframe, linkUp>>
  BY DEF Emits, FlushEmit, WorkerEmits, faults, queue, owner, worker
<1>3. /\ stats_' \in [Counters -> Nat]
      /\ stats_'.forwarded = stats_.forwarded + 1 /\ stats_'.dropped = stats_.dropped
      /\ stats_'.duplicated = stats_.duplicated
  <2>1. "dropped" \in Counters /\ "forwarded" \in Counters /\ "duplicated" \in Counters
    BY DEF Counters
  <2> QED BY <1>2, <2>1, CountFacts
<1>4. /\ out' \in Seq(Frames)
      /\ {out'[i] : i \in DOMAIN out'} \subseteq {out[i] : i \in DOMAIN out} \cup {f}
  BY <1>1, WrittenFacts
<1>5. TypeOK'
  <2>1. /\ mpc' \in {"idle", "dispatch", "notify", "flush", "flushEmit", "flushed",
                     "stopNotify", "join", "destroyed"}
        /\ wpc' \in {"loop", "sleep", "timed", "emit", "done"}
        /\ wpc' = "emit" => wframe' \in Frames
        /\ mpc' = "flushEmit" => mframe' \in Frames
    BY <1>1, <1>2 DEF TypeOK
  <2> QED BY <1>2, <1>3, <1>4, <2>1 DEF TypeOK
<1>6. Control' /\ NoLostWakeup'
  BY <1>1, <1>2 DEF Control, NoLostWakeup
<1>7. Shape' /\ Queued'
  BY <1>2 DEF Shape, Queued
<1>8. Accounting'
  <2>1. InHands = InHands' + 1
    BY <1>1, <1>2 DEF InHands, InHand
  <2>2. Undispatched' = Undispatched /\ processed' = processed /\ delayed_' = delayed_
    BY <1>2 DEF Undispatched
  <2>3. Cardinality(Undispatched) \in Nat /\ InHands' \in Nat
    BY UndispatchedFinite DEF InHands, InHand
  <2> QED BY <1>3, <2>1, <2>2, <2>3, CountsTyped DEF Accounting
<1>9. Abroad' \subseteq Abroad
  BY <1>1, <1>2, <1>4 DEF Abroad
<1>10. Numbered' /\ Edges' /\ Bucket'
  BY <1>2, <1>3, <1>9, NumberedKept, EdgesKept, BucketKept
<1> QED BY <1>5, <1>6, <1>7, <1>8, <1>10

-----------------------------------------------------------------------------
(* Every step                                                              *)

LEMMA StutterIInv ==
    ASSUME IInv, UNCHANGED vars PROVE IInv'
<1>1. UNCHANGED <<rules_, now, processed, held_, tokens_bytes_, last_refill, restarted_this_window_,
                  calls, restarts, delayed_, pushed, stop_, stats_, mpc, todo, mdelay, mframe, wpc, wdue,
                  wframe, linkUp, out>>
  BY DEF vars, faults, queue, owner, worker
<1>2. TypeOK' /\ Control' /\ Shape' /\ Queued' /\ NoLostWakeup'
  BY <1>1 DEF IInv, TypeOK, Control, Shape, Queued, NoLostWakeup
<1>3. Accounting'
  BY <1>1 DEF IInv, Accounting, InHands, InHand, Undispatched
<1>4. Abroad' = Abroad
  BY <1>1 DEF Abroad
<1>5. Numbered' /\ Edges' /\ Bucket'
  BY <1>1, <1>4, NumberedKept, EdgesKept, BucketKept DEF IInv
<1> QED BY <1>2, <1>3, <1>5 DEF IInv

LEMMA NextIInv == IInv /\ [Next]_vars => IInv'
<1> SUFFICES ASSUME IInv, [Next]_vars PROVE IInv'
  OBVIOUS
<1>1. CASE Tick
  BY <1>1, TickIInv
<1>2. ASSUME NEW s \in Streams, Process(s) PROVE IInv'
  BY <1>2, DropsIInv, HoldIInv, SwapIInv, ForwardIInv DEF Process, Drops
<1>3. CASE Quiet
  BY <1>3, QuietIInv
<1>4. CASE DispatchEmit \/ DispatchDelay
  BY <1>4, DispatchEmitIInv, DispatchDelayIInv
<1>5. CASE Pops \/ Emits
  BY <1>5, PopsIInv, EmitsIInv
<1>6. CASE UNCHANGED vars
  BY <1>6, StutterIInv
<1> QED BY <1>1, <1>2, <1>3, <1>4, <1>5, <1>6
        DEF Next, OwnerStep, WorkerStep, Terminated, Quiet, Pops, Emits

-----------------------------------------------------------------------------
(* Theorems                                                                *)

LEMMA EngineInductive == Spec => []IInv
BY InitIInv, NextIInv, PTL DEF Spec

\* Inv of FaultEngine: with any rules, every frame given to process() and every
\* extra copy is in one place, however process(), the worker and flush() interleave.
THEOREM EngineInv == Spec => []Inv
<1>1. IInv => Inv
  BY DEF IInv, Inv
<1> QED BY <1>1, EngineInductive, PTL

\* NoLostWakeup of FaultEngine: worker_loop() never sleeps past a due frame or stop_
\* without a notification under way.
THEOREM EngineNoLostWakeup == Spec => []NoLostWakeup
<1>1. IInv => NoLostWakeup
  BY DEF IInv
<1> QED BY <1>1, EngineInductive, PTL

\* RulesKept of FaultEngine: the restart hook fires at most once in a window, and exactly
\* with the first frame under a restart rule since the stream's last frame under no rule
\* at all; a bandwidth rule is never overdrawn; and no frame overtakes a held one but
\* those that come when no reorder rule is active.
THEOREM EngineRulesKept == Spec => []RulesKept
<1>1. ASSUME IInv PROVE HookOncePerWindow
  <2> SUFFICES ASSUME NEW r \in rules_, NEW s \in Streams, r.kind = "ProcessRestart",
                      r.stream \in {s, Any}
               PROVE  Cardinality({c \in restarts : /\ c[1] = s /\ c[2] >= r.start
                                                    /\ c[2] < r.start + r.duration}) <= 1
    BY DEF HookOncePerWindow
  <2> DEFINE C == {c \in restarts : c[1] = s /\ c[2] >= r.start /\ c[2] < r.start + r.duration}
  <2>1. \A c, d \in C : c = d
    <3>1. r.start \in Nat /\ r.duration \in Nat
      BY <1>1, RulesTyped DEF IInv, TypeOK
    <3>2. \A c \in restarts : c[2] \in Nat
      BY <1>1 DEF IInv, TypeOK
    <3> QED BY <1>1, <3>1, <3>2 DEF IInv, Edges, InWindow
  <2>2. C = {} \/ \E x : C = {x}
    BY <2>1
  <2>3. Cardinality(C) <= 1
    <3> HIDE DEF C
    <3>1. CASE C = {}
      BY <3>1, FS_EmptySet
    <3>2. ASSUME NEW x, C = {x} PROVE Cardinality(C) <= 1
      BY <3>2, FS_Singleton, SMTT(30)
    <3> QED BY <2>2, <3>1, <3>2
  <2> QED BY <2>3
<1>2. ASSUME IInv PROVE BudgetRespected
  <2> SUFFICES ASSUME NEW r \in rules_, Covers(r, "BandwidthLimit")
               PROVE  processed - stats_.dropped <= r.bandwidth * now
    BY DEF BudgetRespected, Covers
  <2>1. /\ r.bandwidth \in Nat /\ now \in Nat /\ last_refill \in Nat /\ last_refill <= now
        /\ tokens_bytes_ \in Nat /\ processed \in Nat /\ stats_.dropped \in Nat
    <3>1. r.bandwidth \in Nat
      BY <1>2, RulesTyped DEF IInv, TypeOK
    <3>2. now \in Nat /\ last_refill \in Nat /\ last_refill <= now /\ tokens_bytes_ \in Nat
      BY <1>2 DEF IInv, TypeOK, Control
    <3> QED BY <1>2, <3>1, <3>2, CountsTyped
  <2>2. /\ last_refill = 0 => processed = stats_.dropped
        /\ last_refill # 0 => processed - stats_.dropped + tokens_bytes_ <= r.bandwidth * last_refill
    BY <1>2 DEF IInv, Bucket
  <2>3. r.bandwidth * last_refill <= r.bandwidth * now /\ r.bandwidth * now >= 0
        /\ r.bandwidth * now \in Int /\ r.bandwidth * last_refill \in Int
    BY <2>1
  <2> QED BY <2>1, <2>2, <2>3
<1>3. ASSUME IInv PROVE HeldNotOvertaken
  <2>1. \A i \in DOMAIN out : out[i] \in Abroad
    BY DEF Abroad
  <2> QED BY <1>3, <2>1 DEF IInv, Numbered, Passes, HeldNotOvertaken
<1>4. IInv => HookFires
  BY DEF IInv, Edges, Hooked
<1> QED BY <1>1, <1>2, <1>3, <1>4, EngineInductive, PTL DEF RulesKept

\* NoWriteAfterDestroyed of FaultEngine, a part of EndsCleanly: the worker has ended
\* when the destructor returns, and nothing is written or counted from then on.
THEOREM EngineQuietAfterDestroyed == Spec => NoWriteAfterDestroyed
<1>1. ASSUME IInv, [Next]_vars, mpc = "destroyed" PROVE UNCHANGED <<out, stats_>>
  <2>1. wpc = "done"
    BY <1>1 DEF IInv, Control
  <2>2. CASE UNCHANGED vars
    BY <2>2 DEF vars
  <2>3. CASE Tick
    BY <2>3 DEF Tick
  <2>4. ASSUME NEW s \in Streams, Process(s) PROVE FALSE
    BY <1>1, <2>4 DEF Process, ProcessSuppressed, ProcessRandomDrop, ProcessOverBudget, ProcessHold,
                      ProcessSwap, ProcessForward, Survives, Enter
  <2>5. CASE BeginFlush \/ OwnerStep
    BY <1>1, <2>5 DEF BeginFlush, OwnerStep, DispatchEmit, DispatchDelay, DispatchNotify,
       ProcessReturns, FlushPop, FlushEmit, FlushReturns, Destroy, DestroyNotify, Join
  <2>6. CASE WorkerStep \/ SpuriousWake
    BY <2>1, <2>6 DEF WorkerStep, WorkerExits, WorkerWaits, WorkerPops, WorkerEmits,
                      WorkerTimesOut, SpuriousWake
  <2> QED BY <1>1, <2>2, <2>3, <2>4, <2>5, <2>6 DEF Next, Terminated
<1>2. IInv /\ [Next]_vars => [mpc = "destroyed" => UNCHANGED <<out, stats_>>]_vars
  BY <1>1
<1> QED BY <1>2, EngineInductive, PTL DEF Spec, NoWriteAfterDestroyed
=============================================================================
