----------------------------- MODULE FaultEngine -----------------------------
(***************************************************************************)
(* The transport-layer fault engine (faults/fault_engine.cpp): process()   *)
(* decides the fate of each outgoing frame from the rules active for its   *)
(* stream; a worker thread writes out the frames a delay rule has queued;  *)
(* flush() and the destructor end it.                                      *)
(*                                                                         *)
(* Two threads.  The owner calls process, flush and the destructor; the    *)
(* worker runs worker_loop.  A step is a critical section of mtx_, a call  *)
(* of the write callback, or a notification.  The owner is either the      *)
(* scenario runner, which reads its metrics once flush() has returned, or  *)
(* the network bridge, whose shutdown() closes the interface the write     *)
(* callback uses before it calls flush().                                  *)
(*                                                                         *)
(* Time is the steady clock in ticks; the scenario time of a call is the   *)
(* tick it is made in.  Every frame has size one.                          *)
(***************************************************************************)
EXTENDS Naturals, Sequences, FiniteSets, FiniteSetsExt

CONSTANTS Streams,
          RuleSets,   \* rule sets: of records [kind, stream, start, duration, delay, bandwidth]
          Any,        \* the empty stream name of a rule: every stream
          MaxFrames,  \* bound: frames processed
          LastSend,   \* bound: tick of the last frame
          MaxTime     \* bound: ticks; every delay is over by then

Kinds == {"Delay", "Drop", "Duplicate", "Corrupt", "Reorder", "BurstLoss",
          "BandwidthLimit", "EcuDisconnect", "ProcessRestart"}

ASSUME BoundsAssumption ==
    /\ MaxFrames \in Nat \ {0} /\ LastSend \in Nat \ {0} /\ MaxTime \in Nat
    /\ LastSend <= MaxTime

ASSUME RulesAssumption ==
    \A rules \in RuleSets :
      /\ IsFiniteSet(rules)
      /\ rules \subseteq [kind : Kinds, stream : Streams \cup {Any}, start : Nat,
                          duration : Nat, delay : Nat, bandwidth : Nat]
      /\ \A r \in rules : LastSend + r.delay <= MaxTime
      /\ \A r \in rules : r.kind = "Delay" => r.delay > 0
      /\ \A r \in rules : r.kind = "BandwidthLimit" => r.bandwidth > 0
      /\ Cardinality({r \in rules : r.kind = "BandwidthLimit"}) <= 1

VARIABLES
    rules_,                     \* the rules the engine was built with
    now,                        \* the steady clock
    processed,                  \* frames given to process(); frames are numbered
    held_,                      \* reorder state: the held frame, 0 for none
    tokens_bytes_, last_refill, \* token bucket; tick 0 stands for never refilled
    restarted_this_window_,     \* restart edge detection
    calls,                      \* calls of process(): <<stream, tick, frame>>
    restarts,                   \* the calls in which the restart hook was called
    delayed_,                   \* the queue: records [due, frame, id]
    pushed,                     \* frames ever pushed to it, the source of ids
    stop_,
    stats_,
    mpc, todo, mdelay, mframe,  \* owner: next step, dispatches left, delay, popped frame
    wpc, wdue, wframe,          \* worker: next step, end of its timed wait, popped frame
    linkUp,                     \* the write callback still reaches its target
    out                         \* frames written, in order

owner  == <<mpc, todo, mdelay, mframe>>
worker == <<wpc, wdue, wframe>>
faults == <<held_, tokens_bytes_, last_refill, restarted_this_window_, calls, restarts>>
queue  == <<delayed_, pushed>>
vars   == <<rules_, now, processed, faults, queue, stop_, stats_, owner, worker, linkUp, out>>

Init ==
    /\ rules_ \in RuleSets
    /\ now = 1 /\ processed = 0
    /\ held_ = 0 /\ tokens_bytes_ = 0 /\ last_refill = 0
    /\ restarted_this_window_ = {} /\ calls = {} /\ restarts = {}
    /\ delayed_ = {} /\ pushed = 0 /\ stop_ = FALSE
    /\ stats_ = [forwarded |-> 0, dropped |-> 0, duplicated |-> 0,
                 corrupted |-> 0, reordered |-> 0, delayed |-> 0]
    /\ mpc = "idle" /\ todo = << >> /\ mdelay = 0 /\ mframe = 0
    /\ wpc = "loop" /\ wdue = 0 /\ wframe = 0
    /\ linkUp = TRUE /\ out = << >>

\* A call of process() ends by LastSend, so that no delay outlasts MaxTime.
Tick ==
    /\ now < MaxTime
    /\ now < LastSend \/ todo = << >>
    /\ now' = now + 1
    /\ UNCHANGED <<rules_, processed, faults, queue, stop_, stats_, owner, worker, linkUp, out>>

-----------------------------------------------------------------------------
(* Rules                                                                   *)

ActiveAt(s, t) == {r \in rules_ : /\ r.stream \in {s, Any}
                                  /\ t >= r.start /\ t < r.start + r.duration}

Active(s) == ActiveAt(s, now)

OfKind(s, k) == {r \in Active(s) : r.kind = k}

Has(s, k) == OfKind(s, k) # {}

\* The stream's largest active delay.
DelayOf(s) == Max({r.delay : r \in OfKind(s, "Delay")} \cup {0})

-----------------------------------------------------------------------------
(* Owner: process()                                                        *)

\* Test seeding: the edge is never forgotten.
EnterNeverForgets(s) ==
    /\ mpc = "idle" /\ processed < MaxFrames /\ now <= LastSend
    /\ processed' = processed + 1
    /\ calls' = calls \cup {<<s, now, processed'>>}
    /\ IF Has(s, "ProcessRestart") /\ s \notin restarted_this_window_
       THEN /\ restarted_this_window_' = restarted_this_window_ \cup {s}
            /\ restarts' = restarts \cup {<<s, now, processed'>>}
       ELSE UNCHANGED <<restarted_this_window_, restarts>>

\* The first half of process(): the restart hook fires on the first frame of a
\* window, and the edge is forgotten when no rule at all is active.
Enter(s) ==
    /\ mpc = "idle" /\ processed < MaxFrames /\ now <= LastSend
    /\ processed' = processed + 1
    /\ calls' = calls \cup {<<s, now, processed'>>}
    /\ IF Has(s, "ProcessRestart") /\ s \notin restarted_this_window_
       THEN /\ restarted_this_window_' = restarted_this_window_ \cup {s}
            /\ restarts' = restarts \cup {<<s, now, processed'>>}
       ELSE /\ restarted_this_window_' =
                 IF Active(s) = {} THEN restarted_this_window_ \ {s} ELSE restarted_this_window_
            /\ UNCHANGED restarts

Suppressed(s) == Has(s, "EcuDisconnect") \/ Has(s, "BurstLoss")

Counters == {"forwarded", "dropped", "duplicated", "corrupted", "reordered", "delayed"}

Count(k) == [stats_ EXCEPT ![k] = @ + 1]

\* Disconnect and burst loss drop everything.
ProcessSuppressed(s) ==
    /\ Enter(s)
    /\ Suppressed(s)
    /\ stats_' = Count("dropped")
    /\ UNCHANGED <<rules_, now, held_, tokens_bytes_, last_refill, queue, stop_, owner, worker, linkUp, out>>

\* A drop rule draws a frame.
ProcessRandomDrop(s) ==
    /\ Enter(s)
    /\ ~Suppressed(s) /\ Has(s, "Drop")
    /\ stats_' = Count("dropped")
    /\ UNCHANGED <<rules_, now, held_, tokens_bytes_, last_refill, queue, stop_, owner, worker, linkUp, out>>

\* The bucket after its refill, for the stream's bandwidth rule.
Refilled(s) ==
    LET cap == (CHOOSE r \in OfKind(s, "BandwidthLimit") : TRUE).bandwidth
        had == IF last_refill = 0 THEN cap ELSE tokens_bytes_
        elapsed == IF last_refill = 0 THEN 0 ELSE now - last_refill
    IN  Min({cap, had + elapsed * cap})

\* The bandwidth rule is over budget.
ProcessOverBudget(s) ==
    /\ Enter(s)
    /\ ~Suppressed(s) /\ Has(s, "BandwidthLimit") /\ Refilled(s) < 1
    /\ tokens_bytes_' = Refilled(s) /\ last_refill' = now
    /\ stats_' = Count("dropped")
    /\ UNCHANGED <<rules_, now, held_, queue, stop_, owner, worker, linkUp, out>>

\* The frame survives the dropping rules: tokens are paid, bits are flipped.
Survives(s) ==
    /\ Enter(s)
    /\ ~Suppressed(s)
    /\ IF Has(s, "BandwidthLimit")
       THEN /\ Refilled(s) >= 1
            /\ tokens_bytes_' = Refilled(s) - 1 /\ last_refill' = now
       ELSE UNCHANGED <<tokens_bytes_, last_refill>>
    /\ stats_' = [stats_ EXCEPT !.corrupted = @ + Cardinality(OfKind(s, "Corrupt"))]
    /\ UNCHANGED <<rules_, now, queue, stop_, mframe, worker, linkUp, out>>

\* Reorder holds the first of two frames back.
ProcessHold(s) ==
    /\ Survives(s)
    /\ Has(s, "Reorder") /\ held_ = 0
    /\ held_' = processed'
    /\ UNCHANGED <<mpc, todo, mdelay>>

\* Test seeding: the held frame stays held after it has been sent.
ProcessSwapKeepsHeld(s) ==
    /\ Survives(s)
    /\ Has(s, "Reorder") /\ held_ # 0
    /\ todo' = <<[frame |-> processed', then |-> "nothing"], [frame |-> held_, then |-> "reordered"]>>
    /\ mdelay' = DelayOf(s) /\ mpc' = "dispatch"
    /\ UNCHANGED held_

\* The second goes out first, then the held one.
ProcessSwap(s) ==
    /\ Survives(s)
    /\ Has(s, "Reorder") /\ held_ # 0
    /\ todo' = <<[frame |-> processed', then |-> "nothing"], [frame |-> held_, then |-> "reordered"]>>
    /\ held_' = 0
    /\ mdelay' = DelayOf(s) /\ mpc' = "dispatch"

\* Without reorder: the frame, and one more copy for each duplicate rule.
ProcessForward(s) ==
    /\ Survives(s)
    /\ ~Has(s, "Reorder")
    /\ todo' = [i \in 1 .. 1 + Cardinality(OfKind(s, "Duplicate")) |->
                  [frame |-> processed', then |-> IF i = 1 THEN "nothing" ELSE "duplicated"]]
    /\ mdelay' = DelayOf(s) /\ mpc' = "dispatch"
    /\ UNCHANGED held_

Process(s) ==
    \/ ProcessSuppressed(s) \/ ProcessRandomDrop(s) \/ ProcessOverBudget(s)
    \/ ProcessHold(s) \/ ProcessSwap(s) \/ ProcessForward(s)

\* Statistics kept after a dispatch, on top of those of the dispatch itself.
After(d, stats) == IF d.then = "nothing" THEN stats ELSE [stats EXCEPT ![d.then] = @ + 1]

Written(f) == IF linkUp THEN Append(out, f) ELSE out

\* dispatch_or_delay without a delay: emit at once.
DispatchEmit ==
    /\ mpc = "dispatch" /\ todo # << >> /\ mdelay = 0
    /\ out' = Written(Head(todo).frame)
    /\ stats_' = After(Head(todo), Count("forwarded"))
    /\ todo' = Tail(todo)
    /\ UNCHANGED <<rules_, now, processed, faults, queue, stop_, mpc, mdelay, mframe, worker, linkUp>>

\* With a delay: into the queue under mtx_, then wake the worker.
DispatchDelay ==
    /\ mpc = "dispatch" /\ todo # << >> /\ mdelay > 0
    /\ delayed_' = delayed_ \cup {[due |-> now + mdelay, frame |-> Head(todo).frame, id |-> pushed]}
    /\ pushed' = pushed + 1
    /\ stats_' = After(Head(todo), Count("delayed"))
    /\ todo' = Tail(todo) /\ mpc' = "notify"
    /\ UNCHANGED <<rules_, now, processed, faults, stop_, mdelay, mframe, worker, linkUp, out>>

\* Test seeding: the worker is woken only when it sleeps without a timeout.
WakeSleeper == wpc' = IF wpc = "sleep" THEN "loop" ELSE wpc

\* Test seeding: the notification is left out.
WakeNobody == wpc' = wpc

\* cv_.notify_all.
Wake == wpc' = IF wpc \in {"sleep", "timed"} THEN "loop" ELSE wpc

DispatchNotify ==
    /\ mpc = "notify"
    /\ Wake
    /\ mpc' = "dispatch"
    /\ UNCHANGED <<rules_, now, processed, faults, queue, stop_, stats_, todo, mdelay, mframe,
                   wdue, wframe, linkUp, out>>

ProcessReturns ==
    /\ mpc = "dispatch" /\ todo = << >>
    /\ mpc' = "idle"
    /\ UNCHANGED <<rules_, now, processed, faults, queue, stop_, stats_, todo, mdelay, mframe,
                   worker, linkUp, out>>

-----------------------------------------------------------------------------
(* Owner: flush() and the destructor                                       *)

\* The entry of the queue a pop takes: one with the least due time.
Tops == {d \in delayed_ : \A e \in delayed_ : d.due <= e.due}

\* The bridge's shutdown() closes its interface before it calls flush(); the
\* scenario runner's finish() leaves its publisher alone.
BeginFlush ==
    /\ mpc = "idle"
    /\ mpc' = "flush"
    /\ linkUp' \in BOOLEAN
    /\ UNCHANGED <<rules_, now, processed, faults, queue, stop_, stats_, todo, mdelay, mframe, worker, out>>

FlushPop ==
    /\ mpc = "flush"
    /\ \E d \in Tops : delayed_' = delayed_ \ {d} /\ mframe' = d.frame
    /\ mpc' = "flushEmit"
    /\ UNCHANGED <<rules_, now, processed, faults, pushed, stop_, stats_, todo, mdelay, worker, linkUp, out>>

FlushEmit ==
    /\ mpc = "flushEmit"
    /\ out' = Written(mframe) /\ stats_' = Count("forwarded")
    /\ mpc' = "flush"
    /\ UNCHANGED <<rules_, now, processed, faults, queue, stop_, todo, mdelay, mframe, worker, linkUp>>

FlushReturns ==
    /\ mpc = "flush" /\ delayed_ = {}
    /\ mpc' = "flushed"
    /\ UNCHANGED <<rules_, now, processed, faults, queue, stop_, stats_, todo, mdelay, mframe,
                   worker, linkUp, out>>

\* The destructor raises stop_ under mtx_ ...
Destroy ==
    /\ mpc = "flushed"
    /\ stop_' = TRUE /\ mpc' = "stopNotify"
    /\ UNCHANGED <<rules_, now, processed, faults, queue, stats_, todo, mdelay, mframe, worker, linkUp, out>>

\* ... wakes the worker ...
DestroyNotify ==
    /\ mpc = "stopNotify"
    /\ Wake
    /\ mpc' = "join"
    /\ UNCHANGED <<rules_, now, processed, faults, queue, stop_, stats_, todo, mdelay, mframe,
                   wdue, wframe, linkUp, out>>

\* ... and joins it.
Join ==
    /\ mpc = "join" /\ wpc = "done"
    /\ mpc' = "destroyed"
    /\ UNCHANGED <<rules_, now, processed, faults, queue, stop_, stats_, todo, mdelay, mframe,
                   worker, linkUp, out>>

-----------------------------------------------------------------------------
(* Worker: worker_loop()                                                   *)

WorkerExits ==
    /\ wpc = "loop" /\ stop_
    /\ wpc' = "done"
    /\ UNCHANGED <<rules_, now, processed, faults, queue, stop_, stats_, owner, wdue, wframe, linkUp, out>>

\* Nothing to do: cv_.wait; not due yet: cv_.wait_for.
WorkerWaits ==
    /\ wpc = "loop" /\ ~stop_
    /\ \/ delayed_ = {} /\ wpc' = "sleep" /\ UNCHANGED wdue
       \/ \E d \in Tops : d.due > now /\ wpc' = "timed" /\ wdue' = d.due
    /\ UNCHANGED <<rules_, now, processed, faults, queue, stop_, stats_, owner, wframe, linkUp, out>>

WorkerPops ==
    /\ wpc = "loop" /\ ~stop_
    /\ \E d \in Tops : d.due <= now /\ delayed_' = delayed_ \ {d} /\ wframe' = d.frame
    /\ wpc' = "emit"
    /\ UNCHANGED <<rules_, now, processed, faults, pushed, stop_, stats_, owner, wdue, linkUp, out>>

\* emit, with mtx_ released.
WorkerEmits ==
    /\ wpc = "emit"
    /\ out' = Written(wframe) /\ stats_' = Count("forwarded")
    /\ wpc' = "loop"
    /\ UNCHANGED <<rules_, now, processed, faults, queue, stop_, owner, wdue, wframe, linkUp>>

WorkerTimesOut ==
    /\ wpc = "timed" /\ now >= wdue
    /\ wpc' = "loop"
    /\ UNCHANGED <<rules_, now, processed, faults, queue, stop_, stats_, owner, wdue, wframe, linkUp, out>>

\* A condition variable may wake its waiter for no reason.
SpuriousWake ==
    /\ wpc \in {"sleep", "timed"}
    /\ wpc' = "loop"
    /\ UNCHANGED <<rules_, now, processed, faults, queue, stop_, stats_, owner, wdue, wframe, linkUp, out>>

-----------------------------------------------------------------------------
OwnerStep ==
    \/ DispatchEmit \/ DispatchDelay \/ DispatchNotify \/ ProcessReturns
    \/ FlushPop \/ FlushEmit \/ FlushReturns \/ Destroy \/ DestroyNotify \/ Join

WorkerStep == WorkerExits \/ WorkerWaits \/ WorkerPops \/ WorkerEmits \/ WorkerTimesOut

\* The engine is gone.
Terminated == mpc = "destroyed" /\ wpc = "done" /\ UNCHANGED vars

Next == \/ Tick \/ (\E s \in Streams : Process(s)) \/ BeginFlush \/ OwnerStep
        \/ WorkerStep \/ SpuriousWake \/ Terminated

Spec == Init /\ [][Next]_vars

\* Time passes, a call that was entered goes on, and the worker is scheduled.
\* Nothing obliges the owner to call process() or to end the engine.
FairSpec == Spec /\ WF_vars(Tick) /\ WF_vars(OwnerStep) /\ WF_vars(WorkerStep)

-----------------------------------------------------------------------------
(* Properties                                                              *)

Frames == 1 .. MaxFrames

\* Types; a pending dispatch, a popped frame and a held frame are real frames.
TypeOK ==
    /\ rules_ \in RuleSets
    /\ now \in 1 .. MaxTime /\ processed \in 0 .. MaxFrames
    /\ held_ \in {0} \cup Frames
    /\ tokens_bytes_ \in Nat /\ last_refill \in 0 .. LastSend
    /\ restarted_this_window_ \subseteq Streams
    /\ calls \subseteq Streams \X (1 .. LastSend) \X Frames /\ restarts \subseteq calls
    /\ delayed_ \subseteq [due : 1 .. MaxTime, frame : Frames, id : Nat] /\ pushed \in Nat
    /\ stop_ \in BOOLEAN /\ linkUp \in BOOLEAN
    /\ stats_ \in [Counters -> Nat]
    /\ mpc \in {"idle", "dispatch", "notify", "flush", "flushEmit", "flushed",
                "stopNotify", "join", "destroyed"}
    /\ wpc \in {"loop", "sleep", "timed", "emit", "done"}
    /\ wpc = "emit" => wframe \in Frames
    /\ mpc = "flushEmit" => mframe \in Frames
    /\ todo \in Seq([frame : Frames, then : {"nothing", "reordered", "duplicated"}])
    /\ mdelay \in Nat /\ wdue \in Nat
    /\ out \in Seq(Frames)

InHand(b) == IF b THEN 1 ELSE 0

\* Frames held for reordering, or popped and not yet written.
InHands == InHand(held_ # 0) + InHand(wpc = "emit") + InHand(mpc = "flushEmit")

\* The dispatches left that are not of an extra copy, which is counted when it is made.
Undispatched == {i \in DOMAIN todo : todo[i].then # "duplicated"}

\* Every frame given to process(), and every extra copy, is in one place: counted
\* as forwarded or dropped, queued, held for reordering, or in a thread's hand.
Accounting ==
    processed + stats_.duplicated =
        stats_.forwarded + stats_.dropped + Cardinality(delayed_) + InHands + Cardinality(Undispatched)

\* No lost wake-up: the worker of worker_loop() never sleeps past the time the
\* first queued frame is due, nor past stop_, unless a notification is on its way.
NoLostWakeup ==
    mpc \notin {"notify", "stopNotify"} =>
        /\ wpc = "sleep" => delayed_ = {} /\ ~stop_
        /\ wpc = "timed" => ~stop_ /\ \A d \in delayed_ : wdue <= d.due

\* A frame the delay queue took is written in the end, whichever of the worker,
\* flush() and the destructor comes first, unless its target is closed before.
EventuallyWritten ==
    \A n \in 1 .. MaxFrames :
        (\E d \in delayed_ : d.frame = n) ~> (~linkUp \/ \E i \in DOMAIN out : out[i] = n)

\* The destructor returns: its join() is never left waiting for a sleeping worker.
DestructorReturns == mpc = "stopNotify" ~> mpc = "destroyed"

\* Once the engine is destroyed its thread never calls the write callback again,
\* whose captures may be gone.
NoWriteAfterDestroyed == [][mpc = "destroyed" => UNCHANGED <<out, stats_>>]_vars

\* The restart hook fires at most once for a stream in the window of a restart rule for
\* it, however many frames and other rules fall into it.  (It may not fire at all: see
\* HookFires.)
HookOncePerWindow ==
    \A r \in rules_, s \in Streams : r.kind = "ProcessRestart" /\ r.stream \in {s, Any} =>
        Cardinality({c \in restarts : c[1] = s /\ c[2] >= r.start /\ c[2] < r.start + r.duration}) <= 1

\* A call of process() had a rule of that kind active.
Under(c, k) == \E r \in ActiveAt(c[1], c[2]) : r.kind = k

\* A frame under a restart rule has had its restart: with that frame, or with an earlier
\* one of the stream since which every frame of it has had some rule active, of any kind.
\* So a window that is reached without a frame under no rule gets no restart of its own.
HookFires ==
    \A c \in calls : Under(c, "ProcessRestart") =>
        \E d \in restarts :
            /\ d[1] = c[1] /\ d[3] <= c[3]
            /\ \A e \in calls : e[1] = c[1] /\ d[3] <= e[3] /\ e[3] <= c[3] => ActiveAt(e[1], e[2]) # {}

\* A bandwidth rule that covers all sending lets through no more than the full
\* bucket it starts with and what has been refilled since.
BudgetRespected ==
    \A r \in rules_ :
        /\ r.kind = "BandwidthLimit" /\ r.stream = Any
        /\ r.start <= 1 /\ r.start + r.duration > LastSend
        => processed - stats_.dropped <= r.bandwidth * now

\* What process() says of a frame it holds back, "it goes out after the next": no later
\* frame has gone out without it but one that came when no reorder rule was active, the
\* window having ended with the frame still held.
HeldNotOvertaken ==
    held_ # 0 =>
        \A i \in DOMAIN out :
            \/ out[i] < held_
            \/ out[i] > held_ /\ \A c \in calls : c[3] = out[i] => ~Under(c, "Reorder")

\* The frames of a run are all there, each in one place, and those in hand are real.
Inv == TypeOK /\ Accounting

\* The rules with a memory, over whole runs and windows that begin, end, overlap and
\* adjoin: when the restart hook fires, what the bandwidth limit lets through, and which
\* frames pass a held one.
RulesKept == HookOncePerWindow /\ HookFires /\ BudgetRespected /\ HeldNotOvertaken

\* The engine ends cleanly: what it delayed is written, the destructor returns, and
\* nothing is written afterwards.
EndsCleanly == EventuallyWritten /\ DestructorReturns /\ NoWriteAfterDestroyed
=============================================================================
