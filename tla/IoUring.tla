------------------------------ MODULE IoUring ------------------------------
(***************************************************************************)
(* The io_uring datagram interface (network_interfaces/                    *)
(* iouring_interface.cpp): a fixed pool of receive slots that a completion *)
(* thread hands to recv_cb_ and arms again, a pool of send slots reused by *)
(* rotation, and one submission queue for both.                            *)
(*                                                                         *)
(* Threads: "exec" opens, writes and closes; "worker", the fault engine's, *)
(* writes; "cq" runs completion_loop.  liburing gives the submission queue *)
(* no lock: io_uring_get_sqe loads and stores sqe_tail in two steps, and   *)
(* the kernel takes whatever the entries hold at io_uring_submit.  The     *)
(* kernel reads a send slot when it completes the send.                    *)
(***************************************************************************)
EXTENDS Naturals, Sequences, FiniteSets

CONSTANTS kNumRecvBuffers, kNumSendBuffers,
          Entries,       \* size of the submission queue
          Uses,          \* how a bridge may use it: records [writers, writes, arrivals],
                         \* the last two bounding the datagrams written and arrived
          MaxWrites,     \* bound: datagrams written by any of them
          MaxOpens       \* bound: calls of open()

ASSUME PoolAssumption ==
    /\ kNumRecvBuffers \in Nat \ {0} /\ kNumSendBuffers \in Nat \ {0} /\ Entries \in Nat \ {0}
    /\ kNumRecvBuffers + kNumSendBuffers <= Entries /\ MaxWrites \in Nat /\ MaxOpens \in Nat
    /\ \A u \in Uses : /\ u.writers \subseteq {"exec", "worker"}
                        /\ u.writes \in 0 .. MaxWrites /\ u.arrivals \in Nat

VARIABLES
    use,                           \* the bridge's configuration
    ready_, failed_, running_, ring_ready_, shutdown, opens,
    next_send_slot_, sendBuf, recvBuf,
    sqe_tail, khead, entries,      \* the submission queue
    inflight,                      \* operations the kernel holds: a bag
    cq,                            \* completions: records [op, ok]
    pc, mine, op,                  \* per thread: next step, loaded tail, operation to queue
    written, arrived,              \* datagrams written and arrived; they are numbered
    wire, delivered                \* sent, as records [meant, sent]; given to recv_cb_

flags  == <<ready_, failed_, running_, ring_ready_, shutdown, opens>>
queue  == <<sqe_tail, khead, entries>>
kernel == <<inflight, cq>>
thread == <<pc, mine, op>>
pools  == <<next_send_slot_, sendBuf, recvBuf>>
hist   == <<written, arrived, wire, delivered>>
vars   == <<use, flags, pools, queue, kernel, thread, hist>>

Threads   == {"exec", "worker", "cq"}
RecvSlots == 0 .. kNumRecvBuffers - 1
SendSlots == 0 .. kNumSendBuffers - 1
Nop       == [kind |-> "nop", slot |-> 0, item |-> 0]
Recv(s)   == [kind |-> "recv", slot |-> s, item |-> 0]
Send(s, n) == [kind |-> "send", slot |-> s, item |-> n]
Ops       == {Nop} \cup {Recv(s) : s \in RecvSlots}
                   \cup {Send(s, n) : s \in SendSlots, n \in 1 .. MaxWrites}

Init ==
    /\ use \in Uses
    /\ ready_ = FALSE /\ failed_ = FALSE /\ running_ = FALSE /\ ring_ready_ = FALSE
    /\ shutdown = FALSE /\ opens = 0
    /\ next_send_slot_ = 0
    /\ sendBuf = [s \in SendSlots |-> 0] /\ recvBuf = [s \in RecvSlots |-> 0]
    /\ sqe_tail = 0 /\ khead = 0 /\ entries = [i \in 0 .. Entries - 1 |-> Nop]
    /\ inflight = [o \in Ops |-> 0] /\ cq = << >>
    /\ pc = [t \in Threads |-> CASE t = "cq" -> "done" [] t = "exec" -> "open" [] OTHER -> "idle"]
    /\ mine = [t \in Threads |-> 0] /\ op = [t \in Threads |-> Nop]
    /\ written = 0 /\ arrived = 0 /\ wire = << >> /\ delivered = << >>

-----------------------------------------------------------------------------
(* open() and close(), called by the health timer and by shutdown()        *)

\* open() clears failed_; a socket, the bind or the ring cannot be had.
OpenFails ==
    /\ pc["exec"] = "open" /\ opens < MaxOpens
    /\ opens' = opens + 1
    /\ failed_' = TRUE /\ ready_' = FALSE
    /\ pc' = [pc EXCEPT !["exec"] = "idle"]
    /\ UNCHANGED <<use, running_, ring_ready_, shutdown, pools, queue, kernel, mine, op, hist>>

\* The pools are allocated and every receive slot is armed before there is a
\* second thread and before ready_ lets a writer in.
Open ==
    /\ pc["exec"] = "open" /\ opens < MaxOpens
    /\ opens' = opens + 1
    /\ failed_' = FALSE /\ ready_' = TRUE /\ running_' = TRUE /\ ring_ready_' = TRUE
    /\ sendBuf' = [s \in SendSlots |-> 0] /\ recvBuf' = [s \in RecvSlots |-> 0]
    /\ entries' = [i \in 0 .. Entries - 1 |-> IF i \in RecvSlots THEN Recv(i) ELSE Nop]
    /\ sqe_tail' = kNumRecvBuffers /\ khead' = kNumRecvBuffers
    /\ inflight' = [o \in Ops |-> IF o.kind = "recv" THEN 1 ELSE 0] /\ cq' = << >>
    /\ pc' = [pc EXCEPT !["cq"] = "loop", !["exec"] = "idle"]
    /\ UNCHANGED <<use, shutdown, next_send_slot_, mine, op, hist>>

\* The health timer closes what has failed, shutdown() whatever there is.
CloseBegins ==
    /\ pc["exec"] = "idle" /\ ~shutdown
    /\ shutdown' \in {~(failed_ /\ opens < MaxOpens), TRUE}
    /\ running_' = FALSE
    /\ pc' = [pc EXCEPT !["exec"] = "join"]
    /\ UNCHANGED <<use, ready_, failed_, ring_ready_, opens, pools, queue, kernel, mine, op, hist>>

\* Test seeding: the completion thread is not waited for.
CloseNoJoin ==
    /\ pc["exec"] = "join"
    /\ pc' = [pc EXCEPT !["exec"] = "exit"]
    /\ UNCHANGED <<use, flags, pools, queue, kernel, mine, op, hist>>

CloseJoins ==
    /\ pc["exec"] = "join" /\ pc["cq"] = "done"
    /\ pc' = [pc EXCEPT !["exec"] = "exit"]
    /\ UNCHANGED <<use, flags, pools, queue, kernel, mine, op, hist>>

\* io_uring_queue_exit ends what is in flight.
CloseRing ==
    /\ pc["exec"] = "exit"
    /\ ring_ready_' = FALSE
    /\ inflight' = [o \in Ops |-> 0] /\ cq' = << >>
    /\ pc' = [pc EXCEPT !["exec"] = "close"]
    /\ UNCHANGED <<use, ready_, failed_, running_, shutdown, opens, pools, queue, mine, op, hist>>

\* The last store of close(); the health timer opens again.
CloseEnds ==
    /\ pc["exec"] = "close"
    /\ ready_' = FALSE
    /\ pc' = [pc EXCEPT !["exec"] = IF shutdown THEN "idle" ELSE "open"]
    /\ UNCHANGED <<use, failed_, running_, ring_ready_, shutdown, opens, pools, queue, kernel,
                   mine, op, hist>>

-----------------------------------------------------------------------------
(* Submission, by any thread                                               *)

\* io_uring_get_sqe finds room and loads sqe_tail.
GetSqe(t) ==
    /\ pc[t] = "get" /\ ring_ready_
    /\ sqe_tail >= khead /\ sqe_tail + 1 - khead <= Entries
    /\ mine' = [mine EXCEPT ![t] = sqe_tail]
    /\ pc' = [pc EXCEPT ![t] = "take"]
    /\ UNCHANGED <<use, flags, pools, queue, kernel, op, hist>>

\* No entry: a send is dropped, a receive slot is left as it is.  The indices
\* are unsigned: a tail behind the head looks like a full queue.
SqFull(t) ==
    /\ pc[t] = "get" /\ ring_ready_
    /\ sqe_tail < khead \/ sqe_tail + 1 - khead > Entries
    /\ pc' = [pc EXCEPT ![t] = IF t = "cq" THEN "submit" ELSE "idle"]
    /\ UNCHANGED <<use, flags, pools, queue, kernel, mine, op, hist>>

\* It stores the tail it loaded, advanced, and the entry is filled.
TakeSqe(t) ==
    /\ pc[t] = "take" /\ ring_ready_
    /\ sqe_tail' = mine[t] + 1
    /\ pc' = [pc EXCEPT ![t] = "prep"]
    /\ UNCHANGED <<use, flags, pools, khead, entries, kernel, mine, op, hist>>

Prep(t) ==
    /\ pc[t] = "prep" /\ ring_ready_
    /\ entries' = [entries EXCEPT ![mine[t] % Entries] = op[t]]
    /\ pc' = [pc EXCEPT ![t] = "submit"]
    /\ UNCHANGED <<use, flags, pools, sqe_tail, khead, kernel, mine, op, hist>>

\* io_uring_submit: the kernel takes every entry up to sqe_tail.
Submit(t) ==
    LET n == IF sqe_tail >= khead THEN sqe_tail - khead ELSE Entries
        taken == [o \in Ops |-> Cardinality({i \in khead .. khead + n - 1 :
                                               entries[i % Entries] = o})]
    IN  /\ pc[t] = "submit" /\ ring_ready_
        /\ inflight' = [o \in Ops |-> inflight[o] + taken[o]]
        /\ khead' = khead + n
        /\ pc' = [pc EXCEPT ![t] = IF t = "cq" THEN "loop" ELSE "idle"]
        /\ UNCHANGED <<use, flags, pools, sqe_tail, entries, cq, mine, op, hist>>

\* Test seeding: every send uses the first slot.
AcquireFirst(n) == 0

\* acquire_send_slot.
Acquire(n) == n % kNumSendBuffers

\* write(): the datagram is copied into the next slot, free or not.  (One that is larger than
\* a slot is dropped before anything changes: a step that stutters.)
WriteBegins(t) ==
    LET s == Acquire(next_send_slot_)
    IN  /\ t \in use.writers /\ pc[t] = "idle" /\ written < use.writes
        /\ ready_ /\ ~failed_
        /\ written' = written + 1
        /\ next_send_slot_' = next_send_slot_ + 1
        /\ sendBuf' = [x \in DOMAIN sendBuf \cup {s} |-> IF x = s THEN written' ELSE sendBuf[x]]
        /\ op' = [op EXCEPT ![t] = Send(s, written')]
        /\ pc' = [pc EXCEPT ![t] = "get"]
        /\ UNCHANGED <<use, flags, recvBuf, queue, kernel, mine, arrived, wire, delivered>>

-----------------------------------------------------------------------------
(* completion_loop                                                         *)

\* Test seeding: a failed receive is not armed again.
CqReceivesOnce(c) ==
    /\ delivered' = IF c.ok THEN Append(delivered, recvBuf[c.op.slot]) ELSE delivered
    /\ op' = [op EXCEPT !["cq"] = c.op]
    /\ pc' = [pc EXCEPT !["cq"] = IF c.ok THEN "get" ELSE "loop"]

\* A receive: recv_cb_ gets the datagram, then the slot is armed again.
CqReceives(c) ==
    /\ delivered' = IF c.ok THEN Append(delivered, recvBuf[c.op.slot]) ELSE delivered
    /\ op' = [op EXCEPT !["cq"] = c.op]
    /\ pc' = [pc EXCEPT !["cq"] = "get"]

\* A completion is taken; those of sends need no action.
CqTakes ==
    /\ pc["cq"] = "loop" /\ running_ /\ cq # << >>
    /\ cq' = Tail(cq)
    /\ IF Head(cq).op.kind = "recv" THEN CqReceives(Head(cq))
                                    ELSE UNCHANGED <<delivered, op, pc>>
    /\ UNCHANGED <<use, flags, pools, queue, inflight, mine, written, arrived, wire>>

\* Test seeding: the wait for a completion has no timeout.
CqExitsOnCompletion ==
    /\ pc["cq"] = "loop" /\ ~running_ /\ cq # << >>
    /\ pc' = [pc EXCEPT !["cq"] = "done"]
    /\ UNCHANGED <<use, flags, pools, queue, kernel, mine, op, hist>>

\* The wait times out and running_ is seen to be false.
CqExits ==
    /\ pc["cq"] = "loop" /\ ~running_
    /\ pc' = [pc EXCEPT !["cq"] = "done"]
    /\ UNCHANGED <<use, flags, pools, queue, kernel, mine, op, hist>>

-----------------------------------------------------------------------------
(* The kernel                                                              *)

Done(o, ok) ==
    /\ inflight[o] > 0
    /\ inflight' = [inflight EXCEPT ![o] = @ - 1]
    /\ cq' = Append(cq, [op |-> o, ok |-> ok])

SendDone(o) ==
    /\ o.kind = "send" /\ Done(o, TRUE)
    /\ wire' = Append(wire, [meant |-> o.item, sent |-> sendBuf[o.slot]])
    /\ UNCHANGED <<use, flags, pools, queue, thread, written, arrived, delivered>>

NopDone ==
    /\ Done(Nop, TRUE)
    /\ UNCHANGED <<use, flags, pools, queue, thread, hist>>

\* A datagram fills the slot; or it is empty or an error, and res is not positive.
RecvDone(o, ok) ==
    /\ o.kind = "recv" /\ arrived < use.arrivals
    /\ Done(o, ok)
    /\ arrived' = arrived + 1
    /\ recvBuf' = IF ok THEN [recvBuf EXCEPT ![o.slot] = arrived'] ELSE recvBuf
    /\ UNCHANGED <<use, flags, next_send_slot_, sendBuf, queue, thread, written, wire, delivered>>

-----------------------------------------------------------------------------
SubmitStep(t) == GetSqe(t) \/ SqFull(t) \/ TakeSqe(t) \/ Prep(t) \/ Submit(t)
ExecStep == SubmitStep("exec") \/ CloseJoins \/ CloseRing \/ CloseEnds
CqStep   == SubmitStep("cq") \/ CqTakes \/ CqExits
Kernel   == (\E o \in Ops : SendDone(o) \/ RecvDone(o, TRUE) \/ RecvDone(o, FALSE)) \/ NopDone

Next ==
    \/ OpenFails \/ Open \/ CloseBegins
    \/ \E t \in {"exec", "worker"} : WriteBegins(t)
    \/ ExecStep \/ SubmitStep("worker") \/ CqStep \/ Kernel

Spec == Init /\ [][Next]_vars

\* The threads run.  The kernel owes nothing.
FairSpec == Spec /\ WF_vars(ExecStep) /\ WF_vars(CqStep)

-----------------------------------------------------------------------------
(* Properties                                                              *)

\* Types; send slots are slots of the pool.
TypeOK ==
    /\ use \in Uses /\ ready_ \in BOOLEAN /\ failed_ \in BOOLEAN /\ running_ \in BOOLEAN
    /\ ring_ready_ \in BOOLEAN /\ shutdown \in BOOLEAN
    /\ opens \in Nat /\ next_send_slot_ \in Nat
    /\ written \in 0 .. use.writes /\ arrived \in 0 .. use.arrivals
    /\ sendBuf \in [SendSlots -> 0 .. use.writes] /\ recvBuf \in [RecvSlots -> 0 .. use.arrivals]
    /\ sqe_tail \in Nat /\ khead \in Nat /\ entries \in [0 .. Entries - 1 -> Ops]
    /\ inflight \in [Ops -> Nat] /\ cq \in Seq([op : Ops, ok : BOOLEAN])
    /\ pc \in [Threads -> {"idle", "get", "take", "prep", "submit", "loop", "done",
                           "join", "exit", "close", "open"}]
    /\ mine \in [Threads -> Nat] /\ op \in [Threads -> Ops]
    /\ delivered \in Seq(Nat) /\ wire \in Seq([meant : Nat, sent : Nat])

\* Submission by one thread at a time.
Alone == use.writers = {} \/ (use.writers = {"exec"} /\ use.arrivals = 0)

\* Where a receive slot can be: with the kernel, completed, or in the completion
\* thread's hands.
Places(s) == inflight[Recv(s)]
             + Cardinality({i \in DOMAIN cq : cq[i].op = Recv(s)})
             + (IF pc["cq"] \in {"get", "take", "prep", "submit"} /\ op["cq"] = Recv(s)
                THEN 1 ELSE 0)

\* No receive slot is lost or armed twice, whatever the receives come to, as long
\* as the completion thread has the submission queue to itself.
SlotsStayArmed == ring_ready_ /\ Alone => \A s \in RecvSlots : Places(s) = 1

\* What arrives reaches recv_cb_ at most once and in the order of arrival: no slot is
\* armed again before its datagram has been handed over.
DeliveredInOrder ==
    Alone => \A i, j \in DOMAIN delivered : i < j => delivered[i] < delivered[j]

\* Every datagram goes out at most once, and with its own bytes unless the rotation
\* has come around: only a datagram written kNumSendBuffers or more later can have
\* taken its slot.
SentIntact ==
    Alone => /\ \A i \in DOMAIN wire : \/ wire[i].sent = wire[i].meant
                                       \/ wire[i].sent >= wire[i].meant + kNumSendBuffers
             /\ \A i, j \in DOMAIN wire : i # j => wire[i].meant # wire[j].meant

\* No thread works on the ring once close() has torn it down, if the interface is
\* written to by the thread that closes it.
NoUseAfterExit ==
    "worker" \notin use.writers =>
        \A t \in Threads : pc[t] \in {"get", "take", "prep", "submit", "loop"} => ring_ready_

\* close() returns: the completion thread sees running_ go false, also when nothing
\* completes any more.
CloseReturns == pc["exec"] = "join" ~> pc["exec"] \in {"idle", "open"}

\* The threads work on slots of the pools, and on a ring that exists.
Inv == TypeOK /\ NoUseAfterExit

\* Receiving goes on: each slot is in one place, and what it brings is handed over once
\* and in order.
Receives == SlotsStayArmed /\ DeliveredInOrder
=============================================================================
