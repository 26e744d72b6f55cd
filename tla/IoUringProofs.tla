---------------------------- MODULE IoUringProofs ----------------------------
(***************************************************************************)
(* Proofs about IoUring for every size of the pools and of the submission  *)
(* queue, every use of the interface and any number of datagrams.          *)
(***************************************************************************)
EXTENDS IoUring, SequenceTheorems, FiniteSetTheorems, TLAPS

-----------------------------------------------------------------------------
(* The inductive invariant                                                 *)

Submitting == {"get", "take", "prep", "submit"}

\* Where each thread can be.  The completion thread runs only on a ring that exists, and
\* close() waits for it; the executor writes only while ready_ stands for a ring.
Control ==
    /\ pc["exec"] \in Submitting \cup {"open", "idle", "join", "exit", "close"}
    /\ pc["worker"] \in Submitting \cup {"idle"}
    /\ pc["cq"] \in Submitting \cup {"loop", "done"}
    /\ pc["cq"] # "done" => ring_ready_ /\ pc["exec"] \notin {"open", "exit", "close"}
    /\ pc["exec"] \in Submitting => ring_ready_
    /\ pc["exec"] = "idle" /\ ready_ => ring_ready_
    /\ \A t \in {"exec", "worker"} : t \notin use.writers => pc[t] \notin Submitting
    /\ next_send_slot_ = written

\* Without arrivals nothing is received, and the completion thread submits nothing.
NoArrivals ==
    use.arrivals = 0 => /\ \A i \in DOMAIN cq : cq[i].op.kind # "recv"
                        /\ pc["cq"] \notin Submitting /\ delivered = << >>

\* The kernel holds operations of a ring that exists.
NothingHeld == ~ring_ready_ => \A o \in Ops : inflight[o] = 0

\* A thread that submits alone finds the queue empty, and its entry where it put it.
QueueAlone ==
    /\ (\A t \in Threads : pc[t] \notin {"prep", "submit"}) => sqe_tail = khead
    /\ \A t \in Threads :
         /\ pc[t] = "take" => mine[t] = sqe_tail
         /\ pc[t] \in {"prep", "submit"} => sqe_tail = khead + 1 /\ mine[t] = khead
         /\ pc[t] = "submit" => entries[khead % Entries] = op[t]
    /\ pc["cq"] \in Submitting => op["cq"].kind = "recv"

IsDatagram(i) == cq[i].op.kind = "recv" /\ cq[i].ok

Held(i) == recvBuf[cq[i].op.slot]

\* Completed datagrams still have their bytes, and come after what was delivered.
Arrivals ==
    /\ \A i, j \in DOMAIN delivered : i < j => delivered[i] < delivered[j]
    /\ \A i \in DOMAIN delivered : delivered[i] <= arrived
    /\ \A i \in DOMAIN cq : IsDatagram(i) =>
         /\ Held(i) <= arrived
         /\ \A k \in DOMAIN delivered : delivered[k] < Held(i)
    /\ \A i, j \in DOMAIN cq : i < j /\ IsDatagram(i) /\ IsDatagram(j) => Held(i) < Held(j)

\* The slot that datagram n is written to.
SlotOf(n) == (n - 1) % kNumSendBuffers

Meant == {wire[i].meant : i \in DOMAIN wire}

\* A send in flight is one of a kind and not on the wire yet; its slot holds its bytes or
\* those of a later turn of the rotation.
Departures ==
    /\ \A s \in SendSlots : sendBuf[s] # 0 => sendBuf[s] <= written /\ SlotOf(sendBuf[s]) = s
    /\ \A s \in SendSlots, n \in 1 .. MaxWrites : inflight[Send(s, n)] > 0 =>
         /\ inflight[Send(s, n)] = 1 /\ s = SlotOf(n) /\ n <= written
         /\ sendBuf[s] >= n /\ n \notin Meant
    /\ pc["exec"] \in Submitting =>
         /\ written > 0 /\ op["exec"] = Send(SlotOf(written), written)
         /\ sendBuf[SlotOf(written)] = written
         /\ inflight[Send(SlotOf(written), written)] = 0 /\ written \notin Meant
    /\ \A n \in Meant : n \in 1 .. written
    /\ \A i, j \in DOMAIN wire : i # j => wire[i].meant # wire[j].meant
    /\ \A i \in DOMAIN wire : \/ wire[i].sent = wire[i].meant
                              \/ wire[i].sent >= wire[i].meant + kNumSendBuffers

\* The inductive invariant.
IInv == /\ TypeOK /\ Control /\ NoArrivals /\ NothingHeld
        /\ Alone => QueueAlone /\ SlotsStayArmed /\ Arrivals /\ Departures

-----------------------------------------------------------------------------
(* Operations and completions                                              *)

Completions == [op : Ops, ok : BOOLEAN]

\* The completions of o in the queue q.
Completed(q, o) == {i \in DOMAIN q : q[i].op = o}

LEMMA OpFacts ==
    /\ Nop \in Ops /\ Nop.kind = "nop"
    /\ \A s \in RecvSlots : Recv(s) \in Ops /\ Recv(s).kind = "recv" /\ Recv(s).slot = s
    /\ \A s \in SendSlots, n \in 1 .. MaxWrites :
         Send(s, n) \in Ops /\ Send(s, n).kind = "send" /\ Send(s, n).slot = s /\ Send(s, n).item = n
    /\ \A o \in Ops : o.kind = "recv" => o.slot \in RecvSlots /\ o = Recv(o.slot)
    /\ \A o \in Ops : o.kind = "send" => /\ o.slot \in SendSlots /\ o.item \in 1 .. MaxWrites
                                         /\ o = Send(o.slot, o.item)
<1>1. Nop \in Ops /\ Nop.kind = "nop"
  BY DEF Ops, Nop
<1>2. \A s \in RecvSlots : Recv(s) \in Ops /\ Recv(s).kind = "recv" /\ Recv(s).slot = s
  BY DEF Ops, Recv
<1>3. \A s \in SendSlots, n \in 1 .. MaxWrites :
        Send(s, n) \in Ops /\ Send(s, n).kind = "send" /\ Send(s, n).slot = s /\ Send(s, n).item = n
  BY DEF Ops, Send
<1>4. \A o \in Ops : o = Nop \/ (\E s \in RecvSlots : o = Recv(s))
                             \/ (\E s \in SendSlots, n \in 1 .. MaxWrites : o = Send(s, n))
  BY DEF Ops
<1> QED BY <1>1, <1>2, <1>3, <1>4

LEMMA CompletedCounts ==
    ASSUME NEW q \in Seq(Completions), NEW o
    PROVE  IsFiniteSet(Completed(q, o)) /\ Cardinality(Completed(q, o)) \in Nat
<1>1. IsFiniteSet(DOMAIN q) /\ Completed(q, o) \subseteq DOMAIN q
  <2>1. Len(q) \in Nat /\ DOMAIN q = 1 .. Len(q)
    OBVIOUS
  <2>2. IsFiniteSet(1 .. Len(q))
    BY <2>1, FS_Interval
  <2> QED BY <2>1, <2>2 DEF Completed
<1> QED BY <1>1, FS_Subset, FS_CardinalityType

LEMMA CompletedEmpty ==
    ASSUME NEW o PROVE Cardinality(Completed(<< >>, o)) = 0
<1>1. Completed(<< >>, o) = {}
  BY DEF Completed
<1> QED BY <1>1, FS_EmptySet

LEMMA CompletedAppend ==
    ASSUME NEW q \in Seq(Completions), NEW e \in Completions, NEW o
    PROVE  Cardinality(Completed(Append(q, e), o)) =
             Cardinality(Completed(q, o)) + (IF e.op = o THEN 1 ELSE 0)
<1>1. /\ Len(q) \in Nat /\ DOMAIN q = 1 .. Len(q) /\ DOMAIN Append(q, e) = 1 .. Len(q) + 1
      /\ \A i \in 1 .. Len(q) : Append(q, e)[i] = q[i]
      /\ Append(q, e)[Len(q) + 1] = e
  OBVIOUS
<1>2. CASE e.op = o
  <2>1. Completed(Append(q, e), o) = Completed(q, o) \cup {Len(q) + 1} /\ Len(q) + 1 \notin Completed(q, o)
    BY <1>1, <1>2 DEF Completed
  <2> QED BY <1>2, <2>1, CompletedCounts, FS_AddElement, ZenonT(60)
<1>3. CASE e.op # o
  <2>1. Completed(Append(q, e), o) = Completed(q, o)
    BY <1>1, <1>3 DEF Completed
  <2> QED BY <1>3, <2>1, CompletedCounts
<1> QED BY <1>2, <1>3

LEMMA CompletedTail ==
    ASSUME NEW q \in Seq(Completions), q # << >>, NEW o
    PROVE  Cardinality(Completed(q, o)) =
             Cardinality(Completed(Tail(q), o)) + (IF Head(q).op = o THEN 1 ELSE 0)
<1> DEFINE A == Completed(q, o)
           B == Completed(Tail(q), o)
           f == [i \in B |-> i + 1]
<1>1. /\ Len(q) \in Nat \ {0} /\ DOMAIN q = 1 .. Len(q) /\ Head(q) = q[1]
      /\ Tail(q) \in Seq(Completions) /\ DOMAIN Tail(q) = 1 .. Len(q) - 1
      /\ \A i \in 1 .. Len(q) - 1 : Tail(q)[i] = q[i + 1]
  OBVIOUS
<1>2. IsFiniteSet(A) /\ IsFiniteSet(B) /\ Cardinality(A) \in Nat /\ Cardinality(B) \in Nat
  BY <1>1, CompletedCounts
<1>3. Cardinality(B) = Cardinality(A \ {1})
  <2>1. \A i \in B : i \in Nat /\ f[i] = i + 1 /\ f[i] \in A \ {1}
    BY <1>1 DEF Completed
  <2>2. f \in [B -> A \ {1}]
    BY <2>1
  <2>3. \A i, j \in B : f[i] = f[j] => i = j
    BY <2>1
  <2>4. ASSUME NEW k \in A \ {1} PROVE \E i \in B : f[i] = k
    <3>1. k - 1 \in B /\ f[k - 1] = k
      BY <1>1, <2>4 DEF Completed
    <3> QED BY <3>1
  <2>5. f \in Bijection(B, A \ {1})
    BY <2>2, <2>3, <2>4 DEF Bijection, Injection, Surjection, IsInjective
  <2>6. ExistsBijection(B, A \ {1})
    BY <2>5 DEF ExistsBijection
  <2> QED BY <1>2, <2>5, <2>6, FS_Bijection
<1>4. CASE Head(q).op = o
  <2>1. 1 \in A
    BY <1>1, <1>4 DEF Completed
  <2>2. Cardinality(A \ {1}) = Cardinality(A) - 1
    BY <1>2, <2>1, FS_RemoveElement
  <2>3. Cardinality(A) = Cardinality(B) + 1
    <3> HIDE DEF A, B
    <3> QED BY <1>2, <1>3, <2>2
  <2> QED BY <1>4, <2>3
<1>5. CASE Head(q).op # o
  <2>1. 1 \notin A
    BY <1>1, <1>5 DEF Completed
  <2>2. Cardinality(A \ {1}) = Cardinality(A)
    BY <1>2, <2>1, FS_RemoveElement
  <2>3. Cardinality(A) = Cardinality(B) + 0
    <3> HIDE DEF A, B
    <3> QED BY <1>2, <1>3, <2>2
  <2> QED BY <1>5, <2>3
<1> QED BY <1>4, <1>5

LEMMA NextCases ==
    ASSUME Next
    PROVE  \/ OpenFails \/ Open \/ CloseBegins \/ CloseJoins \/ CloseRing \/ CloseEnds
           \/ \E t \in {"exec", "worker"} : WriteBegins(t)
           \/ \E t \in Threads : GetSqe(t) \/ SqFull(t) \/ TakeSqe(t) \/ Prep(t) \/ Submit(t)
           \/ CqTakes \/ CqExits \/ NopDone
           \/ \E o \in Ops : SendDone(o)
           \/ \E o \in Ops, ok \in BOOLEAN : RecvDone(o, ok)
<1>1. TRUE \in BOOLEAN /\ FALSE \in BOOLEAN /\ "exec" \in Threads /\ "worker" \in Threads /\ "cq" \in Threads
  BY DEF Threads
<1> QED BY <1>1, Zenon DEF Next, ExecStep, CqStep, SubmitStep, Kernel

-----------------------------------------------------------------------------
(* The initial states                                                      *)

LEMMA InitIInv == Init => IInv
<1> SUFFICES ASSUME Init PROVE IInv
  OBVIOUS
<1>1. TypeOK
  <2>1. /\ use \in Uses /\ ready_ \in BOOLEAN /\ failed_ \in BOOLEAN /\ running_ \in BOOLEAN
        /\ ring_ready_ \in BOOLEAN /\ shutdown \in BOOLEAN
    BY Zenon DEF Init
  <2>2. use.writes \in Nat /\ use.arrivals \in Nat
    BY <2>1, PoolAssumption
  <2>3. entries \in [0 .. Entries - 1 -> Ops] /\ inflight \in [Ops -> Nat] /\ op \in [Threads -> Ops]
    BY OpFacts DEF Init
  <2>4. /\ sendBuf \in [SendSlots -> 0 .. use.writes] /\ recvBuf \in [RecvSlots -> 0 .. use.arrivals]
        /\ mine \in [Threads -> Nat]
    BY <2>2 DEF Init
  <2>5. pc \in [Threads -> {"idle", "get", "take", "prep", "submit", "loop", "done",
                           "join", "exit", "close", "open"}]
    BY DEF Init, Threads
  <2> QED BY <2>1, <2>2, <2>3, <2>4, <2>5 DEF Init, TypeOK
<1>2. pc["exec"] = "open" /\ pc["worker"] = "idle" /\ pc["cq"] = "done"
  BY DEF Init, Threads
<1>3. Control /\ NoArrivals /\ NothingHeld
  BY <1>2 DEF Init, Control, NoArrivals, NothingHeld, Submitting
<1>4. QueueAlone /\ SlotsStayArmed /\ Arrivals
  BY <1>2 DEF Init, QueueAlone, Submitting, SlotsStayArmed, Arrivals, Threads
<1>5. Departures
  <2>1. Meant = {}
    BY DEF Init, Meant
  <2>2. \A s \in SendSlots, n \in 1 .. MaxWrites : inflight[Send(s, n)] = 0
    BY OpFacts DEF Init
  <2> QED BY <1>2, <2>1, <2>2 DEF Init, Departures, Submitting
<1> QED BY <1>1, <1>3, <1>4, <1>5 DEF IInv

-----------------------------------------------------------------------------
(* Types                                                                   *)

PcValues == {"idle", "get", "take", "prep", "submit", "loop", "done", "join", "exit", "close", "open"}

\* What the steps that carry data need of the types.
LEMMA TypeFacts ==
    ASSUME TypeOK
    PROVE  /\ use.writes \in Nat /\ use.writes <= MaxWrites /\ use.arrivals \in Nat
           /\ kNumRecvBuffers \in Nat \ {0} /\ kNumSendBuffers \in Nat \ {0} /\ Entries \in Nat \ {0}
           /\ Entries > 1 /\ MaxWrites \in Nat
           /\ use.writers \subseteq {"exec", "worker"}
<1>1. use \in Uses
  BY DEF TypeOK
<1> QED BY <1>1, PoolAssumption

LEMMA AcquireIsSlot ==
    ASSUME TypeOK, NEW n \in Nat PROVE Acquire(n) \in SendSlots
BY TypeFacts DEF Acquire, SendSlots

LEMMA TypeStep ==
    ASSUME TypeOK, Control, Next PROVE TypeOK'
<1>a. pc \in [Threads -> PcValues] /\ opens \in Nat
  BY DEF TypeOK, PcValues
<1>b. /\ {"idle", "get", "take", "prep", "submit", "loop", "done", "join", "exit", "close", "open"} = PcValues
      /\ Threads = {"exec", "worker", "cq"}
  BY DEF PcValues, Threads
<1>c. /\ inflight \in [Ops -> Nat] /\ cq \in Seq(Completions) /\ op \in [Threads -> Ops]
      /\ mine \in [Threads -> Nat] /\ sqe_tail \in Nat /\ khead \in Nat
      /\ next_send_slot_ \in Nat /\ written \in 0 .. use.writes
  BY DEF TypeOK, Completions
<1>d. Completions = [op : Ops, ok : BOOLEAN]
  BY DEF Completions
<1>1. CASE OpenFails \/ CloseBegins \/ CloseJoins \/ CloseRing \/ CloseEnds \/ CqExits
  <2>1. /\ ready_' \in BOOLEAN /\ failed_' \in BOOLEAN /\ running_' \in BOOLEAN
        /\ ring_ready_' \in BOOLEAN /\ shutdown' \in BOOLEAN
    BY <1>1, Zenon DEF TypeOK, OpenFails, CloseBegins, CloseJoins, CloseRing, CloseEnds, CqExits, flags
  <2>2. \E t \in Threads, v \in PcValues : pc' = [pc EXCEPT ![t] = v]
    BY <1>1, <1>b DEF OpenFails, CloseBegins, CloseJoins, CloseRing, CloseEnds, CqExits
  <2>3. opens' = opens \/ opens' = opens + 1
    BY <1>1 DEF OpenFails, CloseBegins, CloseJoins, CloseRing, CloseEnds, CqExits, flags
  <2>4. (inflight' = inflight /\ cq' = cq) \/ (inflight' = [o \in Ops |-> 0] /\ cq' = << >>)
    BY <1>1 DEF OpenFails, CloseBegins, CloseJoins, CloseRing, CloseEnds, CqExits, kernel
  <2>5. pc' \in [Threads -> PcValues] /\ opens' \in Nat
    BY <1>a, <2>2, <2>3
  <2>6. inflight' \in [Ops -> Nat] /\ cq' \in Seq(Completions)
    <3>1. CASE inflight' = inflight /\ cq' = cq
      BY <1>c, <3>1
    <3>2. CASE inflight' = [o \in Ops |-> 0] /\ cq' = << >>
      BY <3>2
    <3> QED BY <2>4, <3>1, <3>2
  <2>7. UNCHANGED <<use, pools, queue, mine, op, hist>>
    BY <1>1 DEF OpenFails, CloseBegins, CloseJoins, CloseRing, CloseEnds, CqExits
  <2> QED BY <1>b, <1>d, <2>1, <2>5, <2>6, <2>7 DEF TypeOK, pools, queue, hist
<1>2. CASE Open
  <2>1. /\ ready_' \in BOOLEAN /\ failed_' \in BOOLEAN /\ running_' \in BOOLEAN
        /\ ring_ready_' \in BOOLEAN /\ shutdown' \in BOOLEAN
    BY <1>2, Zenon DEF TypeOK, Open
  <2>2. pc' \in [Threads -> PcValues] /\ opens' \in Nat
    BY <1>2, <1>a, <1>b DEF Open
  <2>3. /\ inflight' \in [Ops -> Nat] /\ cq' \in Seq(Completions)
        /\ sqe_tail' \in Nat /\ khead' \in Nat /\ entries' \in [0 .. Entries - 1 -> Ops]
    BY <1>2, OpFacts, TypeFacts DEF Open
  <2>4. sendBuf' \in [SendSlots -> 0 .. use.writes] /\ recvBuf' \in [RecvSlots -> 0 .. use.arrivals]
    BY <1>2, TypeFacts DEF Open
  <2>5. UNCHANGED <<use, next_send_slot_, mine, op, hist>>
    BY <1>2 DEF Open
  <2> QED BY <1>b, <1>d, <2>1, <2>2, <2>3, <2>4, <2>5 DEF TypeOK, hist
<1>3. ASSUME NEW t \in {"exec", "worker"}, WriteBegins(t) PROVE TypeOK'
  <2>1. /\ written < use.writes /\ written' = written + 1 /\ next_send_slot_' = next_send_slot_ + 1
        /\ pc' = [pc EXCEPT ![t] = "get"]
        /\ op' = [op EXCEPT ![t] = Send(Acquire(next_send_slot_), written')]
        /\ sendBuf' = [x \in DOMAIN sendBuf \cup {Acquire(next_send_slot_)} |->
                         IF x = Acquire(next_send_slot_) THEN written' ELSE sendBuf[x]]
        /\ UNCHANGED <<use, flags, recvBuf, queue, kernel, mine, arrived, wire, delivered>>
    BY <1>3 DEF WriteBegins
  <2>2. Acquire(next_send_slot_) \in SendSlots /\ written' \in 0 .. use.writes /\ written' \in 1 .. MaxWrites
    BY <1>c, <2>1, AcquireIsSlot, TypeFacts
  <2>3. Send(Acquire(next_send_slot_), written') \in Ops
    BY <2>2, OpFacts
  <2>4. op' \in [Threads -> Ops] /\ pc' \in [Threads -> PcValues]
    BY <1>a, <1>b, <1>c, <2>1, <2>3
  <2>5. sendBuf' \in [SendSlots -> 0 .. use.writes]
    BY <2>1, <2>2 DEF TypeOK
  <2>6. next_send_slot_' \in Nat
    BY <1>c, <2>1
  <2> QED BY <1>b, <1>d, <2>1, <2>2, <2>4, <2>5, <2>6 DEF TypeOK, flags, queue, kernel
<1>4. ASSUME NEW t \in Threads, GetSqe(t) \/ SqFull(t) \/ TakeSqe(t) \/ Prep(t) PROVE TypeOK'
  <2>1. pc' \in [Threads -> PcValues]
    BY <1>4, <1>a, <1>b DEF GetSqe, SqFull, TakeSqe, Prep
  <2>4. mine' \in [Threads -> Nat] /\ sqe_tail' \in Nat
    BY <1>4, <1>c DEF GetSqe, SqFull, TakeSqe, Prep, queue
  <2>2. entries' \in [0 .. Entries - 1 -> Ops]
    BY <1>4 DEF TypeOK, GetSqe, SqFull, TakeSqe, Prep, queue
  <2>3. UNCHANGED <<use, flags, pools, khead, kernel, op, hist>>
    BY <1>4 DEF GetSqe, SqFull, TakeSqe, Prep, queue
  <2> QED BY <1>b, <1>d, <2>1, <2>2, <2>3, <2>4 DEF TypeOK, flags, pools, kernel, hist
<1>5. ASSUME NEW t \in Threads, Submit(t) PROVE TypeOK'
  <2> DEFINE n == IF sqe_tail >= khead THEN sqe_tail - khead ELSE Entries
             S(o) == {i \in khead .. khead + n - 1 : entries[i % Entries] = o}
  <2>1. n \in Nat /\ khead \in Nat
    BY TypeFacts DEF TypeOK
  <2>2. \A o \in Ops : Cardinality(S(o)) \in Nat
    <3>1. IsFiniteSet(khead .. khead + n - 1)
      BY <2>1, FS_Interval
    <3>2. \A o \in Ops : S(o) \subseteq khead .. khead + n - 1
      OBVIOUS
    <3> QED BY <3>1, <3>2, FS_Subset, FS_CardinalityType
  <2>3. inflight' = [o \in Ops |-> inflight[o] + Cardinality(S(o))] /\ khead' = khead + n
    BY <1>5 DEF Submit
  <2>4. inflight' \in [Ops -> Nat] /\ khead' \in Nat
    <3> HIDE DEF n, S
    <3> QED BY <2>1, <2>2, <2>3 DEF TypeOK
  <2>5. pc' \in [Threads -> PcValues] /\ UNCHANGED <<use, flags, pools, sqe_tail, entries, cq, mine, op, hist>>
    BY <1>5, <1>a, <1>b DEF Submit
  <2> QED BY <1>b, <1>d, <2>4, <2>5 DEF TypeOK, flags, pools, hist
<1>6. CASE CqTakes
  <2>1. /\ cq # << >> /\ cq' = Tail(cq)
        /\ UNCHANGED <<use, flags, pools, queue, inflight, mine, written, arrived, wire>>
    BY <1>6 DEF CqTakes
  <2>2. /\ Head(cq) \in Completions /\ cq' \in Seq(Completions)
    BY <1>c, <2>1
  <2>3. pc' \in [Threads -> PcValues] /\ op' \in [Threads -> Ops]
    BY <1>6, <1>a, <1>b, <1>c, <1>d, <2>2, ZenonT(40) DEF CqTakes, CqReceives
  <2>4. delivered' \in Seq(Nat)
    <3>0. recvBuf \in [RecvSlots -> 0 .. use.arrivals] /\ Head(cq).op \in Ops
      BY <1>d, <2>2 DEF TypeOK
    <3>1. Head(cq).op.kind = "recv" => recvBuf[Head(cq).op.slot] \in Nat
      BY <3>0, OpFacts, TypeFacts
    <3>2. delivered \in Seq(Nat)
      BY DEF TypeOK
    <3>3. \/ delivered' = delivered
          \/ Head(cq).op.kind = "recv" /\ delivered' = Append(delivered, recvBuf[Head(cq).op.slot])
      BY <1>6 DEF CqTakes, CqReceives
    <3> QED BY <3>1, <3>2, <3>3
  <2> QED BY <1>b, <1>d, <2>1, <2>2, <2>3, <2>4 DEF TypeOK, flags, pools, queue
<1>7. ASSUME NEW o \in Ops, NEW ok \in BOOLEAN, SendDone(o) \/ RecvDone(o, ok) \/ NopDone PROVE TypeOK'
  <2>0. Nop \in Ops /\ TRUE \in BOOLEAN
    BY OpFacts
  <2>1. PICK x \in Ops, b \in BOOLEAN : Done(x, b)
    BY <1>7, <2>0 DEF SendDone, RecvDone, NopDone
  <2>2. inflight' \in [Ops -> Nat]
    BY <2>1 DEF Done, TypeOK
  <2>3. cq' \in Seq(Completions)
    <3>1. [op |-> x, ok |-> b] \in Completions
      BY <1>d
    <3> QED BY <1>c, <2>1, <3>1 DEF Done
  <2>4. wire' \in Seq([meant : Nat, sent : Nat])
    <3>1. CASE SendDone(o)
      <4>1. o.kind = "send" /\ wire' = Append(wire, [meant |-> o.item, sent |-> sendBuf[o.slot]])
        BY <3>1 DEF SendDone
      <4>2. o.item \in Nat /\ sendBuf[o.slot] \in Nat
        <5>1. o.slot \in SendSlots /\ o.item \in 1 .. MaxWrites /\ MaxWrites \in Nat
          BY <4>1, OpFacts, TypeFacts
        <5>2. sendBuf \in [SendSlots -> 0 .. use.writes]
          BY DEF TypeOK
        <5>3. sendBuf[o.slot] \in 0 .. use.writes
          BY <5>1, <5>2
        <5> QED BY <5>1, <5>3
      <4> QED BY <4>1, <4>2 DEF TypeOK
    <3> QED BY <1>7, <3>1 DEF RecvDone, NopDone, hist, TypeOK
  <2>5. arrived' \in 0 .. use.arrivals /\ recvBuf' \in [RecvSlots -> 0 .. use.arrivals]
    <3>1. CASE RecvDone(o, ok)
      <4>1. /\ o.kind = "recv" /\ arrived < use.arrivals /\ arrived' = arrived + 1
            /\ recvBuf' = IF ok THEN [recvBuf EXCEPT ![o.slot] = arrived'] ELSE recvBuf
        BY <3>1 DEF RecvDone
      <4>2. arrived' \in 0 .. use.arrivals
        <5>1. PICK n \in Nat : n = use.arrivals /\ arrived \in 0 .. n
          BY TypeFacts DEF TypeOK
        <5>2. arrived < n
          BY <4>1, <5>1
        <5>3. arrived + 1 \in 0 .. n
          BY <5>1, <5>2
        <5> QED BY <4>1, <5>1, <5>3
      <4> QED BY <4>1, <4>2 DEF TypeOK
    <3> QED BY <1>7, <3>1 DEF SendDone, NopDone, hist, pools, TypeOK
  <2>6. UNCHANGED <<use, flags, next_send_slot_, sendBuf, queue, thread, written, delivered>>
    BY <1>7 DEF SendDone, RecvDone, NopDone, hist, pools
  <2> QED BY <1>d, <2>2, <2>3, <2>4, <2>5, <2>6 DEF TypeOK, flags, queue, thread
<1> QED
  <2>1. TRUE \in BOOLEAN /\ Nop \in Ops
    BY OpFacts
  <2> QED BY <1>1, <1>2, <1>3, <1>4, <1>5, <1>6, <1>7, <2>1, NextCases

-----------------------------------------------------------------------------
(* Control                                                                 *)

\* A thread's step and what it does to the program counters.
LEMMA PcSet ==
    ASSUME TypeOK, NEW t \in Threads, NEW v, pc' = [pc EXCEPT ![t] = v]
    PROVE  pc'[t] = v /\ \A u \in Threads \ {t} : pc'[u] = pc[u]
BY DEF TypeOK

LEMMA ThreadsAre ==
    /\ "exec" \in Threads /\ "worker" \in Threads /\ "cq" \in Threads
    /\ \A t \in Threads : t = "exec" \/ t = "worker" \/ t = "cq"
BY DEF Threads

LEMMA ControlStep ==
    ASSUME TypeOK, Control, Next PROVE Control'
<1>1. CASE OpenFails
  <2>1. /\ pc["exec"] = "open" /\ pc'["exec"] = "idle" /\ ready_' = FALSE
        /\ UNCHANGED <<pc["worker"], pc["cq"], use, ring_ready_, next_send_slot_, written>>
    BY <1>1, PcSet, ThreadsAre, ZenonT(40) DEF OpenFails, pools, hist
  <2> QED BY <2>1 DEF Control, Submitting
<1>2. CASE Open
  <2>1. /\ pc["exec"] = "open" /\ ring_ready_' = TRUE /\ pc'["exec"] = "idle" /\ pc'["cq"] = "loop"
        /\ UNCHANGED <<pc["worker"], use, next_send_slot_, written>>
    BY <1>2 DEF Open, hist, TypeOK, Threads
  <2> QED BY <2>1 DEF Control, Submitting
<1>3. CASE CloseBegins
  <2>1. /\ pc["exec"] = "idle" /\ pc'["exec"] = "join"
        /\ UNCHANGED <<pc["worker"], pc["cq"], use, ready_, ring_ready_, next_send_slot_, written>>
    BY <1>3, PcSet, ThreadsAre, ZenonT(40) DEF CloseBegins, pools, hist
  <2> QED BY <2>1 DEF Control, Submitting
<1>4. CASE CloseJoins
  <2>1. /\ pc["exec"] = "join" /\ pc["cq"] = "done" /\ pc'["exec"] = "exit"
        /\ UNCHANGED <<pc["worker"], pc["cq"], use, ready_, ring_ready_, next_send_slot_, written>>
    BY <1>4, PcSet, ThreadsAre DEF CloseJoins, pools, hist, flags
  <2> QED BY <2>1 DEF Control, Submitting
<1>5. CASE CloseRing
  <2>1. /\ pc["exec"] = "exit" /\ pc'["exec"] = "close"
        /\ UNCHANGED <<pc["worker"], pc["cq"], use, next_send_slot_, written>>
    BY <1>5, PcSet, ThreadsAre, ZenonT(40) DEF CloseRing, pools, hist
  <2> QED BY <2>1 DEF Control, Submitting
<1>6. CASE CloseEnds
  <2>1. /\ pc["exec"] = "close" /\ pc'["exec"] \in {"idle", "open"} /\ ready_' = FALSE
        /\ UNCHANGED <<pc["worker"], pc["cq"], use, ring_ready_, next_send_slot_, written>>
    BY <1>6, PcSet, ThreadsAre, ZenonT(40) DEF CloseEnds, pools, hist
  <2> QED BY <2>1 DEF Control, Submitting
<1>7. ASSUME NEW t \in {"exec", "worker"}, WriteBegins(t) PROVE Control'
  <2>1. /\ t \in use.writers /\ pc[t] = "idle" /\ ready_
        /\ pc'[t] = "get" /\ \A u \in Threads \ {t} : pc'[u] = pc[u]
        /\ written' = written + 1 /\ next_send_slot_' = next_send_slot_ + 1
        /\ UNCHANGED <<use, ready_, ring_ready_>>
    BY <1>7, PcSet, ThreadsAre DEF WriteBegins, flags
  <2> QED BY <2>1, ThreadsAre DEF Control, Submitting
<1>8. ASSUME NEW t \in Threads, GetSqe(t) \/ SqFull(t) \/ TakeSqe(t) \/ Prep(t) \/ Submit(t)
      PROVE Control'
  <2>1. /\ pc[t] \in Submitting /\ ring_ready_
        /\ pc'[t] \in Submitting \cup {IF t = "cq" THEN "loop" ELSE "idle"}
        /\ \A u \in Threads \ {t} : pc'[u] = pc[u]
    BY <1>8, PcSet DEF GetSqe, SqFull, TakeSqe, Prep, Submit, Submitting
  <2>2. UNCHANGED <<use, ready_, ring_ready_, next_send_slot_, written>>
    BY <1>8 DEF GetSqe, SqFull, TakeSqe, Prep, Submit, flags, pools, hist
  <2>3. t \in {"exec", "worker"} => t \in use.writers
    BY <2>1 DEF Control
  <2> QED BY <2>1, <2>2, <2>3, ThreadsAre DEF Control, Submitting
<1>9. CASE CqTakes \/ CqExits
  <2>1. /\ pc["cq"] = "loop" /\ pc'["cq"] \in {"loop", "get", "done"}
        /\ pc'["exec"] = pc["exec"] /\ pc'["worker"] = pc["worker"]
    BY <1>9, PcSet, ThreadsAre DEF CqTakes, CqReceives, CqExits
  <2>2. UNCHANGED <<use, ready_, ring_ready_, next_send_slot_, written>>
    BY <1>9 DEF CqTakes, CqExits, flags, pools, hist
  <2> QED BY <2>1, <2>2 DEF Control, Submitting
<1>10. ASSUME NEW o, NEW ok, SendDone(o) \/ RecvDone(o, ok) \/ NopDone PROVE Control'
  <2>1. UNCHANGED <<pc, use, ready_, ring_ready_, next_send_slot_, written>>
    BY <1>10 DEF SendDone, RecvDone, NopDone, flags, pools, hist, thread
  <2> QED BY <2>1 DEF Control
<1> QED BY <1>1, <1>2, <1>3, <1>4, <1>5, <1>6, <1>7, <1>8, <1>9, <1>10, NextCases

-----------------------------------------------------------------------------
(* A bridge to which nothing arrives                                       *)

LEMMA AppendAt ==
    ASSUME NEW X, NEW s \in Seq(X), NEW e
    PROVE  /\ Len(s) \in Nat /\ DOMAIN s = 1 .. Len(s) /\ DOMAIN Append(s, e) = 1 .. Len(s) + 1
           /\ \A i \in DOMAIN s : Append(s, e)[i] = s[i]
           /\ Append(s, e)[Len(s) + 1] = e
OBVIOUS

LEMMA TailAt ==
    ASSUME NEW X, NEW s \in Seq(X), s # << >>
    PROVE  /\ Len(s) \in Nat /\ DOMAIN s = 1 .. Len(s) /\ 1 \in DOMAIN s /\ Head(s) = s[1]
           /\ \A i \in DOMAIN Tail(s) : i \in Nat /\ i > 0 /\ i + 1 \in DOMAIN s /\ Tail(s)[i] = s[i + 1]
OBVIOUS

LEMMA CompletionFacts ==
    ASSUME TypeOK
    PROVE  /\ cq \in Seq(Completions)
           /\ \A i \in DOMAIN cq : cq[i] \in Completions /\ cq[i].op \in Ops
           /\ cq # << >> => Head(cq) \in Completions /\ Head(cq).op \in Ops
<1>1. cq \in Seq(Completions)
  BY DEF TypeOK, Completions
<1>2. \A c \in Completions : c.op \in Ops
  BY DEF Completions
<1>3. \A i \in DOMAIN cq : cq[i] \in Completions
  BY <1>1
<1> QED BY <1>1, <1>2, <1>3, TailAt

LEMMA NoArrivalsStep ==
    ASSUME TypeOK, Control, NoArrivals, Next PROVE NoArrivals'
<1>1. CASE OpenFails \/ CloseBegins \/ CloseJoins \/ CloseEnds \/ CqExits
  <2>1. UNCHANGED <<use, cq, delivered>>
    BY <1>1 DEF OpenFails, CloseBegins, CloseJoins, CloseEnds, CqExits, kernel, hist
  <2>2. pc'["cq"] = pc["cq"] \/ pc'["cq"] = "done"
    BY <1>1, PcSet, ThreadsAre DEF OpenFails, CloseBegins, CloseJoins, CloseEnds, CqExits
  <2> QED BY <2>1, <2>2 DEF NoArrivals, Submitting
<1>2. CASE Open \/ CloseRing
  <2>1. UNCHANGED <<use, delivered>> /\ cq' = << >>
    BY <1>2 DEF Open, CloseRing, hist
  <2>2. pc'["cq"] = pc["cq"] \/ pc'["cq"] = "loop"
    BY <1>2 DEF Open, CloseRing, TypeOK, Threads
  <2> QED BY <2>1, <2>2 DEF NoArrivals, Submitting
<1>3. ASSUME NEW t \in {"exec", "worker"}, WriteBegins(t) PROVE NoArrivals'
  <2>1. UNCHANGED <<use, cq, delivered>> /\ pc'["cq"] = pc["cq"]
    BY <1>3, PcSet, ThreadsAre DEF WriteBegins, kernel
  <2> QED BY <2>1 DEF NoArrivals
<1>4. ASSUME NEW t \in Threads, GetSqe(t) \/ SqFull(t) \/ TakeSqe(t) \/ Prep(t) \/ Submit(t)
      PROVE NoArrivals'
  <2>1. pc[t] \in Submitting /\ \A u \in Threads \ {t} : pc'[u] = pc[u]
    BY <1>4, PcSet DEF GetSqe, SqFull, TakeSqe, Prep, Submit, Submitting
  <2>2. UNCHANGED <<use, cq, delivered>>
    BY <1>4 DEF GetSqe, SqFull, TakeSqe, Prep, Submit, kernel, hist
  <2> QED BY <2>1, <2>2, ThreadsAre DEF NoArrivals
<1>5. CASE CqTakes
  <2>1. cq # << >> /\ cq' = Tail(cq) /\ use' = use
    BY <1>5 DEF CqTakes
  <2>2. Head(cq).op.kind # "recv" => UNCHANGED <<delivered, pc>>
    BY <1>5 DEF CqTakes
  <2>3. cq \in Seq(Completions)
    BY CompletionFacts
  <2> QED BY <2>1, <2>2, <2>3, TailAt DEF NoArrivals
<1>6. ASSUME NEW o \in Ops, SendDone(o) \/ NopDone PROVE NoArrivals'
  <2>1. UNCHANGED <<use, pc, delivered>>
    BY <1>6 DEF SendDone, NopDone, thread, hist
  <2>2. PICK x \in Ops : x.kind # "recv" /\ cq' = Append(cq, [op |-> x, ok |-> TRUE])
    BY <1>6, OpFacts DEF SendDone, NopDone, Done
  <2>3. \A i \in DOMAIN cq' : (i \in DOMAIN cq /\ cq'[i] = cq[i]) \/ cq'[i] = [op |-> x, ok |-> TRUE]
    BY <2>2, CompletionFacts, AppendAt
  <2> QED BY <2>1, <2>2, <2>3 DEF NoArrivals
<1>7. ASSUME NEW o \in Ops, NEW ok \in BOOLEAN, RecvDone(o, ok) PROVE NoArrivals'
  <2>1. arrived < use.arrivals /\ use' = use
    BY <1>7 DEF RecvDone
  <2>2. use.arrivals # 0
    BY <2>1, TypeFacts DEF TypeOK
  <2> QED BY <2>1, <2>2 DEF NoArrivals
<1> QED BY <1>1, <1>2, <1>3, <1>4, <1>5, <1>6, <1>7, OpFacts, NextCases

-----------------------------------------------------------------------------
(* The submission queue of a thread that submits alone                     *)

LEMMA ModulusApart ==
    ASSUME NEW K \in Nat \ {0}, NEW a \in Nat, NEW b \in Nat, a % K = b % K, b < a
    PROVE  b + K <= a
<1>1. \A x \in Nat : x % K = x - K * (x \div K) /\ x \div K \in Int
  <2>1. K \in Int /\ K > 0
    OBVIOUS
  <2>2. ASSUME NEW x \in Nat PROVE x % K = x - K * (x \div K)
    BY <2>1
  <2>3. ASSUME NEW x \in Nat PROVE x \div K \in Int
    BY <2>1
  <2> QED BY <2>2, <2>3
<1>2. PICK p \in Int, q \in Int : a - K * p = b - K * q
  BY <1>1
<1>3. p > q
  <2>1. SUFFICES ASSUME p <= q PROVE FALSE
    OBVIOUS
  <2>2. K * p <= K * q
    BY <2>1
  <2> QED BY <1>2, <2>2
<1>4. K * p >= K * (q + 1)
  BY <1>3
<1>5. K * (q + 1) = K * q + K
  OBVIOUS
<1> QED BY <1>2, <1>4, <1>5

LEMMA OneSubmits ==
    ASSUME TypeOK, Control, NoArrivals, Alone
    PROVE  /\ pc["worker"] \notin Submitting /\ "worker" \notin use.writers
           /\ \A t, u \in Threads : pc[t] \in Submitting /\ pc[u] \in Submitting => t = u
<1>1. "worker" \notin use.writers /\ pc["worker"] \notin Submitting
  BY DEF Alone, Control
<1>2. pc["exec"] \notin Submitting \/ pc["cq"] \notin Submitting
  BY DEF Alone, Control, NoArrivals
<1> QED BY <1>1, <1>2, ThreadsAre

LEMMA QueueKept ==
    ASSUME QueueAlone, UNCHANGED <<sqe_tail, khead, entries, mine>>,
           \A t \in Threads : \/ pc'[t] = pc[t] /\ op'[t] = op[t]
                              \/ pc[t] \notin {"prep", "submit"} /\ pc'[t] \notin {"take", "prep", "submit"},
           pc'["cq"] \in Submitting => op'["cq"].kind = "recv"
    PROVE  QueueAlone'
<1>1. (\A t \in Threads : pc'[t] \notin {"prep", "submit"}) => \A t \in Threads : pc[t] \notin {"prep", "submit"}
  OBVIOUS
<1>2. (\A t \in Threads : pc'[t] \notin {"prep", "submit"}) => sqe_tail' = khead'
  BY <1>1 DEF QueueAlone
<1>3. ASSUME NEW t \in Threads
      PROVE  /\ pc'[t] = "take" => mine'[t] = sqe_tail'
             /\ pc'[t] \in {"prep", "submit"} => sqe_tail' = khead' + 1 /\ mine'[t] = khead'
             /\ pc'[t] = "submit" => entries'[khead' % Entries] = op'[t]
  BY DEF QueueAlone
<1> QED BY <1>2, <1>3 DEF QueueAlone

\* The only entry the kernel takes is the thread's own.
LEMMA SubmitAlone ==
    ASSUME TypeOK, QueueAlone, NEW t \in Threads, Submit(t)
    PROVE  /\ khead' = khead + 1 /\ sqe_tail' = khead + 1
           /\ inflight' = [o \in Ops |-> inflight[o] + (IF o = op[t] THEN 1 ELSE 0)]
<1> DEFINE n == IF sqe_tail >= khead THEN sqe_tail - khead ELSE Entries
           S(o) == {i \in khead .. khead + n - 1 : entries[i % Entries] = o}
<1>1. khead \in Nat /\ sqe_tail = khead + 1 /\ entries[khead % Entries] = op[t]
  BY DEF TypeOK, QueueAlone, Submit
<1>2. n = 1
  BY <1>1
<1>3. /\ inflight' = [o \in Ops |-> inflight[o] + Cardinality(S(o))] /\ khead' = khead + n
      /\ sqe_tail' = sqe_tail
  BY DEF Submit
<1>4. ASSUME NEW o \in Ops PROVE Cardinality(S(o)) = IF o = op[t] THEN 1 ELSE 0
  <2>1. khead .. khead + n - 1 = {khead}
    BY <1>1, <1>2
  <2>2. CASE o = op[t]
    <3>1. S(o) = {khead}
      BY <1>1, <2>1, <2>2
    <3> QED BY <2>2, <3>1, FS_Singleton
  <2>3. CASE o # op[t]
    <3>1. S(o) = {}
      BY <1>1, <2>1, <2>3
    <3> QED BY <2>3, <3>1, FS_EmptySet
  <2> QED BY <2>2, <2>3
<1> HIDE DEF n, S
<1> QED BY <1>1, <1>2, <1>3, <1>4

LEMMA QueueStep ==
    ASSUME TypeOK, Control, NoArrivals, Alone, QueueAlone, Next PROVE QueueAlone'
<1>1. CASE OpenFails \/ CloseBegins \/ CloseJoins \/ CloseRing \/ CloseEnds \/ CqExits
  <2>1. UNCHANGED <<sqe_tail, khead, entries, mine, op>>
    BY <1>1 DEF OpenFails, CloseBegins, CloseJoins, CloseRing, CloseEnds, CqExits, queue
  <2>2. \A t \in Threads : pc'[t] = pc[t] \/ (pc[t] \notin Submitting /\ pc'[t] \notin Submitting)
    <3>1. PICK u \in Threads, v \in PcValues \ Submitting :
            pc[u] \notin Submitting /\ pc' = [pc EXCEPT ![u] = v]
      BY <1>1, ThreadsAre
         DEF OpenFails, CloseBegins, CloseJoins, CloseRing, CloseEnds, CqExits, Submitting, PcValues
    <3> QED BY <3>1, PcSet
  <2>3. pc'["cq"] \in Submitting => op'["cq"].kind = "recv"
    BY <2>1, <2>2, ThreadsAre DEF QueueAlone
  <2>4. \A t \in Threads : \/ pc'[t] = pc[t] /\ op'[t] = op[t]
                           \/ pc[t] \notin {"prep", "submit"} /\ pc'[t] \notin {"take", "prep", "submit"}
    BY <2>1, <2>2 DEF Submitting
  <2> QED BY <2>1, <2>3, <2>4, QueueKept
<1>2. CASE Open
  <2>1. /\ pc["exec"] = "open" /\ pc'["exec"] = "idle" /\ pc'["cq"] = "loop" /\ pc'["worker"] = pc["worker"]
        /\ sqe_tail' = khead'
    BY <1>2 DEF Open, TypeOK, Threads
  <2>2. \A t \in Threads : pc'[t] \notin Submitting
    BY <2>1, OneSubmits, ThreadsAre DEF Submitting
  <2> QED BY <2>1, <2>2, ThreadsAre DEF QueueAlone, Submitting
<1>3. ASSUME NEW t \in {"exec", "worker"}, WriteBegins(t) PROVE QueueAlone'
  <2>1. /\ pc[t] = "idle" /\ pc'[t] = "get" /\ \A u \in Threads \ {t} : pc'[u] = pc[u] /\ op'[u] = op[u]
        /\ UNCHANGED <<sqe_tail, khead, entries, mine>>
    BY <1>3, PcSet, ThreadsAre, SMTT(30) DEF WriteBegins, queue, TypeOK
  <2>2. pc'["cq"] \in Submitting => op'["cq"].kind = "recv"
    BY <2>1, ThreadsAre DEF QueueAlone
  <2> QED BY <2>1, <2>2, QueueKept
<1>4. ASSUME NEW t \in Threads, GetSqe(t) \/ SqFull(t) \/ TakeSqe(t) \/ Prep(t) \/ Submit(t)
      PROVE QueueAlone'
  <2>1. pc[t] \in Submitting /\ op' = op /\ \A u \in Threads \ {t} : pc'[u] = pc[u]
    BY <1>4, PcSet DEF GetSqe, SqFull, TakeSqe, Prep, Submit, Submitting
  <2>2. \A u \in Threads \ {t} : pc[u] \notin Submitting /\ pc'[u] \notin Submitting
    BY <2>1, OneSubmits
  <2>3. pc'["cq"] \in Submitting => op'["cq"].kind = "recv"
    BY <2>1, <2>2, ThreadsAre DEF QueueAlone
  <2>4. pc[t] \in {"get", "take"} => sqe_tail = khead
    BY <2>2 DEF QueueAlone, Submitting
  <2>5. sqe_tail \in Nat /\ khead \in Nat /\ Entries \in Nat \ {0} /\ mine \in [Threads -> Nat]
    BY TypeFacts DEF TypeOK
  <2>6. CASE GetSqe(t)
    <3>1. pc'[t] = "take" /\ mine'[t] = sqe_tail' /\ sqe_tail' = khead'
      BY <2>4, <2>5, <2>6, PcSet DEF GetSqe, queue
    <3> QED BY <2>2, <2>3, <3>1 DEF QueueAlone, Submitting
  <2>7. CASE SqFull(t)
    <3>1. pc[t] = "get" /\ (sqe_tail < khead \/ sqe_tail + 1 - khead > Entries)
      BY <2>7 DEF SqFull
    <3> QED BY <2>4, <2>5, <3>1
  <2>8. CASE TakeSqe(t)
    <3>1. pc[t] = "take" /\ pc'[t] = "prep" /\ sqe_tail' = mine[t] + 1 /\ UNCHANGED <<khead, mine>>
      BY <2>8, PcSet DEF TakeSqe
    <3>2. mine[t] = khead
      BY <2>4, <3>1 DEF QueueAlone
    <3> QED BY <2>2, <2>3, <3>1, <3>2 DEF QueueAlone, Submitting
  <2>9. CASE Prep(t)
    <3>1. /\ pc[t] = "prep" /\ pc'[t] = "submit" /\ UNCHANGED <<sqe_tail, khead, mine>>
          /\ entries' = [entries EXCEPT ![mine[t] % Entries] = op[t]]
      BY <2>9, PcSet DEF Prep
    <3>2. mine[t] = khead /\ sqe_tail = khead + 1
      BY <3>1 DEF QueueAlone
    <3>3. khead % Entries \in 0 .. Entries - 1
      BY <2>5
    <3>4. entries'[khead % Entries] = op[t]
      BY <3>1, <3>2, <3>3 DEF TypeOK
    <3> QED BY <2>1, <2>2, <2>3, <3>1, <3>2, <3>4 DEF QueueAlone, Submitting
  <2>10. CASE Submit(t)
    <3>1. sqe_tail' = khead'
      BY <2>10, SubmitAlone
    <3>2. pc'[t] \in {"loop", "idle"}
      BY <2>10, PcSet DEF Submit
    <3> QED BY <2>2, <2>3, <3>1, <3>2 DEF QueueAlone, Submitting
  <2> QED BY <1>4, <2>6, <2>7, <2>8, <2>9, <2>10
<1>5. CASE CqTakes
  <2>1. /\ pc["cq"] = "loop" /\ UNCHANGED <<sqe_tail, khead, entries, mine>>
        /\ \/ pc' = pc /\ op' = op
           \/ Head(cq).op.kind = "recv" /\ pc' = [pc EXCEPT !["cq"] = "get"] /\ op' = [op EXCEPT !["cq"] = Head(cq).op]
    BY <1>5 DEF CqTakes, CqReceives, queue
  <2>2. \/ pc' = pc /\ op' = op
        \/ /\ pc'["cq"] = "get" /\ op'["cq"].kind = "recv"
           /\ \A u \in Threads \ {"cq"} : pc'[u] = pc[u] /\ op'[u] = op[u]
    BY <2>1, PcSet, ThreadsAre, SMTT(30) DEF TypeOK
  <2>3. pc'["cq"] \in Submitting => op'["cq"].kind = "recv"
    BY <2>2 DEF QueueAlone
  <2> QED BY <2>1, <2>2, <2>3, QueueKept
<1>6. ASSUME NEW o, NEW ok, SendDone(o) \/ RecvDone(o, ok) \/ NopDone PROVE QueueAlone'
  <2>1. UNCHANGED <<sqe_tail, khead, entries, pc, mine, op>>
    BY <1>6 DEF SendDone, RecvDone, NopDone, queue, thread
  <2> QED BY <2>1 DEF QueueAlone
<1> QED BY <1>1, <1>2, <1>3, <1>4, <1>5, <1>6, NextCases

LEMMA NothingHeldStep ==
    ASSUME TypeOK, Control, NothingHeld, Next PROVE NothingHeld'
<1>1. CASE OpenFails \/ CloseBegins \/ CloseJoins \/ CloseEnds \/ CqExits \/ CqTakes
  <2>1. UNCHANGED <<ring_ready_, inflight>>
    BY <1>1 DEF OpenFails, CloseBegins, CloseJoins, CloseEnds, CqExits, CqTakes, kernel, flags
  <2> QED BY <2>1 DEF NothingHeld
<1>2. CASE Open \/ CloseRing
  BY <1>2 DEF Open, CloseRing, NothingHeld
<1>3. ASSUME NEW t \in {"exec", "worker"}, WriteBegins(t) PROVE NothingHeld'
  <2>1. UNCHANGED <<ring_ready_, inflight>>
    BY <1>3 DEF WriteBegins, kernel, flags
  <2> QED BY <2>1 DEF NothingHeld
<1>4. ASSUME NEW t \in Threads, GetSqe(t) \/ SqFull(t) \/ TakeSqe(t) \/ Prep(t) \/ Submit(t)
      PROVE NothingHeld'
  <2>1. ring_ready_ /\ ring_ready_' = ring_ready_
    BY <1>4 DEF GetSqe, SqFull, TakeSqe, Prep, Submit, flags
  <2> QED BY <2>1 DEF NothingHeld
<1>5. ASSUME NEW o \in Ops, NEW ok, SendDone(o) \/ RecvDone(o, ok) \/ NopDone PROVE NothingHeld'
  <2>1. ring_ready_' = ring_ready_ /\ \E x \in Ops : inflight[x] > 0
    BY <1>5, OpFacts DEF SendDone, RecvDone, NopDone, Done, flags
  <2> QED BY <2>1 DEF NothingHeld
<1> QED BY <1>1, <1>2, <1>3, <1>4, <1>5, OpFacts, NextCases

-----------------------------------------------------------------------------
(* The receive slots                                                       *)

InHand(s) == IF pc["cq"] \in Submitting /\ op["cq"] = Recv(s) THEN 1 ELSE 0

LEMMA PlacesAre ==
    ASSUME TypeOK, NEW s \in RecvSlots
    PROVE  /\ Places(s) = inflight[Recv(s)] + Cardinality(Completed(cq, Recv(s))) + InHand(s)
           /\ inflight[Recv(s)] \in Nat /\ Cardinality(Completed(cq, Recv(s))) \in Nat /\ InHand(s) \in {0, 1}
<1>1. Places(s) = inflight[Recv(s)] + Cardinality(Completed(cq, Recv(s))) + InHand(s)
  BY DEF Places, Completed, InHand, Submitting
<1>2. inflight[Recv(s)] \in Nat
  BY OpFacts DEF TypeOK
<1> QED BY <1>1, <1>2, CompletionFacts, CompletedCounts DEF InHand

LEMMA PlacesArePrimed ==
    ASSUME NEW s \in RecvSlots
    PROVE  Places(s)' = inflight'[Recv(s)] + Cardinality(Completed(cq', Recv(s))) + InHand(s)'
BY DEF Places, Completed, InHand, Submitting

LEMMA SlotsKept ==
    ASSUME SlotsStayArmed, UNCHANGED <<ring_ready_, use, inflight, cq>>,
           \A s \in RecvSlots : InHand(s)' = InHand(s)
    PROVE  SlotsStayArmed'
<1>1. \A s \in RecvSlots : Places(s)' = Places(s)
  BY DEF Places, InHand, Submitting
<1> QED BY <1>1 DEF SlotsStayArmed, Alone

\* A completion is as many places more as the kernel holds fewer.
LEMMA DoneMoves ==
    ASSUME TypeOK, NEW o \in Ops, NEW ok \in BOOLEAN, Done(o, ok),
           UNCHANGED <<pc, op, ring_ready_, use>>, SlotsStayArmed
    PROVE  SlotsStayArmed'
<1> SUFFICES ASSUME NEW s \in RecvSlots, Places(s) = 1 PROVE Places(s)' = 1
  BY DEF SlotsStayArmed, Alone
<1>1. InHand(s)' = InHand(s)
  BY DEF InHand
<1>2. [op |-> o, ok |-> ok] \in Completions /\ [op |-> o, ok |-> ok].op = o
  BY DEF Completions
<1>3. Cardinality(Completed(cq', Recv(s))) =
        Cardinality(Completed(cq, Recv(s))) + (IF o = Recv(s) THEN 1 ELSE 0)
  BY <1>2, CompletionFacts, CompletedAppend DEF Done
<1>4. Recv(s) \in Ops
  BY OpFacts
<1>5. inflight'[Recv(s)] = inflight[Recv(s)] - (IF o = Recv(s) THEN 1 ELSE 0)
  BY <1>4 DEF Done, TypeOK
<1> QED BY <1>1, <1>3, <1>5, PlacesAre, PlacesArePrimed

LEMMA SlotsStep ==
    ASSUME TypeOK, Control, NoArrivals, Alone, QueueAlone, SlotsStayArmed, Departures, Next
    PROVE  SlotsStayArmed'
<1>1. CASE OpenFails \/ CloseBegins \/ CloseJoins \/ CloseEnds \/ CqExits
  <2>1. UNCHANGED <<ring_ready_, use, inflight, cq, op>>
    BY <1>1 DEF OpenFails, CloseBegins, CloseJoins, CloseEnds, CqExits, flags, kernel
  <2>2. pc'["cq"] = pc["cq"] \/ (pc["cq"] = "loop" /\ pc'["cq"] = "done")
    BY <1>1, PcSet, ThreadsAre DEF OpenFails, CloseBegins, CloseJoins, CloseEnds, CqExits
  <2>3. \A s \in RecvSlots : InHand(s)' = InHand(s)
    BY <2>1, <2>2 DEF InHand, Submitting
  <2> QED BY <2>1, <2>3, SlotsKept
<1>2. CASE Open
  <2> SUFFICES ASSUME NEW s \in RecvSlots PROVE Places(s)' = 1
    BY DEF SlotsStayArmed
  <2>1. pc'["cq"] = "loop"
    BY <1>2 DEF Open, TypeOK, Threads
  <2>2. InHand(s)' = 0
    BY <2>1 DEF InHand, Submitting
  <2>3. cq' = << >> /\ inflight'[Recv(s)] = 1
    BY <1>2, OpFacts DEF Open
  <2>4. Cardinality(Completed(cq', Recv(s))) = 0
    BY <2>3, CompletedEmpty
  <2> QED BY <2>2, <2>3, <2>4, PlacesArePrimed
<1>3. CASE CloseRing
  BY <1>3 DEF CloseRing, SlotsStayArmed
<1>4. ASSUME NEW t \in {"exec", "worker"}, WriteBegins(t) PROVE SlotsStayArmed'
  <2>1. UNCHANGED <<ring_ready_, use, inflight, cq>>
    BY <1>4 DEF WriteBegins, flags, kernel
  <2>2. pc'["cq"] = pc["cq"] /\ op'["cq"] = op["cq"]
    BY <1>4, ThreadsAre DEF WriteBegins, TypeOK
  <2>3. \A s \in RecvSlots : InHand(s)' = InHand(s)
    BY <2>2 DEF InHand
  <2> QED BY <2>1, <2>3, SlotsKept
<1>5. ASSUME NEW t \in Threads, GetSqe(t) \/ SqFull(t) \/ TakeSqe(t) \/ Prep(t) PROVE SlotsStayArmed'
  <2>1. UNCHANGED <<ring_ready_, use, inflight, cq, op>>
    BY <1>5 DEF GetSqe, SqFull, TakeSqe, Prep, flags, kernel
  <2>2. pc'["cq"] = pc["cq"] \/ (pc["cq"] \in Submitting /\ pc'["cq"] \in Submitting)
    BY <1>5, PcSet, ThreadsAre DEF GetSqe, SqFull, TakeSqe, Prep, Submitting
  <2>3. \A s \in RecvSlots : InHand(s)' = InHand(s)
    BY <2>1, <2>2 DEF InHand
  <2> QED BY <2>1, <2>3, SlotsKept
<1>6. ASSUME NEW t \in Threads, Submit(t) PROVE SlotsStayArmed'
  <2> SUFFICES ASSUME NEW s \in RecvSlots, Places(s) = 1 PROVE Places(s)' = 1
    BY <1>6 DEF SlotsStayArmed, Submit, flags, Alone
  <2>1. UNCHANGED <<cq, op>> /\ pc[t] = "submit"
    BY <1>6 DEF Submit
  <2>2. Recv(s) \in Ops
    BY OpFacts
  <2>3. inflight'[Recv(s)] = inflight[Recv(s)] + (IF Recv(s) = op[t] THEN 1 ELSE 0)
    BY <1>6, <2>2, SubmitAlone
  <2>4. CASE t = "cq"
    <3>1. pc["cq"] = "submit" /\ pc'["cq"] = "loop"
      BY <1>6, <2>1, <2>4, PcSet DEF Submit
    <3>2. InHand(s)' = 0 /\ InHand(s) = IF Recv(s) = op[t] THEN 1 ELSE 0
      BY <2>4, <3>1 DEF InHand, Submitting
    <3> QED BY <2>1, <2>3, <3>2, PlacesAre, PlacesArePrimed
  <2>5. CASE t # "cq"
    <3>1. pc[t] \in Submitting /\ t = "exec"
      BY <2>1, <2>5, OneSubmits, ThreadsAre DEF Submitting
    <3>2. op[t] = Send(SlotOf(written), written)
      BY <3>1 DEF Departures
    <3>3. Recv(s) # op[t]
      BY <3>2, OpFacts DEF Recv, Send
    <3>4. pc'["cq"] = pc["cq"]
      BY <1>6, <2>5, PcSet, ThreadsAre DEF Submit
    <3>5. InHand(s)' = InHand(s)
      BY <2>1, <3>4 DEF InHand
    <3> QED BY <2>1, <2>3, <3>3, <3>5, PlacesAre, PlacesArePrimed
  <2> QED BY <2>4, <2>5
<1>7. CASE CqTakes
  <2> SUFFICES ASSUME NEW s \in RecvSlots, Places(s) = 1 PROVE Places(s)' = 1
    BY <1>7 DEF SlotsStayArmed, CqTakes, flags, Alone
  <2>1. /\ pc["cq"] = "loop" /\ cq # << >> /\ cq' = Tail(cq) /\ inflight' = inflight
    BY <1>7 DEF CqTakes
  <2>2. Cardinality(Completed(cq, Recv(s))) =
          Cardinality(Completed(cq', Recv(s))) + (IF Head(cq).op = Recv(s) THEN 1 ELSE 0)
    BY <2>1, CompletionFacts, CompletedTail
  <2>3. InHand(s) = 0
    BY <2>1 DEF InHand, Submitting
  <2>4. InHand(s)' = IF Head(cq).op = Recv(s) THEN 1 ELSE 0
    <3>1. CASE Head(cq).op.kind = "recv"
      <4>1. pc' = [pc EXCEPT !["cq"] = "get"] /\ op' = [op EXCEPT !["cq"] = Head(cq).op]
        BY <1>7, <3>1 DEF CqTakes, CqReceives
      <4>2. pc'["cq"] = "get" /\ op'["cq"] = Head(cq).op
        BY <4>1, ThreadsAre DEF TypeOK
      <4> QED BY <4>2 DEF InHand, Submitting
    <3>2. CASE Head(cq).op.kind # "recv"
      <4>1. pc' = pc /\ Head(cq).op # Recv(s)
        BY <1>7, <3>2, OpFacts DEF CqTakes
      <4> QED BY <2>1, <4>1 DEF InHand, Submitting
    <3> QED BY <3>1, <3>2
  <2>5. Cardinality(Completed(cq', Recv(s))) \in Nat
    <3>1. cq' \in Seq(Completions)
      BY <2>1, CompletionFacts
    <3> QED BY <3>1, CompletedCounts
  <2> QED BY <2>1, <2>2, <2>3, <2>4, <2>5, PlacesAre, PlacesArePrimed
<1>8. ASSUME NEW o \in Ops, SendDone(o) \/ NopDone PROVE SlotsStayArmed'
  <2>1. UNCHANGED <<pc, op, ring_ready_, use>> /\ (Done(o, TRUE) \/ Done(Nop, TRUE))
    BY <1>8 DEF SendDone, NopDone, thread, flags
  <2> QED BY <2>1, OpFacts, DoneMoves
<1>9. ASSUME NEW o \in Ops, NEW ok \in BOOLEAN, RecvDone(o, ok) PROVE SlotsStayArmed'
  <2>1. UNCHANGED <<pc, op, ring_ready_, use>> /\ Done(o, ok)
    BY <1>9 DEF RecvDone, thread, flags
  <2> QED BY <2>1, DoneMoves
<1> QED BY <1>1, <1>2, <1>3, <1>4, <1>5, <1>6, <1>7, <1>8, <1>9, OpFacts, NextCases

-----------------------------------------------------------------------------
(* What arrives                                                            *)

\* A slot the kernel holds is in no completion.
LEMMA HeldByKernel ==
    ASSUME TypeOK, NothingHeld, Alone, SlotsStayArmed, NEW s \in RecvSlots, inflight[Recv(s)] > 0
    PROVE  \A i \in DOMAIN cq : cq[i].op # Recv(s)
<1>1. ring_ready_
  BY OpFacts DEF NothingHeld
<1>2. Places(s) = 1
  BY <1>1 DEF SlotsStayArmed
<1>3. Cardinality(Completed(cq, Recv(s))) = 0
  BY <1>2, PlacesAre
<1>4. Completed(cq, Recv(s)) = {}
  BY <1>3, CompletionFacts, CompletedCounts, FS_EmptySet
<1> QED BY <1>4 DEF Completed

\* The datagrams of the completion queue are numbers.
LEMMA HeldIsNat ==
    ASSUME TypeOK, NEW i \in DOMAIN cq, IsDatagram(i)
    PROVE  Held(i) \in Nat /\ cq[i].op.slot \in RecvSlots /\ cq[i].op = Recv(cq[i].op.slot)
<1>1. cq[i].op \in Ops /\ cq[i].op.kind = "recv"
  BY CompletionFacts DEF IsDatagram
<1>2. cq[i].op.slot \in RecvSlots /\ cq[i].op = Recv(cq[i].op.slot)
  BY <1>1, OpFacts
<1>3. recvBuf[cq[i].op.slot] \in 0 .. use.arrivals
  BY <1>2 DEF TypeOK
<1> QED BY <1>2, <1>3, TypeFacts DEF Held

LEMMA ArrivalsKept ==
    ASSUME Arrivals, UNCHANGED <<cq, recvBuf, delivered, arrived>> PROVE Arrivals'
BY DEF Arrivals, IsDatagram, Held

LEMMA ArrivalsStep ==
    ASSUME TypeOK, Control, NothingHeld, Alone, SlotsStayArmed, Arrivals, Next PROVE Arrivals'
<1>1. CASE OpenFails \/ CloseBegins \/ CloseJoins \/ CloseEnds \/ CqExits
  <2>1. UNCHANGED <<cq, recvBuf, delivered, arrived>>
    BY <1>1 DEF OpenFails, CloseBegins, CloseJoins, CloseEnds, CqExits, kernel, pools, hist
  <2> QED BY <2>1, ArrivalsKept
<1>2. CASE Open \/ CloseRing
  <2>1. cq' = << >> /\ UNCHANGED <<delivered, arrived>>
    BY <1>2 DEF Open, CloseRing, hist
  <2> QED BY <2>1 DEF Arrivals
<1>3. ASSUME NEW t \in {"exec", "worker"}, WriteBegins(t) PROVE Arrivals'
  <2>1. UNCHANGED <<cq, recvBuf, delivered, arrived>>
    BY <1>3 DEF WriteBegins, kernel
  <2> QED BY <2>1, ArrivalsKept
<1>4. ASSUME NEW t \in Threads, GetSqe(t) \/ SqFull(t) \/ TakeSqe(t) \/ Prep(t) \/ Submit(t)
      PROVE Arrivals'
  <2>1. UNCHANGED <<cq, recvBuf, delivered, arrived>>
    BY <1>4 DEF GetSqe, SqFull, TakeSqe, Prep, Submit, kernel, pools, hist
  <2> QED BY <2>1, ArrivalsKept
<1>5. CASE CqTakes
  <2>1. cq # << >> /\ cq' = Tail(cq) /\ UNCHANGED <<recvBuf, arrived>>
    BY <1>5 DEF CqTakes, pools
  <2>2. /\ 1 \in DOMAIN cq /\ Head(cq) = cq[1]
        /\ \A i \in DOMAIN cq' : i \in Nat /\ i > 0 /\ i + 1 \in DOMAIN cq /\ cq'[i] = cq[i + 1]
    BY <2>1, CompletionFacts, TailAt
  <2>3. \A i \in DOMAIN cq' : /\ IsDatagram(i)' => IsDatagram(i + 1)
                              /\ Held(i)' = Held(i + 1)
    BY <2>1, <2>2 DEF IsDatagram, Held
  <2>4. \A i, j \in DOMAIN cq' : i < j /\ IsDatagram(i)' /\ IsDatagram(j)' => Held(i)' < Held(j)'
    BY <2>2, <2>3 DEF Arrivals
  <2>5. CASE delivered' = delivered
    BY <2>1, <2>2, <2>3, <2>4, <2>5 DEF Arrivals
  <2>6. CASE IsDatagram(1) /\ delivered' = Append(delivered, Held(1))
    <3>1. Held(1) \in Nat /\ Held(1) <= arrived /\ \A k \in DOMAIN delivered : delivered[k] < Held(1)
      BY <2>2, <2>6, HeldIsNat DEF Arrivals
    <3>2. /\ Len(delivered) \in Nat /\ DOMAIN delivered = 1 .. Len(delivered)
          /\ DOMAIN delivered' = 1 .. Len(delivered) + 1
          /\ \A i \in DOMAIN delivered : delivered'[i] = delivered[i] /\ delivered[i] \in Nat
          /\ delivered'[Len(delivered) + 1] = Held(1)
      BY <2>6, AppendAt DEF TypeOK
    <3>3. \A i, j \in DOMAIN delivered' : i < j => delivered'[i] < delivered'[j]
      BY <3>1, <3>2 DEF Arrivals
    <3>4. \A i \in DOMAIN delivered' : delivered'[i] <= arrived'
      BY <2>1, <3>1, <3>2 DEF Arrivals
    <3>5. ASSUME NEW i \in DOMAIN cq', IsDatagram(i)'
          PROVE  Held(i)' <= arrived' /\ \A k \in DOMAIN delivered' : delivered'[k] < Held(i)'
      <4>1. i + 1 \in DOMAIN cq /\ 1 < i + 1 /\ IsDatagram(i + 1) /\ Held(i)' = Held(i + 1)
        BY <2>2, <2>3, <3>5
      <4>2. Held(i + 1) <= arrived /\ Held(1) < Held(i + 1)
            /\ \A k \in DOMAIN delivered : delivered[k] < Held(i + 1)
        BY <2>2, <2>6, <4>1 DEF Arrivals
      <4> QED BY <2>1, <3>2, <4>1, <4>2
    <3> QED BY <2>4, <3>3, <3>4, <3>5 DEF Arrivals
  <2> QED
    <3>1. delivered' = delivered \/ (IsDatagram(1) /\ delivered' = Append(delivered, Held(1)))
      BY <1>5, <2>2 DEF CqTakes, CqReceives, IsDatagram, Held
    <3> QED BY <2>5, <2>6, <3>1
<1>6. ASSUME NEW o \in Ops, SendDone(o) \/ NopDone PROVE Arrivals'
  <2>1. UNCHANGED <<recvBuf, delivered, arrived>>
    BY <1>6 DEF SendDone, NopDone, pools, hist
  <2>2. PICK x \in Ops : x.kind # "recv" /\ cq' = Append(cq, [op |-> x, ok |-> TRUE])
    BY <1>6, OpFacts DEF SendDone, NopDone, Done
  <2>3. \A i \in DOMAIN cq' : (i \in DOMAIN cq /\ cq'[i] = cq[i]) \/ cq'[i] = [op |-> x, ok |-> TRUE]
    BY <2>2, CompletionFacts, AppendAt
  <2>4. \A i \in DOMAIN cq' : IsDatagram(i)' => i \in DOMAIN cq /\ IsDatagram(i) /\ Held(i)' = Held(i)
    BY <2>1, <2>2, <2>3 DEF IsDatagram, Held
  <2> QED BY <2>1, <2>4 DEF Arrivals
<1>7. ASSUME NEW o \in Ops, NEW ok \in BOOLEAN, RecvDone(o, ok) PROVE Arrivals'
  <2>1. /\ o.kind = "recv" /\ arrived' = arrived + 1 /\ delivered' = delivered /\ Done(o, ok)
        /\ recvBuf' = IF ok THEN [recvBuf EXCEPT ![o.slot] = arrived'] ELSE recvBuf
    BY <1>7 DEF RecvDone
  <2>2. o.slot \in RecvSlots /\ o = Recv(o.slot) /\ inflight[Recv(o.slot)] > 0
    BY <2>1, OpFacts DEF Done
  <2>3. \A i \in DOMAIN cq : cq[i].op # o
    BY <2>2, HeldByKernel
  <2>4. cq' = Append(cq, [op |-> o, ok |-> ok])
    BY <2>1 DEF Done
  <2>5. /\ Len(cq) \in Nat /\ DOMAIN cq = 1 .. Len(cq) /\ DOMAIN cq' = 1 .. Len(cq) + 1
        /\ \A i \in DOMAIN cq : cq'[i] = cq[i]
        /\ cq'[Len(cq) + 1] = [op |-> o, ok |-> ok]
    BY <2>4, CompletionFacts, AppendAt
  <2>6. ASSUME NEW i \in DOMAIN cq, IsDatagram(i)' PROVE IsDatagram(i) /\ Held(i)' = Held(i) /\ Held(i) \in Nat
    <3>1. IsDatagram(i)
      BY <2>5, <2>6 DEF IsDatagram
    <3>2. cq[i].op.slot # o.slot
      BY <2>2, <2>3, <3>1, HeldIsNat
    <3>3. recvBuf'[cq[i].op.slot] = recvBuf[cq[i].op.slot]
      BY <2>1, <3>2 DEF TypeOK
    <3> QED BY <2>5, <3>1, <3>3, HeldIsNat DEF Held
  <2>m. PICK m \in Nat : m = Len(cq) + 1
    BY <2>5
  <2>7. IsDatagram(m)' => Held(m)' = arrived + 1
    <3>1. IsDatagram(m)' => ok
      BY <2>5, <2>m DEF IsDatagram
    <3>2. ok => recvBuf'[o.slot] = arrived + 1
      BY <2>1, <2>2 DEF TypeOK
    <3> QED BY <2>5, <2>m, <3>1, <3>2 DEF Held
  <2>8. arrived \in Nat /\ \A k \in DOMAIN delivered : delivered[k] \in Nat
    BY TypeFacts, SMTT(30) DEF TypeOK
  <2>9. ASSUME NEW i \in DOMAIN cq', IsDatagram(i)'
        PROVE  Held(i)' <= arrived' /\ \A k \in DOMAIN delivered' : delivered'[k] < Held(i)'
    <3>1. CASE i \in DOMAIN cq
      BY <2>1, <2>6, <2>8, <2>9, <3>1 DEF Arrivals
    <3>2. CASE i = m
      BY <2>1, <2>7, <2>8, <2>9, <3>2 DEF Arrivals
    <3> QED BY <2>5, <2>m, <3>1, <3>2
  <2>10. ASSUME NEW i \in DOMAIN cq', NEW j \in DOMAIN cq', i < j, IsDatagram(i)', IsDatagram(j)'
         PROVE  Held(i)' < Held(j)'
    <3>1. i \in DOMAIN cq /\ IsDatagram(i) /\ Held(i)' = Held(i) /\ Held(i) \in Nat
      BY <2>5, <2>6, <2>10
    <3>2. CASE j \in DOMAIN cq
      BY <2>6, <2>10, <3>1, <3>2 DEF Arrivals
    <3>3. CASE j = m
      BY <2>7, <2>8, <2>10, <3>1, <3>3 DEF Arrivals
    <3> QED BY <2>5, <2>m, <3>2, <3>3
  <2>11. \A i \in DOMAIN delivered' : delivered'[i] <= arrived'
    BY <2>1, <2>8 DEF Arrivals
  <2>12. \A i, j \in DOMAIN delivered' : i < j => delivered'[i] < delivered'[j]
    BY <2>1 DEF Arrivals
  <2> QED BY <2>9, <2>10, <2>11, <2>12 DEF Arrivals
<1> QED BY <1>1, <1>2, <1>3, <1>4, <1>5, <1>6, <1>7, OpFacts, NextCases

-----------------------------------------------------------------------------
(* What is sent                                                            *)

LEMMA SlotOfIsSlot ==
    ASSUME TypeOK, NEW n \in Nat \ {0}
    PROVE  SlotOf(n) \in SendSlots /\ SlotOf(n) = Acquire(n - 1)
<1>1. SlotOf(n) = Acquire(n - 1) /\ n - 1 \in Nat
  BY DEF SlotOf, Acquire
<1> QED BY <1>1, AcquireIsSlot

\* Two datagrams of one slot are a turn of the rotation apart.
LEMMA SlotReused ==
    ASSUME TypeOK, NEW m \in Nat \ {0}, NEW n \in Nat \ {0}, SlotOf(m) = SlotOf(n), n < m
    PROVE  n + kNumSendBuffers <= m
<1>1. m - 1 \in Nat /\ n - 1 \in Nat /\ n - 1 < m - 1 /\ kNumSendBuffers \in Nat \ {0}
  BY TypeFacts
<1>2. (n - 1) + kNumSendBuffers <= m - 1
  BY <1>1, ModulusApart DEF SlotOf
<1> QED BY <1>1, <1>2

LEMMA DeparturesKept ==
    ASSUME Departures, UNCHANGED <<sendBuf, written, wire>>,
           \A s \in SendSlots, n \in 1 .. MaxWrites : inflight'[Send(s, n)] = inflight[Send(s, n)],
           pc'["exec"] \in Submitting =>
               /\ pc["exec"] \in Submitting /\ op'["exec"] = op["exec"]
               /\ inflight'[op["exec"]] = inflight[op["exec"]]
    PROVE  Departures'
<1>1. Meant' = Meant
  BY DEF Meant
<1>2. \A s \in SendSlots : sendBuf'[s] # 0 => sendBuf'[s] <= written' /\ SlotOf(sendBuf'[s]) = s
  BY DEF Departures
<1>3. \A s \in SendSlots, n \in 1 .. MaxWrites : inflight'[Send(s, n)] > 0 =>
        /\ inflight'[Send(s, n)] = 1 /\ s = SlotOf(n) /\ n <= written'
        /\ sendBuf'[s] >= n /\ n \notin Meant'
  BY <1>1 DEF Departures
<1>4. pc'["exec"] \in Submitting =>
        /\ written' > 0 /\ op'["exec"] = Send(SlotOf(written'), written')
        /\ sendBuf'[SlotOf(written')] = written'
        /\ inflight'[Send(SlotOf(written'), written')] = 0 /\ written' \notin Meant'
  BY <1>1 DEF Departures
<1> QED BY <1>1, <1>2, <1>3, <1>4 DEF Departures, SlotOf

LEMMA SendSubmitted ==
    ASSUME TypeOK, QueueAlone, Departures, Submit("exec") PROVE Departures'
<1>1. /\ pc["exec"] = "submit" /\ pc'["exec"] = "idle" /\ UNCHANGED <<sendBuf, written, wire>>
  BY PcSet, ThreadsAre DEF Submit, pools, hist
<1>2. /\ written > 0 /\ op["exec"] = Send(SlotOf(written), written)
      /\ sendBuf[SlotOf(written)] = written
      /\ inflight[Send(SlotOf(written), written)] = 0 /\ written \notin Meant
  BY <1>1 DEF Departures, Submitting
<1>3. written \in 1 .. MaxWrites /\ written \in Nat \ {0}
  BY <1>2, TypeFacts DEF TypeOK
<1>4. SlotOf(written) \in SendSlots
  BY <1>3, SlotOfIsSlot
<1>5. \A o \in Ops : inflight'[o] = inflight[o] + (IF o = op["exec"] THEN 1 ELSE 0)
  BY SubmitAlone, ThreadsAre
<1>6. Meant' = Meant
  BY <1>1 DEF Meant
<1>7. ASSUME NEW s \in SendSlots, NEW n \in 1 .. MaxWrites, inflight'[Send(s, n)] > 0
      PROVE  /\ inflight'[Send(s, n)] = 1 /\ s = SlotOf(n) /\ n <= written'
             /\ sendBuf'[s] >= n /\ n \notin Meant'
  <2>1. Send(s, n) \in Ops /\ inflight[Send(s, n)] \in Nat
    BY OpFacts DEF TypeOK
  <2>2. CASE Send(s, n) = op["exec"]
    <3>1. s = SlotOf(written) /\ n = written
      BY <1>2, <1>3, <1>4, <2>2, OpFacts
    <3> QED BY <1>1, <1>2, <1>3, <1>5, <1>6, <2>1, <2>2, <3>1
  <2>3. CASE Send(s, n) # op["exec"]
    <3>1. inflight'[Send(s, n)] = inflight[Send(s, n)]
      BY <1>5, <2>1, <2>3
    <3> QED BY <1>1, <1>6, <1>7, <3>1 DEF Departures
  <2> QED BY <2>2, <2>3
<1>8. pc'["exec"] \notin Submitting
  BY <1>1 DEF Submitting
<1> QED BY <1>1, <1>6, <1>7, <1>8 DEF Departures, SlotOf

LEMMA SendWritten ==
    ASSUME TypeOK, Control, Departures, WriteBegins("exec") PROVE Departures'
<1> DEFINE w == written + 1
<1>1. /\ written < use.writes /\ written' = w /\ UNCHANGED <<inflight, wire>>
      /\ op' = [op EXCEPT !["exec"] = Send(Acquire(written), w)]
      /\ sendBuf' = [x \in DOMAIN sendBuf \cup {Acquire(written)} |->
                       IF x = Acquire(written) THEN w ELSE sendBuf[x]]
  BY DEF WriteBegins, Control, kernel
<1>2. written \in Nat /\ w \in Nat \ {0} /\ w \in 1 .. MaxWrites /\ w > written
  BY <1>1, TypeFacts, SMTT(30) DEF TypeOK
<1>3. SlotOf(w) = Acquire(written) /\ SlotOf(w) \in SendSlots
  BY <1>2, SlotOfIsSlot
<1>4. op'["exec"] = Send(SlotOf(w), w)
  BY <1>1, <1>3, ThreadsAre DEF TypeOK
<1>5. \A x \in SendSlots : sendBuf'[x] = IF x = SlotOf(w) THEN w ELSE sendBuf[x]
  BY <1>1, <1>3 DEF TypeOK
<1>6. Meant' = Meant /\ \A n \in Meant : n \in 1 .. written
  BY <1>1 DEF Meant, Departures
<1>7. \A n \in Meant : n \in 1 .. w
  BY <1>2, <1>6
<1>8. w \notin Meant
  BY <1>2, <1>6
<1>9. inflight[Send(SlotOf(w), w)] = 0
  <2>1. inflight[Send(SlotOf(w), w)] \in Nat
    BY <1>2, <1>3, OpFacts DEF TypeOK
  <2>2. inflight[Send(SlotOf(w), w)] > 0 => w <= written
    BY <1>2, <1>3 DEF Departures
  <2> QED BY <1>2, <2>1, <2>2
<1> HIDE DEF w
<1>10. ASSUME NEW s \in SendSlots, sendBuf'[s] # 0 PROVE sendBuf'[s] <= written' /\ SlotOf(sendBuf'[s]) = s
  <2>1. CASE s = SlotOf(w)
    BY <1>1, <1>2, <1>5, <2>1
  <2>2. CASE s # SlotOf(w)
    <3>1. sendBuf'[s] = sendBuf[s] /\ sendBuf[s] \in Nat
      BY <1>5, <2>2, TypeFacts DEF TypeOK
    <3>2. sendBuf[s] <= written /\ SlotOf(sendBuf[s]) = s
      BY <1>10, <3>1 DEF Departures
    <3> QED BY <1>1, <1>2, <3>1, <3>2
  <2> QED BY <2>1, <2>2
<1>11. ASSUME NEW s \in SendSlots, NEW n \in 1 .. MaxWrites, inflight'[Send(s, n)] > 0
       PROVE  /\ inflight'[Send(s, n)] = 1 /\ s = SlotOf(n) /\ n <= written'
              /\ sendBuf'[s] >= n /\ n \notin Meant'
  <2>1. inflight[Send(s, n)] = 1 /\ s = SlotOf(n) /\ n <= written /\ sendBuf[s] >= n /\ n \notin Meant
    BY <1>1, <1>11 DEF Departures
  <2>2. sendBuf'[s] >= n
    BY <1>2, <1>5, <2>1
  <2> QED BY <1>1, <1>2, <1>6, <2>1, <2>2
<1>12. /\ written' > 0 /\ op'["exec"] = Send(SlotOf(written'), written')
       /\ sendBuf'[SlotOf(written')] = written'
       /\ inflight'[Send(SlotOf(written'), written')] = 0 /\ written' \notin Meant'
  BY <1>1, <1>2, <1>3, <1>4, <1>5, <1>6, <1>8, <1>9
<1> QED BY <1>1, <1>6, <1>7, <1>10, <1>11, <1>12 DEF Departures, SlotOf

LEMMA SendLeaves ==
    ASSUME TypeOK, Departures, NEW o \in Ops, SendDone(o) PROVE Departures'
<1>1. /\ o.kind = "send" /\ inflight[o] > 0 /\ inflight' = [inflight EXCEPT ![o] = @ - 1]
      /\ wire' = Append(wire, [meant |-> o.item, sent |-> sendBuf[o.slot]])
      /\ UNCHANGED <<sendBuf, written, pc, op>>
  BY DEF SendDone, Done, pools, thread
<1>2. PICK s \in SendSlots, n \in 1 .. MaxWrites : o = Send(s, n) /\ o.slot = s /\ o.item = n
  BY <1>1, OpFacts
<1>3. inflight[o] = 1 /\ s = SlotOf(n) /\ n <= written /\ sendBuf[s] >= n /\ n \notin Meant
  BY <1>1, <1>2 DEF Departures
<1>4. inflight'[o] = 0 /\ \A x \in Ops \ {o} : inflight'[x] = inflight[x]
  BY <1>1, <1>3 DEF TypeOK
<1>5. n \in Nat \ {0} /\ sendBuf[s] \in Nat /\ written \in Nat /\ kNumSendBuffers \in Nat
  BY TypeFacts DEF TypeOK
<1>6. sendBuf[s] = n \/ sendBuf[s] >= n + kNumSendBuffers
  <2>1. sendBuf[s] # 0 /\ sendBuf[s] \in Nat \ {0} /\ SlotOf(sendBuf[s]) = SlotOf(n)
    BY <1>3, <1>5 DEF Departures
  <2> QED BY <1>3, <1>5, <2>1, SlotReused
<1>7. PICK m \in Nat : m = Len(wire) + 1
  BY DEF TypeOK
<1>8. /\ DOMAIN wire = 1 .. m - 1 /\ DOMAIN wire' = 1 .. m
      /\ \A i \in DOMAIN wire : wire'[i] = wire[i]
      /\ wire'[m] = [meant |-> n, sent |-> sendBuf[s]]
  <2>1. wire \in Seq([meant : Nat, sent : Nat]) /\ wire' = Append(wire, [meant |-> n, sent |-> sendBuf[s]])
    BY <1>1, <1>2 DEF TypeOK
  <2>2. Len(wire) \in Nat /\ m - 1 = Len(wire)
    BY <1>7, <2>1
  <2> QED BY <1>7, <2>1, <2>2, AppendAt
<1>9. wire'[m].meant = n /\ wire'[m].sent = sendBuf[s] /\ m \in DOMAIN wire' /\ m \notin DOMAIN wire
      /\ \A i \in DOMAIN wire' : i \in DOMAIN wire \/ i = m
  BY <1>7, <1>8
<1>10. Meant' = Meant \cup {n}
  <2>1. \A x \in Meant' : x \in Meant \cup {n}
    BY <1>8, <1>9 DEF Meant
  <2>2. \A x \in Meant : x \in Meant'
    BY <1>8, <1>9 DEF Meant
  <2>3. n \in Meant'
    BY <1>9 DEF Meant
  <2> QED BY <2>1, <2>2, <2>3
<1>11. \A i \in DOMAIN wire' : \/ wire'[i].sent = wire'[i].meant
                               \/ wire'[i].sent >= wire'[i].meant + kNumSendBuffers
  BY <1>6, <1>8, <1>9 DEF Departures
<1>12. \A i, j \in DOMAIN wire' : i # j => wire'[i].meant # wire'[j].meant
  <2>1. \A i \in DOMAIN wire : wire[i].meant # n
    BY <1>3 DEF Meant
  <2> QED BY <1>8, <1>9, <2>1 DEF Departures
<1>13. \A x \in Meant' : x \in 1 .. written'
  BY <1>1, <1>3, <1>5, <1>10 DEF Departures
<1>14. ASSUME NEW t \in SendSlots, NEW k \in 1 .. MaxWrites, inflight'[Send(t, k)] > 0
       PROVE  /\ inflight'[Send(t, k)] = 1 /\ t = SlotOf(k) /\ k <= written'
              /\ sendBuf'[t] >= k /\ k \notin Meant'
  <2>1. Send(t, k) \in Ops /\ Send(t, k) # o
    BY <1>4, <1>14, OpFacts
  <2>2. inflight[Send(t, k)] = 1 /\ t = SlotOf(k) /\ k <= written /\ sendBuf[t] >= k /\ k \notin Meant
        /\ inflight'[Send(t, k)] = inflight[Send(t, k)]
    BY <1>4, <1>14, <2>1 DEF Departures
  <2>3. k # n
    BY <1>2, <1>3, <2>1, <2>2
  <2> QED BY <1>1, <1>10, <2>2, <2>3
<1>15. ASSUME pc'["exec"] \in Submitting
       PROVE  /\ written' > 0 /\ op'["exec"] = Send(SlotOf(written'), written')
              /\ sendBuf'[SlotOf(written')] = written'
              /\ inflight'[Send(SlotOf(written'), written')] = 0 /\ written' \notin Meant'
  <2>1. /\ written > 0 /\ op["exec"] = Send(SlotOf(written), written)
        /\ sendBuf[SlotOf(written)] = written
        /\ inflight[Send(SlotOf(written), written)] = 0 /\ written \notin Meant
    BY <1>1, <1>15 DEF Departures
  <2>2. op["exec"] \in Ops /\ op["exec"] # o
    BY <1>3, <2>1, ThreadsAre DEF TypeOK
  <2>3. written # n
    BY <1>2, <1>3, <2>1, <2>2
  <2> QED BY <1>1, <1>4, <1>10, <2>1, <2>2, <2>3
<1>16. \A x \in SendSlots : sendBuf'[x] # 0 => sendBuf'[x] <= written' /\ SlotOf(sendBuf'[x]) = x
  BY <1>1 DEF Departures
<1> QED BY <1>11, <1>12, <1>13, <1>14, <1>15, <1>16 DEF Departures, SlotOf

LEMMA DeparturesStep ==
    ASSUME TypeOK, Control, NoArrivals, Alone, QueueAlone, Departures, Next PROVE Departures'
<1>0. pc["exec"] \in Submitting => op["exec"] \in Ops /\ op["exec"].kind = "send"
  <2>1. op["exec"] \in Ops
    BY ThreadsAre DEF TypeOK
  <2>2. pc["exec"] \in Submitting => op["exec"] = Send(SlotOf(written), written)
    BY DEF Departures
  <2> QED BY <2>1, <2>2 DEF Send
<1>1. CASE OpenFails \/ CloseBegins \/ CloseJoins \/ CloseEnds \/ CqExits \/ CqTakes
  <2>1. UNCHANGED <<sendBuf, written, wire, inflight>>
    BY <1>1 DEF OpenFails, CloseBegins, CloseJoins, CloseEnds, CqExits, CqTakes, kernel, pools, hist
  <2>2. pc'["exec"] = pc["exec"] \/ pc'["exec"] \in {"idle", "join", "exit", "open"}
    BY <1>1, PcSet, ThreadsAre, ZenonT(40)
       DEF OpenFails, CloseBegins, CloseJoins, CloseEnds, CqExits, CqTakes, CqReceives
  <2>3. op'["exec"] = op["exec"]
    BY <1>1, ThreadsAre
       DEF OpenFails, CloseBegins, CloseJoins, CloseEnds, CqExits, CqTakes, CqReceives, TypeOK
  <2> QED BY <2>1, <2>2, <2>3, DeparturesKept DEF Submitting
<1>2. CASE Open \/ CloseRing
  <2>1. UNCHANGED <<written, wire>> /\ pc'["exec"] \notin Submitting
    BY <1>2 DEF Open, CloseRing, hist, TypeOK, Threads, Submitting
  <2>2. \A s \in SendSlots, n \in 1 .. MaxWrites : inflight'[Send(s, n)] = 0
    BY <1>2, OpFacts DEF Open, CloseRing
  <2>3. sendBuf' = sendBuf \/ \A s \in SendSlots : sendBuf'[s] = 0
    BY <1>2 DEF Open, CloseRing, pools
  <2>4. \A s \in SendSlots : sendBuf'[s] # 0 => sendBuf'[s] <= written' /\ SlotOf(sendBuf'[s]) = s
    BY <2>1, <2>3 DEF Departures
  <2>5. Meant' = Meant
    BY <2>1 DEF Meant
  <2> QED BY <2>1, <2>2, <2>4, <2>5 DEF Departures, SlotOf
<1>3. ASSUME NEW t \in {"exec", "worker"}, WriteBegins(t) PROVE Departures'
  <2>1. t = "exec"
    BY <1>3, OneSubmits DEF WriteBegins
  <2> QED BY <1>3, <2>1, SendWritten
<1>4. ASSUME NEW t \in Threads, GetSqe(t) \/ SqFull(t) \/ TakeSqe(t) \/ Prep(t) PROVE Departures'
  <2>1. UNCHANGED <<sendBuf, written, wire, inflight, op>>
    BY <1>4 DEF GetSqe, SqFull, TakeSqe, Prep, kernel, pools, hist
  <2>2. pc'["exec"] = pc["exec"] \/ pc["exec"] \in Submitting
    BY <1>4, PcSet, ThreadsAre DEF GetSqe, SqFull, TakeSqe, Prep, Submitting
  <2> QED BY <2>1, <2>2, DeparturesKept
<1>5. ASSUME NEW t \in Threads, Submit(t) PROVE Departures'
  <2>1. CASE t = "exec"
    BY <1>5, <2>1, SendSubmitted
  <2>2. CASE t # "exec"
    <3>1. pc[t] = "submit" /\ UNCHANGED <<sendBuf, written, wire, op>> /\ pc'["exec"] = pc["exec"]
      BY <1>5, <2>2, PcSet, ThreadsAre DEF Submit, pools, hist
    <3>2. t = "cq" /\ op[t].kind = "recv"
      BY <2>2, <3>1, OneSubmits, ThreadsAre DEF Submitting, QueueAlone
    <3>3. \A x \in Ops : x.kind = "send" => inflight'[x] = inflight[x] + 0 /\ inflight[x] \in Nat
      BY <1>5, <3>2, SubmitAlone DEF TypeOK
    <3>4. \A x \in Ops : x.kind = "send" => inflight'[x] = inflight[x]
      BY <3>3
    <3>5. \A s \in SendSlots, n \in 1 .. MaxWrites : inflight'[Send(s, n)] = inflight[Send(s, n)]
      BY <3>4, OpFacts
    <3> QED BY <1>0, <3>1, <3>4, <3>5, DeparturesKept
  <2> QED BY <2>1, <2>2
<1>6. ASSUME NEW o \in Ops, NEW ok \in BOOLEAN, RecvDone(o, ok) \/ NopDone PROVE Departures'
  <2>1. UNCHANGED <<sendBuf, written, wire, pc, op>>
    BY <1>6 DEF RecvDone, NopDone, pools, hist, thread
  <2>2. PICK x \in Ops : x.kind # "send" /\ inflight' = [inflight EXCEPT ![x] = @ - 1]
    BY <1>6, OpFacts DEF RecvDone, NopDone, Done
  <2>3. \A y \in Ops : y.kind = "send" => inflight'[y] = inflight[y]
    BY <2>2 DEF TypeOK
  <2>4. \A s \in SendSlots, n \in 1 .. MaxWrites : inflight'[Send(s, n)] = inflight[Send(s, n)]
    BY <2>3, OpFacts
  <2> QED BY <1>0, <2>1, <2>3, <2>4, DeparturesKept
<1> QED
  <2>1. TRUE \in BOOLEAN /\ Nop \in Ops
    BY OpFacts
  <2> QED BY <1>1, <1>2, <1>3, <1>4, <1>5, <1>6, <2>1, SendLeaves, NextCases

-----------------------------------------------------------------------------
(* The theorems                                                            *)

LEMMA StepIInv == IInv /\ [Next]_vars => IInv'
<1> SUFFICES ASSUME IInv, [Next]_vars PROVE IInv'
  OBVIOUS
<1>1. CASE Next
  <2>1. use' = use
    BY <1>1, NextCases DEF OpenFails, Open, CloseBegins, CloseJoins, CloseRing, CloseEnds, WriteBegins,
          GetSqe, SqFull, TakeSqe, Prep, Submit, CqTakes, CqExits, NopDone, SendDone, RecvDone
  <2>2. Alone' <=> Alone
    BY <2>1 DEF Alone
  <2>3. TypeOK' /\ Control' /\ NoArrivals' /\ NothingHeld'
    BY <1>1, TypeStep, ControlStep, NoArrivalsStep, NothingHeldStep DEF IInv
  <2>4. Alone => QueueAlone' /\ SlotsStayArmed' /\ Arrivals' /\ Departures'
    BY <1>1, QueueStep, SlotsStep, ArrivalsStep, DeparturesStep DEF IInv
  <2> QED BY <2>2, <2>3, <2>4 DEF IInv
<1>2. CASE UNCHANGED vars
  <2>1. /\ UNCHANGED <<use, ready_, failed_, running_, ring_ready_, shutdown, opens, next_send_slot_>>
        /\ UNCHANGED <<sendBuf, recvBuf, sqe_tail, khead, entries, inflight, cq, pc, mine, op>>
        /\ UNCHANGED <<written, arrived, wire, delivered>>
    BY <1>2 DEF vars, flags, queue, kernel, thread, pools, hist
  <2>2. TypeOK' <=> TypeOK
    BY <2>1 DEF TypeOK
  <2>3. (Control' <=> Control) /\ (NoArrivals' <=> NoArrivals) /\ (NothingHeld' <=> NothingHeld)
    BY <2>1 DEF Control, NoArrivals, NothingHeld
  <2>4. (Alone' <=> Alone) /\ (QueueAlone' <=> QueueAlone)
    BY <2>1 DEF Alone, QueueAlone
  <2>5. SlotsStayArmed' <=> SlotsStayArmed
    BY <2>1 DEF SlotsStayArmed, Places, Alone
  <2>6. Arrivals' <=> Arrivals
    BY <2>1 DEF Arrivals, IsDatagram, Held
  <2>7. Departures' <=> Departures
    <3>1. Meant' = Meant
      BY <2>1 DEF Meant
    <3> QED BY <2>1, <3>1 DEF Departures, SlotOf
  <2> QED BY <2>2, <2>3, <2>4, <2>5, <2>6, <2>7 DEF IInv
<1> QED BY <1>1, <1>2

LEMMA UringIInv == Spec => []IInv
BY InitIInv, StepIInv, PTL DEF Spec

\* The threads of the interface work on slots of its pools and on a ring that exists,
\* however the pools are dimensioned and however often the interface is opened and closed:
\* unless a fault engine's worker writes too, no submission and no turn of completion_loop
\* comes after io_uring_queue_exit.
THEOREM UringInv == Spec => []Inv
<1>1. IInv => Inv
  <2> SUFFICES ASSUME IInv PROVE Inv
    OBVIOUS
  <2>1. TypeOK /\ Control
    BY DEF IInv
  <2>2. NoUseAfterExit
    <3> SUFFICES ASSUME "worker" \notin use.writers, NEW t \in Threads,
                        pc[t] \in {"get", "take", "prep", "submit", "loop"}
                 PROVE  ring_ready_
      BY DEF NoUseAfterExit
    <3>1. CASE t = "exec"
      BY <2>1, <3>1 DEF Control, Submitting
    <3>2. CASE t = "worker"
      BY <2>1, <3>2 DEF Control, Submitting
    <3>3. CASE t = "cq"
      BY <2>1, <3>3 DEF Control
    <3> QED BY <3>1, <3>2, <3>3, ThreadsAre
  <2> QED BY <2>1, <2>2 DEF Inv
<1> QED BY <1>1, UringIInv, PTL

\* While one thread submits at a time, every receive slot is in exactly one place (with the
\* kernel, completed, or being armed again) and completion_loop hands what arrives to
\* recv_cb_ once and in the order of arrival, for any number of slots and of datagrams.
THEOREM UringReceives == Spec => []Receives
<1>1. IInv => Receives
  BY DEF IInv, Receives, SlotsStayArmed, DeliveredInOrder, Arrivals
<1> QED BY <1>1, UringIInv, PTL

\* While one thread submits at a time, write() puts every datagram on the wire at most once
\* and with its own bytes, unless acquire_send_slot has come around the whole pool since.
THEOREM UringSentIntact == Spec => []SentIntact
<1>1. IInv => SentIntact
  BY DEF IInv, SentIntact, Departures
<1> QED BY <1>1, UringIInv, PTL
=============================================================================
