---------------------------- MODULE BridgeProofs ----------------------------
(***************************************************************************)
(* Proofs about Bridge for every set of configurations, every capacity of  *)
(* the ring, and any number of messages, datagrams and failures.           *)
(***************************************************************************)
EXTENDS Bridge, SequenceTheorems, WellFoundedInduction, TLAPS

-----------------------------------------------------------------------------
(* The inductive invariant                                                 *)

IsSeq(s) == s \in Seq(Range(s))

\* A record with the manager's fields.
ManagerFields == {"subscriber", "received_msg_", "ring", "current_frame_", "captured", "enqueued",
                  "dropped", "tf_id_", "tfs_"}
IsManager(m) == m = [x \in ManagerFields |-> m[x]]

InRing(m) == {m.ring[i].n : i \in DOMAIN m.ring}

\* The frames a manager has handed out.
TakenOf(m) == {f \in 1 .. m.captured : f \notin m.dropped /\ f \notin InRing(m)}

\* The ring holds frames in the order of capture, all captured after the one handed out
\* last and none of them dropped; a manager that has received something can hand it out.
RingOk(m) ==
    /\ IsManager(m) /\ IsSeq(m.ring) /\ m.captured \in Nat /\ m.enqueued \in Nat
    /\ Len(m.ring) <= Capacity /\ m.enqueued >= Len(m.ring)
    /\ \A i \in DOMAIN m.ring : /\ m.ring[i].n \in 1 .. m.captured /\ m.ring[i].n \notin m.dropped
                                /\ m.ring[i].n > m.current_frame_.n
    /\ \A i, j \in DOMAIN m.ring : i < j => m.ring[i].n < m.ring[j].n
    /\ m.dropped \subseteq 1 .. m.captured /\ m.current_frame_.n \in Nat
    /\ m.current_frame_ = NoFrame \/ m.current_frame_.n \in TakenOf(m)
    /\ m.received_msg_ => m.ring # << >> \/ m.current_frame_ # NoFrame

\* Packet p may go out before packet q.
Precedes(p, q, c) ==
    \/ p.seq < q.seq /\ (p.frame.n < q.frame.n \/ (c.stale /\ p.frame = q.frame))
    \/ p.via = "late" /\ q.via = "delayed"

Ordered(s, c) == \A i, j \in DOMAIN s : i < j => Precedes(s[i], s[j], c)

AllPrecede(P, Q, c) == \A p \in P, q \in Q : Precedes(p, q, c)

\* Packet p was made before sequence number seq, and of the frame handed out last or an
\* earlier one.
MadeBefore(p, seq, last) ==
    /\ p.seq \in Nat /\ p.seq < seq /\ p.frame.n \in Nat
    /\ p.frame.n < last.n \/ p.frame = last

\* Packets on their way: from the engine's queue to its worker to the wire.
Queues == /\ IsSeq(wire) /\ IsSeq(delayed) /\ IsSeq(worker) /\ IsSeq(wal)
          /\ worker = << >> \/ worker = <<Head(worker)>>
          /\ ~config.delay \/ window = "before" => delayed = << >> /\ worker = << >>
          /\ \A p \in Range(delayed) \cup Range(worker) : p.via = "delayed"

Made == Range(wire) \cup Range(worker) \cup Range(delayed)

\* The packets are in the order in which they were made.
Line ==
    /\ Ordered(wire, config) /\ Ordered(delayed, config)
    /\ AllPrecede(Range(wire), Range(worker), config)
    /\ AllPrecede(Range(wire), Range(delayed), config)
    /\ AllPrecede(Range(worker), Range(delayed), config)
    /\ \A p \in Made : MadeBefore(p, tx_sequence_, mgr.current_frame_)

\* The log has packet p.
InLog(p, log) == \E k \in DOMAIN log : log[k].seq = p.seq /\ log[k].frame = p.frame

\* The log has every packet but the ones append() refused, in the order they were made.
Logged ==
    config.wal => /\ \A p \in Made : p.seq \in unlogged \/ InLog(p, wal)
                  /\ \A k, l \in DOMAIN wal : k < l => wal[k].seq < wal[l].seq
                  /\ \A k \in DOMAIN wal : /\ wal[k].seq \in Nat /\ wal[k].seq < tx_sequence_
                                           /\ wal[k].seq \notin unlogged
                  /\ \A n \in unlogged : n \in Nat /\ n < tx_sequence_

\* Every frame handed out is somewhere.
Ledger == TakenOf(mgr) = FramesOf(wire) \cup FramesOf(delayed) \cup FramesOf(worker) \cup lost
                             \cup vanished

\* Nothing has been sent before the node is initialized.
BeforeSpin ==
    mpc = "init" => /\ wire = << >> /\ delayed = << >> /\ worker = << >> /\ lost = {}
                    /\ vanished = {} /\ wal = << >> /\ unlogged = {}

\* The interface is there from initialize() until shutdown() clears it, and nothing
\* vanishes before that.
NetOk ==
    /\ net \in [alive : BOOLEAN, ready : BOOLEAN, failed : BOOLEAN, fails : Nat]
    /\ net.alive \/ mpc \in {"init", "flush", "done"}
    /\ mpc \in {"flush", "done"} => ~net.alive
    /\ vanished # {} => config.delay /\ mpc \in {"flush", "done"}

IoStates == [pc : {"off", "run", "callback", "decode", "publish"}, armed : BOOLEAN, deaf : BOOLEAN,
             stopped : BOOLEAN, data : Seq(Nat), arrivals : Nat]

\* The io thread.
IoOk ==
    /\ io \in IoStates
    /\ mpc = "init" => io.pc = "off"

\* The publishers are those of the topics seen so far, each of its first message's type,
\* until shutdown() lets them go; a message about to be published has one.
PublishersOk ==
    /\ inners \in Seq(Seq(Nat))
    /\ mpc \notin {"flush", "done"} =>
          /\ \A t \in DOMAIN publishers_ : FirstTypeOn(t, publishers_[t])
          /\ \A m \in DOMAIN inners : \A t : IsOn(inners[m], t) => t \in DOMAIN publishers_
    /\ io.pc = "publish" =>
          Wellformed(io.data) /\ ParseHeader(io.data).topic \in DOMAIN publishers_

Typed ==
    /\ config \in Configs /\ advertised \in BOOLEAN
    /\ mpc \in {"init", "spin", "join", "clear", "flush", "done", "stuck", "terminated"}
    /\ window \in {"before", "open", "after"}
    /\ heard \in 0 .. config.msgs /\ known \in [Edges -> 0 .. config.msgs]
    /\ tx_sequence_ \in Nat

TxOk == Queues /\ Line /\ Logged /\ Ledger /\ BeforeSpin
RxOk == IoOk /\ StaysArmed /\ NoCallbackAfterClear /\ PublishersOk /\ PublishesWhatWasFramed

\* The inductive invariant.
Core == Typed /\ RingOk(mgr) /\ mgr.captured <= heard /\ TxOk /\ RxOk
IInv == Core /\ NetOk

-----------------------------------------------------------------------------
(* Sequences                                                               *)

LEMMA SeqIsSeq ==
    ASSUME NEW X, NEW s \in Seq(X) PROVE IsSeq(s)
<1>1. Len(s) \in Nat /\ DOMAIN s = 1 .. Len(s) /\ s \in [1 .. Len(s) -> X]
  OBVIOUS
<1>2. \A i \in 1 .. Len(s) : s[i] \in Range(s)
  BY <1>1 DEF Range
<1>3. s \in [1 .. Len(s) -> Range(s)]
  BY <1>1, <1>2
<1>4. s \in Seq(Range(s))
  BY <1>1, <1>3, SeqDef
<1> QED BY <1>4 DEF IsSeq

LEMMA SeqAppend ==
    ASSUME NEW s, IsSeq(s), NEW e
    PROVE  /\ IsSeq(Append(s, e)) /\ Range(Append(s, e)) = Range(s) \cup {e}
           /\ Len(s) \in Nat /\ Len(Append(s, e)) = Len(s) + 1 /\ Append(s, e) # << >>
           /\ DOMAIN s = 1 .. Len(s) /\ DOMAIN Append(s, e) = 1 .. Len(s) + 1
           /\ \A i \in 1 .. Len(s) : Append(s, e)[i] = s[i]
           /\ Append(s, e)[Len(s) + 1] = e
<1>0. s \in Seq(Range(s) \cup {e}) /\ e \in Range(s) \cup {e}
  BY DEF IsSeq
<1>1. /\ Append(s, e) \in Seq(Range(s) \cup {e}) /\ Len(s) \in Nat /\ Len(Append(s, e)) = Len(s) + 1
      /\ DOMAIN s = 1 .. Len(s) /\ DOMAIN Append(s, e) = 1 .. Len(s) + 1
      /\ \A i \in 1 .. Len(s) : Append(s, e)[i] = s[i]
      /\ Append(s, e)[Len(s) + 1] = e
  BY <1>0
<1>2. Range(Append(s, e)) = Range(s) \cup {e}
  <2>1. \A x \in Range(Append(s, e)) : x \in Range(s) \cup {e}
    BY <1>1 DEF Range
  <2>2. \A x \in Range(s) : x \in Range(Append(s, e))
    BY <1>1 DEF Range
  <2>3. e \in Range(Append(s, e))
    BY <1>1 DEF Range
  <2> QED BY <2>1, <2>2, <2>3
<1>3. Append(s, e) # << >>
  BY <1>1
<1> QED BY <1>1, <1>2, <1>3 DEF IsSeq

LEMMA SeqTail ==
    ASSUME NEW s, IsSeq(s), s # << >>
    PROVE  /\ IsSeq(Tail(s)) /\ Range(s) = {Head(s)} \cup Range(Tail(s))
           /\ Len(s) \in Nat \ {0} /\ Len(Tail(s)) = Len(s) - 1
           /\ DOMAIN s = 1 .. Len(s) /\ DOMAIN Tail(s) = 1 .. Len(s) - 1
           /\ Head(s) = s[1] /\ \A i \in 1 .. Len(s) - 1 : Tail(s)[i] = s[i + 1]
<1>0. s \in Seq(Range(s))
  BY DEF IsSeq
<1>1. /\ Tail(s) \in Seq(Range(s)) /\ Len(s) \in Nat \ {0} /\ Len(Tail(s)) = Len(s) - 1
      /\ DOMAIN s = 1 .. Len(s) /\ DOMAIN Tail(s) = 1 .. Len(s) - 1
      /\ Head(s) = s[1] /\ \A i \in 1 .. Len(s) - 1 : Tail(s)[i] = s[i + 1]
  BY <1>0
<1>2. Range(s) = {Head(s)} \cup Range(Tail(s))
  <2>1. ASSUME NEW i \in DOMAIN s PROVE s[i] \in {Head(s)} \cup Range(Tail(s))
    <3>1. CASE i = 1
      BY <1>1, <3>1
    <3>2. CASE i # 1
      <4>1. i - 1 \in 1 .. Len(s) - 1 /\ s[i] = Tail(s)[i - 1]
        BY <1>1, <3>2
      <4> QED BY <1>1, <4>1 DEF Range
    <3> QED BY <3>1, <3>2
  <2>2. \A x \in Range(Tail(s)) : x \in Range(s)
    BY <1>1 DEF Range
  <2>3. Head(s) \in Range(s)
    BY <1>1 DEF Range
  <2> QED BY <2>1, <2>2, <2>3 DEF Range
<1>3. IsSeq(Tail(s))
  BY <1>1, SeqIsSeq
<1> QED BY <1>1, <1>2, <1>3

LEMMA SeqEmpty == IsSeq(<< >>) /\ Range(<< >>) = {} /\ FramesOf(<< >>) = {}
BY DEF IsSeq, Range, FramesOf

LEMMA SeqOne ==
    ASSUME NEW e
    PROVE  /\ IsSeq(<<e>>) /\ Range(<<e>>) = {e} /\ FramesOf(<<e>>) = {e.frame.n}
           /\ Head(<<e>>) = e /\ <<e>> # << >>
<1>1. /\ DOMAIN <<e>> = {1} /\ <<e>>[1] = e /\ Head(<<e>>) = e /\ <<e>> # << >> /\ <<e>> \in Seq({e})
  OBVIOUS
<1>2. Range(<<e>>) = {e} /\ FramesOf(<<e>>) = {e.frame.n}
  BY <1>1 DEF Range, FramesOf
<1> QED BY <1>1, <1>2 DEF IsSeq

LEMMA FramesAre ==
    ASSUME NEW s PROVE FramesOf(s) = {p.frame.n : p \in Range(s)}
BY DEF FramesOf, Range

LEMMA OrderedAppend ==
    ASSUME NEW s, IsSeq(s), NEW e, NEW c, Ordered(s, c), \A p \in Range(s) : Precedes(p, e, c)
    PROVE  Ordered(Append(s, e), c)
<1>1. \A i \in DOMAIN s : Precedes(s[i], e, c)
  BY DEF Range
<1> SUFFICES ASSUME NEW i \in DOMAIN Append(s, e), NEW j \in DOMAIN Append(s, e), i < j
             PROVE  Precedes(Append(s, e)[i], Append(s, e)[j], c)
  BY DEF Ordered
<1>2. i \in DOMAIN s /\ Append(s, e)[i] = s[i]
  BY SeqAppend
<1>3. CASE j \in DOMAIN s
  BY <1>2, <1>3, SeqAppend DEF Ordered
<1>4. CASE j = Len(s) + 1
  BY <1>1, <1>2, <1>4, SeqAppend
<1> QED BY <1>3, <1>4, SeqAppend

LEMMA OrderedTail ==
    ASSUME NEW s, IsSeq(s), s # << >>, NEW c, Ordered(s, c)
    PROVE  Ordered(Tail(s), c) /\ \A p \in Range(Tail(s)) : Precedes(Head(s), p, c)
<1>1. \A i, j \in DOMAIN Tail(s) : i < j => i + 1 \in DOMAIN s /\ j + 1 \in DOMAIN s /\ i + 1 < j + 1
                                         /\ Tail(s)[i] = s[i + 1] /\ Tail(s)[j] = s[j + 1]
  BY SeqTail
<1>2. \A i \in DOMAIN Tail(s) : 1 \in DOMAIN s /\ i + 1 \in DOMAIN s /\ 1 < i + 1 /\ Tail(s)[i] = s[i + 1]
                                /\ Head(s) = s[1]
  BY SeqTail
<1>3. Ordered(Tail(s), c)
  BY <1>1 DEF Ordered
<1>4. \A i \in DOMAIN Tail(s) : Precedes(Head(s), Tail(s)[i], c)
  BY <1>2 DEF Ordered
<1> QED BY <1>3, <1>4 DEF Range

-----------------------------------------------------------------------------
(* The subscription manager                                                *)

\* The rest of the manager is as in m.
SameRing(m, k) ==
    /\ k.received_msg_ = m.received_msg_ /\ k.ring = m.ring /\ k.current_frame_ = m.current_frame_
    /\ k.captured = m.captured /\ k.enqueued = m.enqueued /\ k.dropped = m.dropped

LEMMA SameRingOk ==
    ASSUME NEW m, NEW k, RingOk(m), IsManager(k), SameRing(m, k)
    PROVE  RingOk(k) /\ TakenOf(k) = TakenOf(m)
<1>1. TakenOf(k) = TakenOf(m)
  BY DEF SameRing, TakenOf, InRing
<1> QED BY <1>1 DEF SameRing, RingOk

LEMMA NewOk == RingOk(NewManager) /\ TakenOf(NewManager) = {} /\ NewManager.captured = 0
               /\ NewManager.current_frame_ = NoFrame
<1>1. /\ NewManager.ring = << >> /\ NewManager.captured = 0 /\ NewManager.enqueued = 0
      /\ NewManager.dropped = {} /\ NewManager.current_frame_ = NoFrame /\ NewManager.received_msg_ = FALSE
      /\ IsManager(NewManager)
  BY DEF NewManager, IsManager, ManagerFields
<1>2. NoFrame.n = 0
  BY DEF NoFrame
<1>3. TakenOf(NewManager) = {}
  BY <1>1 DEF TakenOf
<1> QED BY <1>1, <1>2, <1>3, SeqEmpty, BridgeAssumption DEF RingOk

LEMMA CheckedOk ==
    ASSUME NEW m, RingOk(m)
    PROVE  RingOk(Checked(m)) /\ SameRing(m, Checked(m)) /\ TakenOf(Checked(m)) = TakenOf(m)
<1>1. IsManager(Checked(m)) /\ SameRing(m, Checked(m))
  BY DEF RingOk, IsManager, ManagerFields, SameRing, Checked
<1> QED BY <1>1, SameRingOk

LEMMA CapturedFields ==
    ASSUME NEW m, IsManager(m), NEW data
    PROVE  LET k == Captured(m, data)
               f == [n |-> m.captured + 1, data |-> data]
           IN  /\ IsManager(k) /\ k.received_msg_ = TRUE /\ k.captured = m.captured + 1
               /\ k.current_frame_ = m.current_frame_
               /\ Len(m.ring) = Capacity =>
                    k.ring = m.ring /\ k.enqueued = m.enqueued /\ k.dropped = m.dropped \cup {m.captured + 1}
               /\ Len(m.ring) # Capacity =>
                    k.ring = Append(m.ring, f) /\ k.enqueued = m.enqueued + 1 /\ k.dropped = m.dropped
<1> DEFINE full == Len(m.ring) = Capacity
           f == [n |-> m.captured + 1, data |-> data]
           r == IF full THEN m.ring ELSE Append(m.ring, f)
           e == IF full THEN m.enqueued ELSE m.enqueued + 1
           d == IF full THEN m.dropped \cup {m.captured + 1} ELSE m.dropped
           c == m.captured + 1
           k == [m EXCEPT !.received_msg_ = TRUE, !.captured = c, !.ring = r, !.enqueued = e, !.dropped = d]
<1>1. Captured(m, data) = k
  BY DEF Captured, IsManager, ManagerFields
<1>2. /\ IsManager(k) /\ k.received_msg_ = TRUE /\ k.captured = c /\ k.current_frame_ = m.current_frame_
      /\ k.ring = r /\ k.enqueued = e /\ k.dropped = d
  <2> HIDE DEF r, e, d, c
  <2> QED BY DEF IsManager, ManagerFields
<1> HIDE DEF k
<1> QED BY <1>1, <1>2

LEMMA CapturedOk ==
    ASSUME NEW m, RingOk(m), NEW data
    PROVE  /\ RingOk(Captured(m, data)) /\ TakenOf(Captured(m, data)) = TakenOf(m)
           /\ Captured(m, data).captured = m.captured + 1
           /\ Captured(m, data).current_frame_ = m.current_frame_
<1> DEFINE k == Captured(m, data)
           f == [n |-> m.captured + 1, data |-> data]
<1>1. /\ IsManager(m) /\ IsSeq(m.ring) /\ m.captured \in Nat /\ m.enqueued \in Nat
      /\ Len(m.ring) <= Capacity /\ m.enqueued >= Len(m.ring)
      /\ m.current_frame_.n \in Nat /\ m.dropped \subseteq 1 .. m.captured
      /\ m.current_frame_ = NoFrame \/ m.current_frame_.n \in TakenOf(m)
  BY DEF RingOk
<1>2. /\ IsManager(k) /\ k.received_msg_ = TRUE /\ k.captured = m.captured + 1
      /\ k.current_frame_ = m.current_frame_
  BY <1>1, CapturedFields
<1>0. m.current_frame_.n < m.captured + 1
  <2>1. NoFrame.n = 0
    BY DEF NoFrame
  <2> QED BY <1>1, <2>1 DEF TakenOf
<1>3. CASE Len(m.ring) = Capacity
  <2>1. k.ring = m.ring /\ k.enqueued = m.enqueued /\ k.dropped = m.dropped \cup {m.captured + 1}
    BY <1>1, <1>3, CapturedFields
  <2> HIDE DEF k
  <2>2. TakenOf(k) = TakenOf(m)
    <3>1. InRing(k) = InRing(m)
      BY <2>1 DEF InRing
    <3> QED BY <1>1, <1>2, <2>1, <3>1 DEF TakenOf
  <2>3. m.ring # << >>
    BY <1>3, BridgeAssumption
  <2>4. \A i \in DOMAIN k.ring : /\ k.ring[i].n \in 1 .. k.captured /\ k.ring[i].n \notin k.dropped
                                 /\ k.ring[i].n > k.current_frame_.n
    BY <1>1, <1>2, <2>1 DEF RingOk
  <2>5. RingOk(k)
    BY <1>1, <1>2, <2>1, <2>2, <2>3, <2>4 DEF RingOk
  <2> QED BY <1>2, <2>2, <2>5 DEF k
<1>4. CASE Len(m.ring) # Capacity
  <2>1. k.ring = Append(m.ring, f) /\ k.enqueued = m.enqueued + 1 /\ k.dropped = m.dropped
    BY <1>1, <1>4, CapturedFields
  <2> HIDE DEF k
  <2>2. /\ IsSeq(k.ring) /\ Len(m.ring) \in Nat /\ Len(k.ring) = Len(m.ring) + 1 /\ k.ring # << >>
        /\ DOMAIN m.ring = 1 .. Len(m.ring) /\ DOMAIN k.ring = 1 .. Len(m.ring) + 1
        /\ \A i \in 1 .. Len(m.ring) : k.ring[i] = m.ring[i]
        /\ k.ring[Len(m.ring) + 1].n = m.captured + 1
    <3>1. f.n = m.captured + 1
      OBVIOUS
    <3> HIDE DEF f
    <3>2. /\ IsSeq(Append(m.ring, f)) /\ Len(m.ring) \in Nat /\ Len(Append(m.ring, f)) = Len(m.ring) + 1
          /\ Append(m.ring, f) # << >> /\ DOMAIN m.ring = 1 .. Len(m.ring)
          /\ DOMAIN Append(m.ring, f) = 1 .. Len(m.ring) + 1
          /\ \A i \in 1 .. Len(m.ring) : Append(m.ring, f)[i] = m.ring[i]
          /\ Append(m.ring, f)[Len(m.ring) + 1] = f
      BY <1>1, SeqAppend
    <3> QED BY <2>1, <3>1, <3>2
  <2>3. InRing(k) = InRing(m) \cup {m.captured + 1}
    <3>1. \A x \in InRing(k) : x \in InRing(m) \cup {m.captured + 1}
      BY <2>2, SMTT(30) DEF InRing
    <3>2. \A x \in InRing(m) : x \in InRing(k)
      BY <2>2 DEF InRing
    <3>3. m.captured + 1 \in InRing(k)
      BY <2>2 DEF InRing
    <3> QED BY <3>1, <3>2, <3>3
  <2>4. TakenOf(k) = TakenOf(m)
    BY <1>1, <1>2, <2>1, <2>3 DEF TakenOf
  <2>5. \A i \in DOMAIN m.ring : /\ m.ring[i].n \in 1 .. m.captured /\ m.ring[i].n \notin m.dropped
                                 /\ m.ring[i].n > m.current_frame_.n
    BY DEF RingOk
  <2>6. \A i \in DOMAIN k.ring : /\ k.ring[i].n \in 1 .. k.captured /\ k.ring[i].n \notin k.dropped
                                 /\ k.ring[i].n > k.current_frame_.n
    BY <1>0, <1>1, <1>2, <2>1, <2>2, <2>5, SMTT(30)
  <2>7. \A i, j \in DOMAIN k.ring : i < j => k.ring[i].n < k.ring[j].n
    <3>1. \A i, j \in DOMAIN m.ring : i < j => m.ring[i].n < m.ring[j].n
      BY DEF RingOk
    <3> SUFFICES ASSUME NEW i \in DOMAIN k.ring, NEW j \in DOMAIN k.ring, i < j
                 PROVE  k.ring[i].n < k.ring[j].n
      OBVIOUS
    <3>2. i \in DOMAIN m.ring /\ k.ring[i] = m.ring[i]
      BY <2>2
    <3>3. CASE j \in DOMAIN m.ring
      BY <2>2, <3>1, <3>2, <3>3
    <3>4. CASE j = Len(m.ring) + 1
      BY <1>1, <2>2, <2>5, <3>2, <3>4
    <3> QED BY <2>2, <3>3, <3>4
  <2>8. Len(k.ring) <= Capacity /\ k.enqueued >= Len(k.ring) /\ k.enqueued \in Nat /\ k.captured \in Nat
        /\ k.dropped \subseteq 1 .. k.captured
    BY <1>1, <1>2, <1>4, <2>1, <2>2, BridgeAssumption, SMTT(30)
  <2>9. RingOk(k)
    BY <1>1, <1>2, <2>2, <2>4, <2>6, <2>7, <2>8 DEF RingOk
  <2> QED BY <1>2, <2>4, <2>9 DEF k
<1> QED BY <1>3, <1>4

\* f has the TF list after each of the first transforms of msg.
IsTaken(f, list, msg, last) ==
    f = [i \in 0 .. last |-> IF i = 0 THEN list ELSE TfTakes(f[i - 1], msg[i])]

TfListOf(m) == [subscriber |-> m.subscriber, tf_id_ |-> m.tf_id_, tfs_ |-> m.tfs_]

WithList(m, t) == [m EXCEPT !.subscriber = t.subscriber, !.tf_id_ = t.tf_id_, !.tfs_ = t.tfs_]

\* The TF list after msg.
TfListAfter(m, msg) == (CHOOSE f : IsTaken(f, TfListOf(m), msg, Len(msg)))[Len(msg)]

LEMMA TfCapturedIs ==
    ASSUME NEW m, NEW msg
    PROVE  LET after == WithList(m, TfListAfter(m, msg))
           IN  TfCaptured(m, msg) = IF after.subscriber THEN Captured(after, after.tfs_) ELSE after
BY DEF TfCaptured, TfListAfter, IsTaken, TfListOf, WithList

LEMMA TfCapturedOk ==
    ASSUME NEW m, RingOk(m), NEW msg
    PROVE  LET k == TfCaptured(m, msg)
           IN  /\ RingOk(k) /\ TakenOf(k) = TakenOf(m) /\ k.captured \in {m.captured, m.captured + 1}
               /\ k.current_frame_ = m.current_frame_
<1> DEFINE t == TfListAfter(m, msg)
           after == WithList(m, t)
           k == TfCaptured(m, msg)
<1>1. k = IF after.subscriber THEN Captured(after, after.tfs_) ELSE after
  BY TfCapturedIs
<1>2. IsManager(after) /\ SameRing(m, after)
  <2> HIDE DEF t
  <2> QED BY DEF RingOk, IsManager, ManagerFields, SameRing, WithList
<1> HIDE DEF after, k
<1>3. RingOk(after) /\ TakenOf(after) = TakenOf(m) /\ after.captured = m.captured
      /\ after.current_frame_ = m.current_frame_
  BY <1>2, SameRingOk DEF SameRing
<1>4. /\ RingOk(k) /\ TakenOf(k) = TakenOf(m) /\ k.captured \in {m.captured, m.captured + 1}
      /\ k.current_frame_ = m.current_frame_
  BY <1>1, <1>3, CapturedOk
<1> QED BY <1>4 DEF k

LEMMA GotFields ==
    ASSUME NEW m, IsManager(m), m.ring # << >>
    PROVE  LET k == Got(m)
           IN  /\ IsManager(k) /\ k.ring = Tail(m.ring) /\ k.current_frame_ = Head(m.ring)
               /\ k.captured = m.captured /\ k.enqueued = m.enqueued /\ k.dropped = m.dropped
               /\ k.received_msg_ = m.received_msg_
BY DEF IsManager, ManagerFields, Got

LEMMA GotOk ==
    ASSUME NEW m, RingOk(m)
    PROVE  LET k == Got(m)
           IN  /\ RingOk(k) /\ k.captured = m.captured
               /\ m.ring = << >> => k = m
               /\ m.ring # << >> => /\ k.current_frame_ = Head(m.ring)
                                    /\ k.current_frame_.n > m.current_frame_.n
                                    /\ TakenOf(k) = TakenOf(m) \cup {k.current_frame_.n}
<1> DEFINE k == Got(m)
<1>1. CASE m.ring = << >>
  BY <1>1 DEF Got
<1>2. CASE m.ring # << >>
  <2>1. /\ IsManager(k) /\ k.ring = Tail(m.ring) /\ k.current_frame_ = Head(m.ring)
        /\ k.captured = m.captured /\ k.enqueued = m.enqueued /\ k.dropped = m.dropped
        /\ k.received_msg_ = m.received_msg_
    BY <1>2, GotFields DEF RingOk
  <2> HIDE DEF k
  <2>2. /\ IsSeq(k.ring) /\ Len(m.ring) \in Nat \ {0} /\ Len(k.ring) = Len(m.ring) - 1
        /\ DOMAIN m.ring = 1 .. Len(m.ring) /\ DOMAIN k.ring = 1 .. Len(m.ring) - 1
        /\ k.current_frame_ = m.ring[1] /\ \A i \in 1 .. Len(m.ring) - 1 : k.ring[i] = m.ring[i + 1]
    BY <1>2, <2>1, SeqTail DEF RingOk
  <2>3. \A i \in DOMAIN m.ring : /\ m.ring[i].n \in 1 .. m.captured /\ m.ring[i].n \notin m.dropped
                                 /\ m.ring[i].n > m.current_frame_.n
    BY DEF RingOk
  <2>4. \A i, j \in DOMAIN m.ring : i < j => m.ring[i].n < m.ring[j].n
    BY DEF RingOk
  <2>5. 1 \in DOMAIN m.ring /\ \A i \in DOMAIN k.ring : i + 1 \in DOMAIN m.ring /\ 1 < i + 1
                                                     /\ k.ring[i] = m.ring[i + 1]
    BY <2>2
  <2>6. /\ k.current_frame_.n \in 1 .. m.captured /\ k.current_frame_.n \notin m.dropped
        /\ k.current_frame_.n > m.current_frame_.n
    BY <2>2, <2>3, <2>5
  <2>7. \A i \in DOMAIN k.ring : /\ k.ring[i].n \in 1 .. k.captured /\ k.ring[i].n \notin k.dropped
                                 /\ k.ring[i].n > k.current_frame_.n
    BY <2>1, <2>2, <2>3, <2>4, <2>5
  <2>8. \A i, j \in DOMAIN k.ring : i < j => k.ring[i].n < k.ring[j].n
    <3> SUFFICES ASSUME NEW i \in DOMAIN k.ring, NEW j \in DOMAIN k.ring, i < j
                 PROVE  k.ring[i].n < k.ring[j].n
      OBVIOUS
    <3>1. i + 1 < j + 1
      BY <2>2
    <3> QED BY <2>4, <2>5, <3>1
  <2>9. InRing(m) = InRing(k) \cup {k.current_frame_.n} /\ k.current_frame_.n \notin InRing(k)
    <3>1. ASSUME NEW i \in DOMAIN m.ring PROVE m.ring[i].n \in InRing(k) \cup {k.current_frame_.n}
      <4>1. CASE i = 1
        BY <2>2, <4>1
      <4>2. CASE i # 1
        <5>1. i - 1 \in DOMAIN k.ring /\ k.ring[i - 1] = m.ring[i]
          BY <2>2, <4>2
        <5> QED BY <5>1 DEF InRing
      <4> QED BY <4>1, <4>2
    <3>2. \A x \in InRing(k) : x \in InRing(m)
      BY <2>5 DEF InRing
    <3>3. k.current_frame_.n \in InRing(m)
      BY <2>2, <2>5 DEF InRing
    <3>4. k.current_frame_.n \notin InRing(k)
      BY <2>6, <2>7 DEF InRing
    <3> QED BY <3>1, <3>2, <3>3, <3>4 DEF InRing
  <2>10. TakenOf(k) = TakenOf(m) \cup {k.current_frame_.n}
    BY <2>1, <2>6, <2>9 DEF TakenOf
  <2>11. k.current_frame_ # NoFrame
    BY <2>6 DEF NoFrame
  <2>12. m.captured \in Nat /\ m.enqueued \in Nat /\ Len(m.ring) <= Capacity /\ m.enqueued >= Len(m.ring)
         /\ m.dropped \subseteq 1 .. m.captured
    BY DEF RingOk
  <2>13. Len(k.ring) <= Capacity /\ k.enqueued >= Len(k.ring)
    BY <2>1, <2>2, <2>12, BridgeAssumption
  <2>14. RingOk(k)
    BY <2>1, <2>2, <2>6, <2>7, <2>8, <2>10, <2>11, <2>12, <2>13 DEF RingOk
  <2> QED BY <1>2, <2>1, <2>6, <2>10, <2>14 DEF k
<1> QED BY <1>1, <1>2

-----------------------------------------------------------------------------
(* The inner header                                                        *)

LEMMA LeastOf ==
    ASSUME NEW T \in SUBSET Nat, T # {}
    PROVE  \E x \in T : \A y \in T : x <= y
<1>1. PICK x \in T : \A y \in T : ~(<<y, x>> \in OpToRel(<, Nat))
  BY NatLessThanWellFounded, WFMin, Zenon
<1>2. ASSUME NEW y \in T PROVE x <= y
  <2>1. ~(y < x)
    BY <1>1 DEF OpToRel
  <2> QED BY <2>1
<1> QED BY <1>2

IsFirstNul(h, z) == z \in 1 .. Len(h) /\ h[z] = 0 /\ \A k \in 1 .. z - 1 : h[k] # 0

LEMMA FirstNulExists ==
    ASSUME NEW h \in Seq(Nat), Contains(h, 0) PROVE \E z \in Nat : IsFirstNul(h, z)
<1> DEFINE T == {i \in 1 .. Len(h) : h[i] = 0}
<1>1. T \in SUBSET Nat /\ T # {} /\ Len(h) \in Nat
  BY DEF Contains
<1>2. PICK z \in T : \A y \in T : z <= y
  <2> HIDE DEF T
  <2> QED BY <1>1, LeastOf
<1>3. ASSUME NEW k \in 1 .. z - 1 PROVE h[k] # 0
  <2>1. k \in 1 .. Len(h) /\ ~(z <= k)
    BY <1>1
  <2> QED BY <1>2, <2>1
<1> QED BY <1>1, <1>3 DEF IsFirstNul

LEMMA FirstNulFound ==
    ASSUME NEW h \in Seq(Nat), NEW z \in Nat, IsFirstNul(h, z)
    PROVE  Contains(h, 0) /\ SelectInSeq(h, LAMBDA x : x = 0) = z
<1> DEFINE T == {i \in 1 .. Len(h) : h[i] = 0}
<1>1. z \in T /\ Len(h) \in Nat
  BY DEF IsFirstNul
<1>2. ASSUME NEW y \in T PROVE z <= y
  <2>1. y \in 1 .. Len(h) /\ h[y] = 0
    OBVIOUS
  <2>2. y \notin 1 .. z - 1
    BY <2>1 DEF IsFirstNul
  <2> QED BY <1>1, <2>1, <2>2
<1>3. \A x \in T : (\A y \in T : x <= y) => x = z
  BY <1>1, <1>2
<1>4. Min(T) = z
  <2>1. Min(T) = CHOOSE x \in T : \A y \in T : x <= y
    BY DEF Min
  <2> HIDE DEF T
  <2> QED BY <1>1, <1>2, <1>3, <2>1
<1>5. SelectInSeq(h, LAMBDA x : x = 0) = IF T # {} THEN Min(T) ELSE 0
  BY DEF SelectInSeq
<1>6. SelectInSeq(h, LAMBDA x : x = 0) = z
  BY <1>1, <1>4, <1>5
<1> QED BY <1>1, <1>6 DEF Contains

FramedIn(h, i, j) == i \in DOMAIN h /\ j \in DOMAIN h /\ Framed(h, i, j)

LEMMA SubSeqAt ==
    ASSUME NEW h \in Seq(Nat), NEW a \in Nat \ {0}, NEW b \in Nat, b <= Len(h), a <= b + 1
    PROVE  /\ SubSeq(h, a, b) \in Seq(Nat) /\ Len(SubSeq(h, a, b)) = b + 1 - a
           /\ \A k \in 1 .. b + 1 - a : SubSeq(h, a, b)[k] = h[a + k - 1]
<1>1. SubSeq(h, a, b) \in Seq(Nat) /\ Len(SubSeq(h, a, b)) = IF a <= b THEN b - a + 1 ELSE 0
  BY SubSeqProperties
<1> QED BY <1>1, SubSeqProperties, SMTT(30)

LEMMA HeaderFound ==
    ASSUME NEW h \in Seq(Nat), NEW i, NEW j, FramedIn(h, i, j)
    PROVE  /\ i \in Nat /\ j \in Nat /\ 1 < i /\ i + 1 < j /\ j <= Len(h)
           /\ ParseHeader(h) = [topic |-> SubSeq(h, 1, i - 1), type |-> SubSeq(h, i + 1, j - 1),
                                payload |-> << >>]
<1>1. /\ Len(h) \in Nat /\ i \in Nat /\ j \in Nat /\ 1 < i /\ i + 1 < j /\ j <= Len(h)
      /\ h[i] = 0 /\ h[j] = 0 /\ \A k \in 1 .. j - 1 : k # i => h[k] # 0
  BY DEF FramedIn, Framed
<1>2. IsFirstNul(h, i)
  BY <1>1 DEF IsFirstNul
<1>3. Contains(h, 0) /\ SelectInSeq(h, LAMBDA x : x = 0) = i
  BY <1>1, <1>2, FirstNulFound
<1> DEFINE rest == SubSeq(h, i + 1, Len(h))
<1>4. rest \in Seq(Nat) /\ Len(rest) = Len(h) - i /\ \A k \in 1 .. Len(h) - i : rest[k] = h[i + k]
  <2>1. /\ i + 1 \in Nat \ {0} /\ Len(h) <= Len(h) /\ i + 1 <= Len(h) + 1
        /\ Len(h) + 1 - (i + 1) = Len(h) - i /\ \A k \in 1 .. Len(h) - i : i + 1 + k - 1 = i + k
    BY <1>1
  <2> QED BY <1>1, <2>1, SubSeqAt
<1> HIDE DEF rest
<1>5. IsFirstNul(rest, j - i) /\ j - i \in Nat
  <2>1. j - i \in 1 .. Len(rest) /\ rest[j - i] = 0
    BY <1>1, <1>4, SMTT(30)
  <2>2. ASSUME NEW k \in 1 .. j - i - 1 PROVE rest[k] # 0
    <3>1. k \in 1 .. Len(h) - i /\ i + k \in 1 .. j - 1 /\ i + k # i
      BY <1>1
    <3> QED BY <1>1, <1>4, <3>1
  <2> QED BY <1>1, <2>1, <2>2 DEF IsFirstNul
<1>6. Contains(rest, 0) /\ SelectInSeq(rest, LAMBDA x : x = 0) = j - i
  BY <1>4, <1>5, FirstNulFound
<1>7. SubSeq(rest, 1, j - i - 1) = SubSeq(h, i + 1, j - 1)
  <2>1. /\ SubSeq(h, i + 1, j - 1) \in Seq(Nat) /\ Len(SubSeq(h, i + 1, j - 1)) = j - i - 1
        /\ \A k \in 1 .. j - i - 1 : SubSeq(h, i + 1, j - 1)[k] = h[i + k]
    <3>1. /\ i + 1 \in Nat \ {0} /\ j - 1 \in Nat /\ j - 1 <= Len(h) /\ i + 1 <= j - 1 + 1
          /\ j - 1 + 1 - (i + 1) = j - i - 1 /\ \A k \in 1 .. j - i - 1 : i + 1 + k - 1 = i + k
      BY <1>1
    <3> QED BY <3>1, SubSeqAt, SMTT(30)
  <2>2. /\ SubSeq(rest, 1, j - i - 1) \in Seq(Nat) /\ Len(SubSeq(rest, 1, j - i - 1)) = j - i - 1
        /\ \A k \in 1 .. j - i - 1 : SubSeq(rest, 1, j - i - 1)[k] = rest[k]
    <3>1. /\ 1 \in Nat \ {0} /\ j - i - 1 \in Nat /\ j - i - 1 <= Len(rest) /\ 1 <= j - i - 1 + 1
          /\ j - i - 1 + 1 - 1 = j - i - 1 /\ \A k \in 1 .. j - i - 1 : 1 + k - 1 = k
      BY <1>1, <1>4
    <3> QED BY <1>4, <3>1, SubSeqAt
  <2>3. \A k \in 1 .. j - i - 1 : k \in 1 .. Len(h) - i
    BY <1>1
  <2>4. \A k \in 1 .. j - i - 1 : SubSeq(rest, 1, j - i - 1)[k] = SubSeq(h, i + 1, j - 1)[k]
    BY <1>4, <2>1, <2>2, <2>3
  <2> QED BY <2>1, <2>2, <2>4, SeqEqual
<1>8. i - 1 + 2 = i + 1 /\ ~(Len(h) < 4 \/ i - 1 >= Len(h) - 1) /\ rest = SubSeq(h, i + 1, Len(h))
  BY <1>1 DEF rest
<1>9. ParseHeader(h) = [topic |-> SubSeq(h, 1, i - 1), type |-> SubSeq(rest, 1, j - i - 1), payload |-> << >>]
  BY <1>3, <1>6, <1>8 DEF ParseHeader
<1> QED BY <1>1, <1>7, <1>9

LEMMA HeaderMissing ==
    ASSUME NEW h \in Seq(Nat), ~\E i, j \in DOMAIN h : FramedIn(h, i, j)
    PROVE  ParseHeader(h).topic = << >> \/ ParseHeader(h).type = << >>
<1> DEFINE topicEnd == IF Contains(h, 0) THEN SelectInSeq(h, LAMBDA x : x = 0) - 1 ELSE Len(h)
           rest     == SubSeq(h, topicEnd + 2, Len(h))
           typeEnd  == SelectInSeq(rest, LAMBDA x : x = 0) - 1
<1>0. ParseHeader(h) =
        CASE Len(h) < 4 \/ topicEnd >= Len(h) - 1 -> Nothing
          [] Len(h) >= 4 /\ topicEnd < Len(h) - 1 /\ ~Contains(rest, 0) ->
                [Nothing EXCEPT !.topic = SubSeq(h, 1, topicEnd)]
          [] OTHER -> [topic |-> SubSeq(h, 1, topicEnd), type |-> SubSeq(rest, 1, typeEnd),
                       payload |-> << >>]
  BY DEF ParseHeader
<1>1. Len(h) \in Nat /\ DOMAIN h = 1 .. Len(h)
  OBVIOUS
<1>2. Nothing.topic = << >> /\ \A t : [Nothing EXCEPT !.topic = t].type = << >>
  BY DEF Nothing
<1>3. CASE ~Contains(h, 0)
  <2>1. topicEnd = Len(h) /\ topicEnd >= Len(h) - 1
    BY <1>1, <1>3
  <2> HIDE DEF topicEnd, rest, typeEnd
  <2> QED BY <1>0, <1>2, <2>1
<1>4. CASE Contains(h, 0)
  <2>1. PICK z \in Nat : IsFirstNul(h, z)
    BY <1>4, FirstNulExists
  <2>2. topicEnd = z - 1 /\ z \in 1 .. Len(h) /\ h[z] = 0 /\ \A k \in 1 .. z - 1 : h[k] # 0
    BY <1>4, <2>1, FirstNulFound DEF IsFirstNul
  <2> HIDE DEF topicEnd
  <2>3. rest = SubSeq(h, z + 1, Len(h))
    <3>1. topicEnd + 2 = z + 1
      BY <2>2
    <3> QED BY <3>1
  <2>4. /\ rest \in Seq(Nat) /\ Len(rest) = Len(h) - z
        /\ \A k \in 1 .. Len(h) - z : rest[k] = h[z + k]
    <3>1. /\ z + 1 \in Nat \ {0} /\ Len(h) <= Len(h) /\ z + 1 <= Len(h) + 1
          /\ Len(h) + 1 - (z + 1) = Len(h) - z /\ \A k \in 1 .. Len(h) - z : z + 1 + k - 1 = z + k
      <4>1. z <= Len(h) /\ z \in Nat /\ Len(h) \in Nat
        BY <2>2
      <4> QED BY <4>1
    <3>2. Len(h) \in Nat
      OBVIOUS
    <3> DEFINE q == SubSeq(h, z + 1, Len(h))
    <3>3. /\ q \in Seq(Nat) /\ Len(q) = Len(h) - z
          /\ \A k \in 1 .. Len(h) - z : q[k] = h[z + k]
      BY <3>1, <3>2, SubSeqAt
    <3> QED BY <2>3, <3>3
  <2> HIDE DEF rest
  <2>5. CASE topicEnd >= Len(h) - 1 \/ Len(h) < 4
    BY <1>0, <1>2, <2>5
  <2>6. CASE Len(h) >= 4 /\ topicEnd < Len(h) - 1 /\ ~Contains(rest, 0)
    <3>1. ParseHeader(h) = [Nothing EXCEPT !.topic = SubSeq(h, 1, topicEnd)]
      <4> HIDE DEF typeEnd
      <4> QED BY <1>0, <1>1, <2>2, <2>6
    <3> QED BY <1>2, <3>1
  <2>7. CASE Len(h) >= 4 /\ topicEnd < Len(h) - 1 /\ Contains(rest, 0)
    <3>1. PICK y \in Nat : IsFirstNul(rest, y)
      BY <2>4, <2>7, FirstNulExists
    <3>2. typeEnd = y - 1 /\ y \in 1 .. Len(rest) /\ rest[y] = 0 /\ \A k \in 1 .. y - 1 : rest[k] # 0
      BY <2>4, <3>1, FirstNulFound DEF IsFirstNul
    <3> HIDE DEF typeEnd
    <3>3. ParseHeader(h) = [topic |-> SubSeq(h, 1, topicEnd), type |-> SubSeq(rest, 1, typeEnd),
                            payload |-> << >>]
      BY <1>0, <1>1, <2>2, <2>7
    <3>4. CASE z = 1
      <4>1. SubSeq(h, 1, topicEnd) = << >>
        BY <2>2, <3>4, SubSeqEmpty
      <4> QED BY <3>3, <4>1
    <3>5. CASE y = 1
      <4>1. SubSeq(rest, 1, typeEnd) = << >>
        BY <3>2, <3>5, SubSeqEmpty
      <4> QED BY <3>3, <4>1
    <3>6. CASE z # 1 /\ y # 1
      <4>1. /\ z \in DOMAIN h /\ z + y \in DOMAIN h /\ 1 < z /\ z + 1 < z + y
            /\ h[z] = 0 /\ h[z + y] = 0
        BY <1>1, <2>2, <2>4, <3>2, <3>6
      <4>2. ASSUME NEW k \in 1 .. z + y - 1, k # z PROVE h[k] # 0
        <5>1. CASE k < z
          BY <2>2, <5>1
        <5>2. CASE k > z
          <6>1. k - z \in 1 .. y - 1 /\ k - z \in 1 .. Len(h) - z /\ z + (k - z) = k
            BY <1>1, <2>2, <2>4, <3>2, <5>2
          <6> QED BY <2>4, <3>2, <6>1
        <5> QED BY <2>2, <4>2, <5>1, <5>2
      <4>3. FramedIn(h, z, z + y)
        BY <4>1, <4>2 DEF FramedIn, Framed
      <4> QED BY <4>1, <4>3
    <3> QED BY <3>4, <3>5, <3>6
  <2> QED BY <1>1, <2>2, <2>5, <2>6, <2>7
<1> QED BY <1>3, <1>4

\* Sequence s reads what d has after its first m elements.
Reads(s, d, m) == s \in Seq(Nat) /\ \A k \in 1 .. Len(s) : s[k] = d[m + k]

LEMMA ReadsConcat ==
    ASSUME NEW s, NEW t, NEW d, Reads(s, d, 0), Reads(t, d, Len(s))
    PROVE  Reads(s \o t, d, 0) /\ Len(s \o t) = Len(s) + Len(t)
<1>0. s \in Seq(Nat) /\ t \in Seq(Nat) /\ Len(s) \in Nat /\ Len(t) \in Nat
  BY DEF Reads
<1>1. /\ s \o t \in Seq(Nat) /\ Len(s \o t) = Len(s) + Len(t)
      /\ \A k \in 1 .. Len(s) + Len(t) : (s \o t)[k] = IF k <= Len(s) THEN s[k] ELSE t[k - Len(s)]
  BY <1>0, ConcatProperties
<1>2. ASSUME NEW k \in 1 .. Len(s) + Len(t) PROVE (s \o t)[k] = d[0 + k]
  <2>1. CASE k <= Len(s)
    BY <1>0, <1>1, <2>1 DEF Reads
  <2>2. CASE k > Len(s)
    <3>1. k - Len(s) \in 1 .. Len(t) /\ Len(s) + (k - Len(s)) = 0 + k /\ ~(k <= Len(s))
      BY <1>0, <2>2
    <3> QED BY <1>1, <3>1 DEF Reads
  <2> QED BY <1>0, <2>1, <2>2
<1> QED BY <1>1, <1>2 DEF Reads

LEMMA FramedIsHeader ==
    ASSUME NEW d \in Seq(Nat), NEW i, NEW j, FramedIn(d, i, j)
    PROVE  LET t == SubSeq(d, 1, i - 1)
               y == SubSeq(d, i + 1, j - 1)
           IN  /\ d = CreateHeader(t, y) \o SubSeq(d, Len(CreateHeader(t, y)) + 1, Len(d))
               /\ t # << >> /\ y # << >> /\ ~Contains(t \o y, 0)
<1> DEFINE t == SubSeq(d, 1, i - 1)
           y == SubSeq(d, i + 1, j - 1)
           rest == SubSeq(d, j + 1, Len(d))
<1>1. /\ Len(d) \in Nat /\ i \in Nat /\ j \in Nat /\ 1 < i /\ i + 1 < j /\ j <= Len(d)
      /\ d[i] = 0 /\ d[j] = 0 /\ \A k \in 1 .. j - 1 : k # i => d[k] # 0
  BY DEF FramedIn, Framed
<1>2. t \in Seq(Nat) /\ Len(t) = i - 1 /\ \A k \in 1 .. i - 1 : t[k] = d[k]
  <2>1. /\ 1 \in Nat \ {0} /\ i - 1 \in Nat /\ i - 1 <= Len(d) /\ 1 <= i - 1 + 1
        /\ i - 1 + 1 - 1 = i - 1 /\ \A k \in 1 .. i - 1 : 1 + k - 1 = k
    BY <1>1
  <2> QED BY <2>1, SubSeqAt
<1>3. y \in Seq(Nat) /\ Len(y) = j - 1 - i /\ \A k \in 1 .. j - 1 - i : y[k] = d[i + k]
  <2>1. /\ i + 1 \in Nat \ {0} /\ j - 1 \in Nat /\ j - 1 <= Len(d) /\ i + 1 <= j - 1 + 1
        /\ j - 1 + 1 - (i + 1) = j - 1 - i /\ \A k \in 1 .. j - 1 - i : i + 1 + k - 1 = i + k
    BY <1>1
  <2> QED BY <2>1, SubSeqAt, SMTT(30)
<1>4. rest \in Seq(Nat) /\ Len(rest) = Len(d) - j /\ \A k \in 1 .. Len(d) - j : rest[k] = d[j + k]
  <2>1. /\ j + 1 \in Nat \ {0} /\ Len(d) \in Nat /\ Len(d) <= Len(d) /\ j + 1 <= Len(d) + 1
        /\ Len(d) + 1 - (j + 1) = Len(d) - j /\ \A k \in 1 .. Len(d) - j : j + 1 + k - 1 = j + k
    BY <1>1
  <2> QED BY <2>1, SubSeqAt, SMTT(30)
<1> HIDE DEF t, y, rest
<1> DEFINE z == <<0>>
           a == t \o z
           b == a \o y
           c == b \o z
           e == c \o rest
<1>5. z \in Seq(Nat) /\ Len(z) = 1 /\ z[1] = 0
  OBVIOUS
<1>6. CreateHeader(t, y) = c
  BY DEF CreateHeader
<1> HIDE DEF z
<1>7. Reads(a, d, 0) /\ Len(a) = i
  <2>1. Reads(t, d, 0) /\ Reads(z, d, Len(t)) /\ Len(t) + Len(z) = i
    BY <1>1, <1>2, <1>5 DEF Reads
  <2> QED BY <2>1, ReadsConcat
<1> HIDE DEF a
<1>8. Reads(b, d, 0) /\ Len(b) = j - 1
  <2>1. Reads(y, d, Len(a)) /\ Len(a) + Len(y) = j - 1
    BY <1>1, <1>3, <1>7 DEF Reads
  <2> QED BY <1>7, <2>1, ReadsConcat
<1> HIDE DEF b
<1>9. Reads(c, d, 0) /\ Len(c) = j
  <2>1. Reads(z, d, Len(b)) /\ Len(b) + Len(z) = j
    BY <1>1, <1>5, <1>8 DEF Reads
  <2> QED BY <1>8, <2>1, ReadsConcat
<1> HIDE DEF c
<1>10. Reads(e, d, 0) /\ Len(e) = Len(d)
  <2>1. Reads(rest, d, Len(c)) /\ Len(c) + Len(rest) = Len(d)
    BY <1>1, <1>4, <1>9 DEF Reads
  <2> QED BY <1>9, <2>1, ReadsConcat
<1>11. d = e
  <2> HIDE DEF e
  <2>1. e \in Seq(Nat) /\ Len(e) = Len(d) /\ \A k \in 1 .. Len(e) : e[k] = d[k]
    BY <1>1, <1>10 DEF Reads
  <2> QED BY <2>1, SeqEqual
<1>12. t # << >> /\ y # << >>
  BY <1>1, <1>2, <1>3
<1>13. ~Contains(t \o y, 0)
  <2>1. /\ t \o y \in Seq(Nat) /\ Len(t \o y) = Len(t) + Len(y)
        /\ \A k \in 1 .. Len(t) + Len(y) : (t \o y)[k] = IF k <= Len(t) THEN t[k] ELSE y[k - Len(t)]
    BY <1>2, <1>3, ConcatProperties
  <2>2. ASSUME NEW k \in 1 .. Len(t) + Len(y) PROVE (t \o y)[k] # 0
    <3>1. CASE k <= Len(t)
      <4>1. k \in 1 .. i - 1 /\ k \in 1 .. j - 1 /\ k # i /\ (t \o y)[k] = t[k]
        BY <1>1, <1>2, <2>1, <3>1, SMTT(30)
      <4> QED BY <1>1, <1>2, <4>1
    <3>2. CASE k > Len(t)
      <4>0. Len(t) \in Nat /\ Len(y) \in Nat /\ ~(k <= Len(t))
        BY <1>2, <1>3, <3>2
      <4>1. k - Len(t) \in 1 .. j - 1 - i /\ (t \o y)[k] = y[k - Len(t)]
        <5>1. k - Len(t) \in 1 .. Len(y)
          BY <3>2, <4>0
        <5> QED BY <1>3, <2>1, <4>0, <5>1
      <4>2. i + (k - Len(t)) \in 1 .. j - 1 /\ i + (k - Len(t)) # i
        BY <1>1, <4>1, SMTT(30)
      <4> QED BY <1>1, <1>3, <4>1, <4>2
    <3> QED BY <1>1, <1>2, <3>1, <3>2, SMTT(30)
  <2> QED BY <2>1, <2>2 DEF Contains
<1>14. d = CreateHeader(t, y) \o SubSeq(d, Len(CreateHeader(t, y)) + 1, Len(d))
  BY <1>6, <1>9, <1>11 DEF rest
<1> QED BY <1>12, <1>13, <1>14 DEF t, y

LEMMA WellformedIsFramed ==
    ASSUME NEW d \in Seq(Nat)
    PROVE  Wellformed(d) <=> \E i, j \in DOMAIN d : FramedIn(d, i, j)
<1>1. CASE \E i, j \in DOMAIN d : FramedIn(d, i, j)
  <2>1. PICK i \in DOMAIN d, j \in DOMAIN d : FramedIn(d, i, j)
    BY <1>1
  <2> DEFINE t == SubSeq(d, 1, i - 1)
             y == SubSeq(d, i + 1, j - 1)
  <2>2. ParseHeader(d) = [topic |-> t, type |-> y, payload |-> << >>]
    BY <2>1, HeaderFound
  <2>3. t # << >> /\ y # << >>
    BY <2>1, FramedIsHeader
  <2> HIDE DEF t, y
  <2>4. ParseHeader(d).topic # << >> /\ ParseHeader(d).type # << >>
    BY <2>2, <2>3
  <2>5. d # Damaged
    BY <2>1 DEF Damaged
  <2> QED BY <1>1, <2>4, <2>5 DEF Wellformed
<1>2. CASE ~\E i, j \in DOMAIN d : FramedIn(d, i, j)
  BY <1>2, HeaderMissing DEF Wellformed
<1> QED BY <1>1, <1>2

\* What a message on a topic is read as.
LEMMA IsOnRead ==
    ASSUME NEW d \in Seq(Nat), NEW t, IsOn(d, t)
    PROVE  Wellformed(d) /\ ParseHeader(d).topic = t
<1>1. PICK i \in DOMAIN d, j \in DOMAIN d : Framed(d, i, j) /\ t = SubSeq(d, 1, i - 1)
  BY DEF IsOn
<1>2. FramedIn(d, i, j)
  BY <1>1 DEF FramedIn
<1>3. ParseHeader(d) = [topic |-> SubSeq(d, 1, i - 1), type |-> SubSeq(d, i + 1, j - 1), payload |-> << >>]
  BY <1>2, HeaderFound
<1>4. Wellformed(d)
  BY <1>2, WellformedIsFramed
<1> QED BY <1>1, <1>3, <1>4

\* What receive_data takes from a message that passes.
LEMMA WellformedRead ==
    ASSUME NEW d \in Seq(Nat), Wellformed(d)
    PROVE  LET p == ParseHeader(d)
           IN  /\ p.topic # << >>
               /\ \E i, j \in DOMAIN d :
                    /\ Framed(d, i, j) /\ p.topic = SubSeq(d, 1, i - 1) /\ p.type = SubSeq(d, i + 1, j - 1)
                    /\ d = CreateHeader(p.topic, p.type)
                           \o SubSeq(d, Len(CreateHeader(p.topic, p.type)) + 1, Len(d))
<1>1. PICK i \in DOMAIN d, j \in DOMAIN d : FramedIn(d, i, j)
  BY WellformedIsFramed
<1> DEFINE t == SubSeq(d, 1, i - 1)
           y == SubSeq(d, i + 1, j - 1)
<1>2. ParseHeader(d) = [topic |-> t, type |-> y, payload |-> << >>]
  BY <1>1, HeaderFound
<1>3. /\ d = CreateHeader(t, y) \o SubSeq(d, Len(CreateHeader(t, y)) + 1, Len(d))
      /\ t # << >>
  BY <1>1, FramedIsHeader
<1>4. Framed(d, i, j)
  BY <1>1 DEF FramedIn
<1>5. ParseHeader(d).topic = t /\ ParseHeader(d).type = y
  <2> HIDE DEF t, y
  <2> QED BY <1>2
<1> QED BY <1>3, <1>4, <1>5

-----------------------------------------------------------------------------
(* What the invariant says                                                 *)

LEMMA ConfigOk ==
    ASSUME NEW c \in Configs PROVE c.msgs \in Nat
BY BridgeAssumption

LEMMA IInvTypeOK == IInv => TypeOK
<1> SUFFICES ASSUME IInv PROVE TypeOK
  OBVIOUS
<1>1. config \in Configs /\ heard \in 0 .. config.msgs /\ mgr.captured <= heard
  BY DEF IInv, Core, Typed
<1>2. mgr.captured \in Nat /\ Len(mgr.ring) <= Capacity /\ mgr.enqueued >= Len(mgr.ring)
  BY DEF IInv, Core, RingOk
<1>3. io.pc \in {"off", "run", "callback", "decode", "publish"}
  BY DEF IInv, Core, RxOk, IoOk, IoStates
<1>4. mgr.captured \in 0 .. config.msgs
  BY <1>1, <1>2, ConfigOk
<1> QED BY <1>2, <1>3, <1>4 DEF IInv, Core, Typed, TypeOK

LEMMA IInvHasData == IInv => HasDataGivesFrame
<1> SUFFICES ASSUME IInv, HasData(mgr) PROVE Got(mgr).current_frame_ # NoFrame
  BY DEF HasDataGivesFrame
<1>1. RingOk(mgr)
  BY DEF IInv, Core
<1>2. CASE mgr.ring = << >>
  <2>1. mgr.current_frame_ # NoFrame
    BY <1>1, <1>2 DEF RingOk, HasData
  <2> QED BY <1>2, <2>1 DEF Got
<1>3. CASE mgr.ring # << >>
  <2>1. Got(mgr).current_frame_.n > mgr.current_frame_.n /\ mgr.current_frame_.n \in Nat
        /\ Got(mgr).current_frame_.n \in Nat
    BY <1>1, <1>3, GotOk DEF RingOk
  <2> QED BY <2>1 DEF NoFrame
<1> QED BY <1>2, <1>3

LEMMA IInvAccounted == IInv => FramesAccounted
<1> SUFFICES ASSUME IInv PROVE FramesAccounted
  OBVIOUS
<1>1. Taken = TakenOf(mgr)
  BY DEF Taken, TakenOf, InRing
<1>2. TakenOf(mgr) = FramesOf(wire) \cup FramesOf(delayed) \cup FramesOf(worker) \cup lost \cup vanished
  BY DEF IInv, Core, TxOk, Ledger
<1>3. vanished # {} => config.delay /\ ~net.alive /\ mpc \in {"flush", "done"}
  BY DEF IInv, NetOk
<1> QED BY <1>1, <1>2, <1>3 DEF FramesAccounted

LEMMA IInvOrder == IInv => SentInCaptureOrder
BY DEF IInv, Core, TxOk, Line, Ordered, Precedes, SentInCaptureOrder

LEMMA IInvRecorded == IInv => WireIsRecorded
<1> SUFFICES ASSUME IInv, config.wal PROVE WireIsRecorded
  BY DEF WireIsRecorded
<1>1. /\ \A p \in Made : p.seq \in unlogged \/ InLog(p, wal)
      /\ \A k, l \in DOMAIN wal : k < l => wal[k].seq < wal[l].seq
      /\ \A k \in DOMAIN wal : wal[k].seq \notin unlogged
  BY DEF IInv, Core, TxOk, Logged
<1>2. \A i \in DOMAIN wire : wire[i].seq \in unlogged \/ InLog(wire[i], wal)
  BY <1>1 DEF Made, Range
<1> QED BY <1>1, <1>2 DEF WireIsRecorded, InLog

LEMMA InitIInv == Init => IInv
<1> SUFFICES ASSUME Init PROVE IInv
  OBVIOUS
<1> USE DEF Init
<1>1. Typed
  <2>1. config.msgs \in Nat
    BY ConfigOk
  <2> QED BY <2>1 DEF Typed
<1>2. RingOk(mgr) /\ mgr.captured <= heard /\ TakenOf(mgr) = {}
  BY NewOk
<1>3. Queues
  BY SeqEmpty DEF Queues
<1>4. Made = {}
  BY SeqEmpty DEF Made
<1>5. Line
  <2>1. DOMAIN wire = {} /\ DOMAIN delayed = {}
    OBVIOUS
  <2>2. Range(wire) = {} /\ Range(worker) = {}
    BY SeqEmpty
  <2> QED BY <1>4, <2>1, <2>2 DEF Line, Ordered, AllPrecede
<1>6. Logged
  <2>1. DOMAIN wal = {} /\ unlogged = {}
    OBVIOUS
  <2> QED BY <1>4, <2>1 DEF Logged
<1>7. Ledger
  BY <1>2, SeqEmpty DEF Ledger
<1>8. IoOk /\ StaysArmed /\ NoCallbackAfterClear
  <2>1. Damaged \in Seq(Nat)
    BY DEF Damaged
  <2> QED BY <2>1 DEF IoOk, IoStates, StaysArmed, NoCallbackAfterClear
<1>9. PublishesWhatWasFramed
  <2>1. shown.inner = << >> /\ shown.result = Nothing
    BY DEF Damaged
  <2>2. DOMAIN shown.inner = {}
    BY <2>1
  <2> QED BY <2>1, <2>2 DEF PublishesWhatWasFramed
<1>10. PublishersOk
  <2>1. inners \in Seq(Seq(Nat)) /\ DOMAIN inners = {} /\ DOMAIN publishers_ = {} /\ io.pc # "publish"
    OBVIOUS
  <2> QED BY <2>1 DEF PublishersOk
<1>11. NetOk
  BY DEF NetOk
<1> QED BY <1>1, <1>2, <1>3, <1>5, <1>6, <1>7, <1>8, <1>9, <1>10, <1>11
        DEF IInv, Core, TxOk, RxOk, BeforeSpin

-----------------------------------------------------------------------------
(* Steps that touch one side only                                          *)

\* What is on its way stays, and the manager hands nothing out.
LEMMA KeepsTx ==
    ASSUME TxOk, config' = config, UNCHANGED tx, TakenOf(mgr') = TakenOf(mgr),
           mgr'.current_frame_ = mgr.current_frame_, mpc' = "init" => mpc = "init"
    PROVE  TxOk'
<1>1. /\ tx_sequence_' = tx_sequence_ /\ wal' = wal /\ wire' = wire /\ delayed' = delayed
      /\ worker' = worker /\ lost' = lost /\ vanished' = vanished /\ unlogged' = unlogged
      /\ window' = window
  BY DEF tx
<1>2. Queues'
  BY <1>1 DEF TxOk, Queues
<1>3. Made' = Made
  BY <1>1 DEF Made
<1>4. Line'
  BY <1>1, <1>3 DEF TxOk, Line
<1>5. Logged'
  BY <1>1, <1>3 DEF TxOk, Logged
<1>6. Ledger'
  BY <1>1 DEF TxOk, Ledger
<1>7. BeforeSpin'
  BY <1>1 DEF TxOk, BeforeSpin
<1> QED BY <1>2, <1>4, <1>5, <1>6, <1>7 DEF TxOk

LEMMA KeepsRx ==
    ASSUME RxOk, io' = io, shown' = shown, inners' = inners,
           publishers_' = publishers_ \/ mpc' \in {"flush", "done"},
           mpc' = "init" => mpc = "init", mpc \in {"flush", "done"} => mpc' \in {"flush", "done"},
           mpc' \in {"clear", "flush", "done"} => mpc \in {"clear", "flush", "done"} \/ io.pc = "off"
    PROVE  RxOk'
<1>1. IoOk' /\ StaysArmed' /\ NoCallbackAfterClear'
  BY DEF RxOk, IoOk, StaysArmed, NoCallbackAfterClear
<1>2. PublishesWhatWasFramed'
  BY Zenon DEF RxOk, PublishesWhatWasFramed, FirstTypeOn
<1>3. PublishersOk'
  <2>1. CASE publishers_' = publishers_
    <3>1. \A t, y : FirstTypeOn(t, y) => FirstTypeOn(t, y)'
      BY Zenon DEF FirstTypeOn
    <3> QED BY <2>1, <3>1 DEF RxOk, PublishersOk
  <2>2. CASE mpc' \in {"flush", "done"}
    <3>1. io'.pc # "publish"
      BY <1>1, <2>2 DEF NoCallbackAfterClear
    <3> QED BY <2>2, <3>1 DEF RxOk, PublishersOk
  <2> QED BY <2>1, <2>2
<1> QED BY <1>1, <1>2, <1>3 DEF RxOk

LEMMA KeepsManager ==
    ASSUME IInv, mgr' \in {mgr, Checked(mgr)}, heard' = heard
    PROVE  /\ RingOk(mgr)' /\ (mgr.captured <= heard)' /\ TakenOf(mgr') = TakenOf(mgr)
           /\ mgr'.current_frame_ = mgr.current_frame_
BY CheckedOk DEF IInv, Core, SameRing

\* Steps of main and of the network that leave both sides alone, and the worker's last.
LEMMA QuietSteps ==
    ASSUME IInv,
           \/ SendNothing \/ Health \/ Advertise \/ NetFails \/ NetConnects \/ CloseJoins
           \/ CloseHangs \/ Destroy \/ Clear \/ WorkerCrashes
    PROVE  Core'
<1>1. /\ UNCHANGED <<config, heard, known>> /\ UNCHANGED tx /\ io' = io /\ shown' = shown
      /\ inners' = inners /\ (publishers_' = publishers_ \/ mpc' \in {"flush", "done"})
      /\ mgr' \in {mgr, Checked(mgr)}
      /\ mpc' = "init" => mpc = "init"
      /\ mpc \in {"flush", "done"} => mpc' \in {"flush", "done"}
      /\ mpc' \in {"clear", "flush", "done"} => mpc \in {"clear", "flush", "done"} \/ io.pc = "off"
      /\ mpc' \in {"init", "spin", "join", "clear", "flush", "done", "stuck", "terminated"}
      /\ advertised' \in BOOLEAN
  <2>1. /\ advertised \in BOOLEAN
        /\ mpc \in {"init", "spin", "join", "clear", "flush", "done", "stuck", "terminated"}
        /\ mpc \in {"flush", "done"} => ~net.alive
    BY DEF IInv, Core, Typed, NetOk
  <2>2. CASE SendNothing
    BY <2>1, <2>2 DEF SendNothing, rx, hist
  <2>3. CASE Health \/ NetFails \/ NetConnects
    BY <2>1, <2>3 DEF Health, NetFails, NetConnects, rx, hist
  <2>4. CASE Advertise
    BY <2>1, <2>4 DEF Advertise, rx, hist
  <2>5. CASE CloseJoins \/ Destroy \/ CloseHangs
    BY <2>1, <2>5 DEF CloseJoins, Destroy, CloseHangs, rx, hist
  <2>6. CASE Clear
    BY <2>1, <2>6 DEF Clear, hist
  <2>7. CASE WorkerCrashes
    BY <2>1, <2>7 DEF WorkerCrashes, rx, hist
  <2> QED BY <2>2, <2>3, <2>4, <2>5, <2>6, <2>7
<1>2. Typed'
  <2>1. tx_sequence_' = tx_sequence_ /\ window' = window
    BY <1>1 DEF tx
  <2> QED BY <1>1, <2>1 DEF IInv, Core, Typed
<1>3. /\ RingOk(mgr)' /\ (mgr.captured <= heard)' /\ TakenOf(mgr') = TakenOf(mgr)
      /\ mgr'.current_frame_ = mgr.current_frame_
  BY <1>1, KeepsManager
<1>4. TxOk'
  BY <1>1, <1>3, KeepsTx DEF IInv, Core
<1>5. RxOk'
  BY <1>1, KeepsRx DEF IInv, Core
<1> QED BY <1>2, <1>3, <1>4, <1>5 DEF Core

\* The delay rule's window moves on: the engine was empty before it opened.
LEMMA WindowStep ==
    ASSUME IInv, WindowMoves PROVE Core'
<1>1. /\ UNCHANGED <<config, mpc, advertised, mgr, heard, known, io, publishers_, inners, shown>>
      /\ tx_sequence_' = tx_sequence_ /\ wal' = wal /\ wire' = wire /\ delayed' = delayed
      /\ worker' = worker /\ lost' = lost /\ vanished' = vanished /\ unlogged' = unlogged
      /\ window' \in {"open", "after"} /\ config.delay
  BY DEF WindowMoves, hist, rx
<1>2. Typed' /\ RingOk(mgr)' /\ (mgr.captured <= heard)'
  BY <1>1 DEF IInv, Core, Typed
<1>3. Queues'
  BY <1>1 DEF IInv, Core, TxOk, Queues
<1>4. Made' = Made
  BY <1>1 DEF Made
<1>5. Line' /\ Ledger' /\ BeforeSpin'
  BY <1>1, <1>4 DEF IInv, Core, TxOk, Line, Ledger, BeforeSpin
<1>6. Logged'
  BY <1>1, <1>4 DEF IInv, Core, TxOk, Logged
<1>7. RxOk'
  BY <1>1, KeepsRx DEF IInv, Core
<1> QED BY <1>2, <1>3, <1>5, <1>6, <1>7 DEF Core, TxOk

\* Another inner message changes nothing about the topics that have had their first.
LEMMA FirstStays ==
    ASSUME inners \in Seq(Seq(Nat)), NEW d \in Seq(Nat), inners' = Append(inners, d), NEW t, NEW y,
           FirstTypeOn(t, y)
    PROVE  FirstTypeOn(t, y)'
<1>1. /\ Len(inners) \in Nat /\ DOMAIN inners = 1 .. Len(inners) /\ DOMAIN inners' = 1 .. Len(inners) + 1
      /\ \A k \in 1 .. Len(inners) : inners'[k] = inners[k]
  OBVIOUS
<1>2. PICK m \in DOMAIN inners :
        /\ \A k \in 1 .. m - 1 : ~IsOn(inners[k], t)
        /\ \E i, j \in DOMAIN inners[m] :
              /\ Framed(inners[m], i, j)
              /\ t = SubSeq(inners[m], 1, i - 1) /\ y = SubSeq(inners[m], i + 1, j - 1)
  BY DEF FirstTypeOn
<1>3. m \in DOMAIN inners' /\ inners'[m] = inners[m] /\ \A k \in 1 .. m - 1 : inners'[k] = inners[k]
  BY <1>1
<1>4. \A k \in 1 .. m - 1 : ~IsOn(inners'[k], t)
  BY <1>2, <1>3
<1>5. \E i, j \in DOMAIN inners'[m] :
              /\ Framed(inners'[m], i, j)
              /\ t = SubSeq(inners'[m], 1, i - 1) /\ y = SubSeq(inners'[m], i + 1, j - 1)
  BY <1>2, <1>3, Zenon
<1> QED BY <1>3, <1>4, <1>5, Zenon DEF FirstTypeOn

\* receive_data decodes a message: its topic has a publisher from here on, of the type
\* its first message named.
LEMMA DecodeStep ==
    ASSUME IInv, ReceiveData PROVE PublishersOk' /\ PublishesWhatWasFramed'
<1> DEFINE d == io.data
           p == ParseHeader(d)
<1>1. /\ io.pc = "decode" /\ inners' = Append(inners, d) /\ mpc' = mpc
      /\ Wellformed(d) => /\ publishers_' = WithPublisher(p) /\ io' = [io EXCEPT !.pc = "publish"]
                          /\ shown' = shown
      /\ ~Wellformed(d) => /\ shown' = [inner |-> d, result |-> Nothing] /\ io' = Rearmed
                           /\ publishers_' = publishers_
  BY DEF ReceiveData
<1>2. /\ io \in IoStates /\ inners \in Seq(Seq(Nat)) /\ PublishesWhatWasFramed
      /\ mpc \in {"clear", "flush", "done"} => io.pc = "off"
      /\ mpc \notin {"flush", "done"} =>
          /\ \A t \in DOMAIN publishers_ : FirstTypeOn(t, publishers_[t])
          /\ \A m \in DOMAIN inners : \A t : IsOn(inners[m], t) => t \in DOMAIN publishers_
  BY DEF IInv, Core, RxOk, IoOk, PublishersOk, NoCallbackAfterClear
<1>3. d \in Seq(Nat) /\ mpc \notin {"flush", "done"}
  BY <1>1, <1>2 DEF IoStates
<1> HIDE DEF d
<1>4. inners' \in Seq(Seq(Nat))
  BY <1>1, <1>2, <1>3
<1>5. /\ Len(inners) \in Nat /\ DOMAIN inners = 1 .. Len(inners) /\ DOMAIN inners' = 1 .. Len(inners) + 1
      /\ \A k \in 1 .. Len(inners) : inners'[k] = inners[k]
      /\ inners'[Len(inners) + 1] = d
  BY <1>1, <1>2, <1>3
<1>7. CASE Wellformed(d)
  <2>1. PICK P : P = p
    OBVIOUS
  <2>2. /\ DOMAIN publishers_' = DOMAIN publishers_ \cup {P.topic}
        /\ \A t \in DOMAIN publishers_ : publishers_'[t] = publishers_[t]
        /\ P.topic \notin DOMAIN publishers_ => publishers_'[P.topic] = P.type
    BY <1>1, <1>7, <2>1 DEF WithPublisher
  <2>3. ASSUME NEW t \in DOMAIN publishers_' PROVE FirstTypeOn(t, publishers_[t])'
    <3>1. CASE t \in DOMAIN publishers_
      <4>1. FirstTypeOn(t, publishers_[t])
        BY <1>2, <1>3, <3>1
      <4>2. PICK y : y = publishers_[t]
        OBVIOUS
      <4>3. FirstTypeOn(t, y) /\ publishers_'[t] = y
        BY <2>2, <3>1, <4>1, <4>2
      <4>4. FirstTypeOn(t, y)'
        BY <1>1, <1>2, <1>3, <4>3, FirstStays
      <4> QED BY <4>3, <4>4
    <3>2. CASE t \notin DOMAIN publishers_
      <4>1. t = P.topic /\ publishers_'[t] = P.type
        BY <2>2, <2>3, <3>2
      <4>0. PICK M \in Nat : M = Len(inners) + 1
        BY <1>5
      <4>2. ASSUME NEW k \in 1 .. M - 1 PROVE ~IsOn(inners'[k], t)
        <5>1. k \in DOMAIN inners /\ inners'[k] = inners[k]
          BY <1>5, <4>0
        <5>2. ~IsOn(inners[k], t)
          BY <1>2, <1>3, <3>2, <5>1
        <5> QED BY <5>1, <5>2
      <4>3. \E i, j \in DOMAIN d :
                Framed(d, i, j) /\ P.topic = SubSeq(d, 1, i - 1) /\ P.type = SubSeq(d, i + 1, j - 1)
        BY <1>3, <1>7, <2>1, WellformedRead, Zenon
      <4>4. M \in DOMAIN inners' /\ inners'[M] = d
        BY <1>5, <4>0
      <4>5. \E i, j \in DOMAIN inners'[M] :
              /\ Framed(inners'[M], i, j)
              /\ t = SubSeq(inners'[M], 1, i - 1) /\ publishers_'[t] = SubSeq(inners'[M], i + 1, j - 1)
        BY <4>1, <4>3, <4>4, Zenon
      <4> QED BY <4>2, <4>4, <4>5, Zenon DEF FirstTypeOn
    <3> QED BY <3>1, <3>2
  <2>4. ASSUME NEW m \in DOMAIN inners', NEW t, IsOn(inners'[m], t) PROVE t \in DOMAIN publishers_'
    <3>1. CASE m \in DOMAIN inners
      BY <1>2, <1>3, <1>5, <2>2, <2>4, <3>1
    <3>2. CASE m = Len(inners) + 1
      <4>1. IsOn(d, t)
        BY <1>5, <2>4, <3>2
      <4>2. p.topic = t
        BY <1>3, <4>1, IsOnRead
      <4> QED BY <2>1, <2>2, <4>2
    <3> QED BY <1>5, <3>1, <3>2
  <2>5. io'.data = d /\ io'.pc = "publish"
    BY <1>1, <1>2, <1>7 DEF IoStates, d
  <2>6. PublishersOk'
    <3>1. Wellformed(io'.data) /\ ParseHeader(io'.data).topic \in DOMAIN publishers_'
      BY <1>7, <2>1, <2>2, <2>5
    <3> QED BY <1>1, <1>4, <2>3, <2>4, <3>1 DEF PublishersOk
  <2>7. PublishesWhatWasFramed'
    <3>0. shown' = shown
      BY <1>1, <1>7
    <3>1. CASE shown.result = Nothing
      BY <1>2, <3>0, <3>1, Zenon DEF PublishesWhatWasFramed
    <3>2. CASE shown.result # Nothing
      <4>1. FirstTypeOn(shown.result.topic, shown.result.type)
        BY <1>2, <3>2, Zenon DEF PublishesWhatWasFramed
      <4>2. PICK t, y : t = shown.result.topic /\ y = shown.result.type
        OBVIOUS
      <4>3. FirstTypeOn(t, y)'
        BY <1>1, <1>2, <1>3, <4>1, <4>2, FirstStays
      <4>4. FirstTypeOn(shown.result.topic, shown.result.type)'
        BY <3>0, <4>2, <4>3
      <4> QED BY <1>2, <3>0, <3>2, <4>4, Zenon DEF PublishesWhatWasFramed
    <3> QED BY <3>1, <3>2
  <2> QED BY <2>6, <2>7
<1>8. CASE ~Wellformed(d)
  <2>1. publishers_' = publishers_ /\ io'.pc = "run" /\ shown'.inner = d /\ shown'.result = Nothing
    <3>1. shown' = [inner |-> d, result |-> Nothing] /\ io' = Rearmed /\ publishers_' = publishers_
      BY <1>1, <1>8
    <3>2. io'.pc = "run"
      BY <1>2, <3>1 DEF IoStates, Rearmed
    <3>3. shown'.inner = d /\ shown'.result = Nothing
      BY <3>1
    <3> QED BY <3>1, <3>2, <3>3
  <2>2. ASSUME NEW t \in DOMAIN publishers_' PROVE FirstTypeOn(t, publishers_[t])'
    <3>1. PICK y : y = publishers_[t]
      OBVIOUS
    <3>2. FirstTypeOn(t, y)
      BY <1>2, <1>3, <2>1, <3>1
    <3>3. FirstTypeOn(t, y)'
      BY <1>1, <1>2, <1>3, <3>2, FirstStays
    <3> QED BY <2>1, <3>1, <3>3
  <2>3. ASSUME NEW m \in DOMAIN inners', NEW t, IsOn(inners'[m], t) PROVE t \in DOMAIN publishers_'
    <3>1. CASE m \in DOMAIN inners
      BY <1>2, <1>3, <1>5, <2>1, <2>3, <3>1
    <3>2. CASE m = Len(inners) + 1
      <4>1. IsOn(d, t)
        BY <1>5, <2>3, <3>2
      <4> QED BY <1>3, <1>8, <4>1, IsOnRead
    <3> QED BY <1>5, <3>1, <3>2
  <2>4. PublishersOk'
    BY <1>1, <1>4, <2>1, <2>2, <2>3 DEF PublishersOk
  <2>5. ~\E i, j \in DOMAIN d : Framed(d, i, j)
    BY <1>3, <1>8, WellformedIsFramed DEF FramedIn
  <2>6. PublishesWhatWasFramed'
    BY <2>1, <2>5, Zenon DEF PublishesWhatWasFramed
  <2> QED BY <2>4, <2>6
<1> QED BY <1>7, <1>8

\* receive_data publishes: on the topic's publisher, what follows the header.
LEMMA PublishStep ==
    ASSUME IInv, Publish PROVE PublishersOk' /\ PublishesWhatWasFramed'
<1> DEFINE d == io.data
           p == ParseHeader(d)
           n == Len(CreateHeader(p.topic, p.type))
           r == [topic |-> p.topic, type |-> publishers_[p.topic], payload |-> SubSeq(d, n + 1, Len(d))]
<1>1. /\ io.pc = "publish" /\ io' = Rearmed /\ inners' = inners /\ publishers_' = publishers_ /\ mpc' = mpc
      /\ shown' = IF mpc # "spin" THEN shown ELSE [inner |-> d, result |-> r]
  BY DEF Publish
<1>2. /\ io \in IoStates /\ PublishesWhatWasFramed /\ PublishersOk
      /\ mpc \in {"clear", "flush", "done"} => io.pc = "off"
  BY DEF IInv, Core, RxOk, IoOk, NoCallbackAfterClear
<1>3. \A t, y : FirstTypeOn(t, y) => FirstTypeOn(t, y)'
  BY <1>1, Zenon DEF FirstTypeOn
<1>4. PublishersOk'
  <2>1. io'.pc = "run"
    BY <1>1, <1>2 DEF IoStates, Rearmed
  <2> QED BY <1>1, <1>2, <1>3, <2>1 DEF PublishersOk
<1>5. CASE mpc # "spin"
  <2>1. shown' = shown
    BY <1>1, <1>5
  <2>2. PublishesWhatWasFramed'
    BY <1>2, <1>3, <2>1, Zenon DEF PublishesWhatWasFramed
  <2> QED BY <1>4, <2>2
<1>6. CASE mpc = "spin"
  <2>1. d \in Seq(Nat) /\ Wellformed(d) /\ p.topic \in DOMAIN publishers_
    BY <1>1, <1>2 DEF IoStates, PublishersOk
  <2>2. FirstTypeOn(p.topic, publishers_[p.topic])
    BY <1>2, <1>6, <2>1 DEF PublishersOk
  <2>3. /\ p.topic # << >>
        /\ \E i, j \in DOMAIN d :
              /\ Framed(d, i, j) /\ p.topic = SubSeq(d, 1, i - 1) /\ p.type = SubSeq(d, i + 1, j - 1)
              /\ d = CreateHeader(p.topic, p.type) \o SubSeq(d, n + 1, Len(d))
    BY <2>1, WellformedRead
  <2>4. PICK P, y, q, D : P = p /\ y = publishers_[p.topic] /\ q = SubSeq(d, n + 1, Len(d)) /\ D = d
    OBVIOUS
  <2>5. shown' = [inner |-> D, result |-> [topic |-> P.topic, type |-> y, payload |-> q]]
    BY <1>1, <1>6, <2>4
  <2>6. /\ P.topic # << >> /\ FirstTypeOn(P.topic, y)
        /\ \E i, j \in DOMAIN D : /\ Framed(D, i, j) /\ P.topic = SubSeq(D, 1, i - 1)
                                  /\ D = CreateHeader(P.topic, SubSeq(D, i + 1, j - 1)) \o q
    <3>1. P.topic # << >> /\ FirstTypeOn(P.topic, y)
      BY <2>2, <2>3, <2>4
    <3>2. PICK i \in DOMAIN d, j \in DOMAIN d :
              /\ Framed(d, i, j) /\ p.topic = SubSeq(d, 1, i - 1) /\ p.type = SubSeq(d, i + 1, j - 1)
              /\ d = CreateHeader(p.topic, p.type) \o SubSeq(d, n + 1, Len(d))
      BY <2>3
    <3>3. i \in DOMAIN D /\ j \in DOMAIN D /\ Framed(D, i, j) /\ P.topic = SubSeq(D, 1, i - 1)
          /\ D = CreateHeader(P.topic, SubSeq(D, i + 1, j - 1)) \o q
      BY <2>4, <3>2, Zenon
    <3> QED BY <3>1, <3>3
  <2> HIDE <2>4 DEF d, p, n, r
  <2>7. /\ shown'.inner = D /\ shown'.result.topic = P.topic /\ shown'.result.type = y
        /\ shown'.result.payload = q
    BY <2>5
  <2>8. shown'.result # Nothing
    BY <2>6, <2>7 DEF Nothing
  <2>9. FirstTypeOn(P.topic, y)'
    BY <1>3, <2>6
  <2>10. PublishesWhatWasFramed'
    BY <2>6, <2>7, <2>8, <2>9, Zenon DEF PublishesWhatWasFramed
  <2> QED BY <1>4, <2>10
<1> QED BY <1>5, <1>6

\* The io thread's steps, and the one that stops it.
LEMMA IoSteps ==
    ASSUME IInv, Empty \/ ReceiveFails \/ Arrive \/ Io \/ Shutdown
    PROVE  Core'
<1>1. /\ UNCHANGED <<config, advertised, heard, known>> /\ UNCHANGED tx /\ mgr' = mgr
      /\ \/ mpc' = mpc \/ (mpc = "spin" /\ mpc' = "join")
         \/ mpc' = "terminated" /\ io.pc = "decode"
  <2>1. CASE Empty \/ ReceiveFails \/ Arrive \/ IoReturns
    BY <2>1 DEF Empty, ReceiveFails, Arrive, IoReturns, hist
  <2>2. CASE ReceiveChecks \/ ReceiveData \/ ReceiveThrows \/ Publish
    BY <2>2 DEF ReceiveChecks, ReceiveData, ReceiveThrows, Publish, hist
  <2>3. CASE Shutdown
    BY <2>3 DEF Shutdown, hist
  <2> QED BY <2>1, <2>2, <2>3 DEF Io
<1>2. Typed'
  <2>1. tx_sequence_' = tx_sequence_ /\ window' = window
    BY <1>1 DEF tx
  <2> QED BY <1>1, <2>1 DEF IInv, Core, Typed
<1>3. /\ RingOk(mgr)' /\ (mgr.captured <= heard)' /\ TakenOf(mgr') = TakenOf(mgr)
      /\ mgr'.current_frame_ = mgr.current_frame_
  BY <1>1, KeepsManager
<1>4. TxOk'
  BY <1>1, <1>3, KeepsTx DEF IInv, Core
<1>5. RxOk'
  <2>1. /\ io \in IoStates
        /\ io.pc = "run" => io.armed \/ io.deaf
        /\ mpc = "init" => io.pc = "off"
        /\ mpc \in {"clear", "flush", "done"} => io.pc = "off"
    BY DEF IInv, Core, RxOk, IoOk, StaysArmed, NoCallbackAfterClear
  <2>2. /\ io' \in IoStates
        /\ io'.pc = "run" => io'.armed \/ io'.deaf
        /\ io.pc = "off" => io'.pc = "off"
        /\ io'.pc = "publish" => ReceiveData \/ (io.pc = "publish" /\ io'.data = io.data)
    <3>0. Rearmed \in IoStates /\ Rearmed.pc = "run" /\ Rearmed.armed
      BY <2>1 DEF IoStates, Rearmed
    <3>1. CASE Empty \/ ReceiveFails
      <4>1. io.arrivals + 1 \in Nat
        BY <2>1 DEF IoStates
      <4> QED BY <2>1, <3>1, <4>1 DEF Empty, ReceiveFails, Arrivable, IoStates
    <3>2. CASE Arrive
      <4>1. PICK d \in Datagrams \cup {Damaged} :
               io' = [io EXCEPT !.pc = "callback", !.armed = FALSE, !.data = d, !.arrivals = @ + 1]
        BY <3>2 DEF Arrive
      <4>2. d \in Seq(Nat)
        <5>1. Datagrams \subseteq Seq(Nat)
          BY BridgeAssumption
        <5>2. Damaged \in Seq(Nat)
          BY DEF Damaged
        <5> QED BY <5>1, <5>2
      <4>3. io.pc = "run"
        BY <3>2 DEF Arrive, Arrivable
      <4>4. io.arrivals + 1 \in Nat
        BY <2>1 DEF IoStates
      <4> QED BY <2>1, <4>1, <4>2, <4>3, <4>4 DEF IoStates
    <3>3. CASE ReceiveChecks
      <4>1. io.pc = "callback" /\ (io' = [io EXCEPT !.pc = "decode"] \/ io' = Rearmed)
        BY <3>3 DEF ReceiveChecks
      <4> QED BY <2>1, <3>0, <4>1 DEF IoStates
    <3>4. CASE ReceiveData
      <4>1. io.pc = "decode" /\ (io' = [io EXCEPT !.pc = "publish"] \/ io' = Rearmed)
        BY <3>4 DEF ReceiveData
      <4> QED BY <2>1, <3>0, <3>4, <4>1 DEF IoStates
    <3>5. CASE ReceiveThrows
      <4>1. io' = [io EXCEPT !.pc = "off"]
        BY <3>5 DEF ReceiveThrows
      <4> QED BY <2>1, <4>1 DEF IoStates
    <3>6. CASE Publish
      <4>1. io.pc = "publish" /\ io' = Rearmed
        BY <3>6 DEF Publish
      <4> QED BY <2>1, <3>0, <4>1 DEF IoStates
    <3>7. CASE IoReturns
      BY <2>1, <3>7 DEF IoReturns, IoStates
    <3>8. CASE Shutdown
      <4>1. io' = [io EXCEPT !.stopped = TRUE]
        BY <3>8 DEF Shutdown
      <4>2. /\ io'.pc = io.pc /\ io'.armed = io.armed /\ io'.deaf = io.deaf /\ io'.data = io.data
            /\ io' \in IoStates
        BY <2>1, <4>1 DEF IoStates
      <4> QED BY <2>1, <4>2
    <3> QED BY <3>1, <3>2, <3>3, <3>4, <3>5, <3>6, <3>7, <3>8 DEF Io
  <2>3. IoOk' /\ StaysArmed' /\ NoCallbackAfterClear'
    BY <1>1, <2>1, <2>2 DEF IoOk, StaysArmed, NoCallbackAfterClear
  <2>4. PublishersOk' /\ PublishesWhatWasFramed'
    <3>1. CASE ReceiveData
      BY <3>1, DecodeStep
    <3>2. CASE Publish
      BY <3>2, PublishStep
    <3>3. CASE ~ReceiveData /\ ~Publish
      <4>1. inners' = inners /\ publishers_' = publishers_ /\ shown' = shown
        BY <3>3 DEF Empty, ReceiveFails, Arrive, Io, ReceiveChecks, ReceiveThrows, IoReturns, Shutdown
      <4>2. PublishersOk /\ PublishesWhatWasFramed
        BY DEF IInv, Core, RxOk
      <4>3. \A t, y : FirstTypeOn(t, y) => FirstTypeOn(t, y)'
        BY <4>1, Zenon DEF FirstTypeOn
      <4>4. PublishesWhatWasFramed'
        BY <4>1, <4>2, <4>3, Zenon DEF PublishesWhatWasFramed
      <4>5. mpc' \notin {"flush", "done"} => mpc \notin {"flush", "done"}
        BY <1>1, <2>1
      <4>6. PublishersOk'
        BY <2>2, <3>3, <4>1, <4>2, <4>3, <4>5 DEF PublishersOk
      <4> QED BY <4>4, <4>6
    <3> QED BY <3>1, <3>2, <3>3
  <2> QED BY <2>3, <2>4 DEF RxOk
<1> QED BY <1>2, <1>3, <1>4, <1>5 DEF Core

\* A message reaches the manager; nothing is handed out.
LEMMA MessageSteps ==
    ASSUME IInv, Message \/ TfMessage PROVE Core'
<1>1. /\ UNCHANGED <<config, mpc, advertised, io, publishers_, inners, shown>> /\ UNCHANGED tx
      /\ heard' = heard + 1
      /\ heard < config.msgs /\ mpc = "spin"
  BY DEF Message, TfMessage, rx
<1>2. /\ RingOk(mgr) /\ mgr.captured \in Nat /\ mgr.captured <= heard /\ config.msgs \in Nat
      /\ heard \in 0 .. config.msgs /\ known \in [Edges -> 0 .. config.msgs]
  BY ConfigOk DEF IInv, Core, Typed, RingOk
<1>3. /\ RingOk(mgr)' /\ TakenOf(mgr') = TakenOf(mgr) /\ mgr'.current_frame_ = mgr.current_frame_
      /\ mgr'.captured \in {mgr.captured, mgr.captured + 1}
  <2>1. CASE Message
    BY <1>2, <2>1, CapturedOk DEF Message
  <2>2. CASE TfMessage
    BY <1>2, <2>2, TfCapturedOk DEF TfMessage
  <2> QED BY <2>1, <2>2
<1>4. mgr'.captured <= heard'
  BY <1>1, <1>2, <1>3
<1>5. heard' \in 0 .. config.msgs
  BY <1>1, <1>2
<1>6. known' \in [Edges -> 0 .. config.msgs]
  <2>1. CASE Message
    BY <1>2, <2>1 DEF Message
  <2>2. CASE TfMessage
    <3>1. PICK msg \in TfMessages : known' = KnownAfter(msg)
      BY <2>2 DEF TfMessage
    <3> DEFINE ok  == {i \in DOMAIN msg : Accepted(msg[i])}
               bad == \E i \in ok : /\ Reverse(msg[i]) # msg[i]
                                    /\ \/ known[Reverse(msg[i])] # 0
                                       \/ \E j \in ok : j < i /\ msg[j] = Reverse(msg[i])
               v(id) == CASE bad -> 0
                          [] ~bad /\ (\E i \in ok : msg[i] = id) -> heard + 1
                          [] OTHER -> known[id]
    <3>2. known' = [id \in Edges |-> v(id)]
      BY <3>1 DEF KnownAfter
    <3>3. ASSUME NEW id \in Edges PROVE v(id) \in 0 .. config.msgs
      <4>1. 0 \in 0 .. config.msgs /\ heard + 1 \in 0 .. config.msgs /\ known[id] \in 0 .. config.msgs
        BY <1>1, <1>2
      <4> HIDE DEF ok, bad
      <4> QED BY <4>1
    <3> HIDE DEF v
    <3> QED BY <3>2, <3>3
  <2> QED BY <2>1, <2>2
<1>7. Typed'
  <2>1. tx_sequence_' = tx_sequence_ /\ window' = window
    BY <1>1 DEF tx
  <2> QED BY <1>1, <1>5, <1>6, <2>1 DEF IInv, Core, Typed
<1>8. TxOk'
  BY <1>1, <1>3, KeepsTx DEF IInv, Core
<1>9. RxOk'
  BY <1>1, KeepsRx DEF IInv, Core
<1> QED BY <1>3, <1>4, <1>7, <1>8, <1>9 DEF IInv, Core

\* A new manager, before anything was sent.
LEMMA InitializeStep ==
    ASSUME IInv, Initialize PROVE Core'
<1>1. /\ UNCHANGED <<config, advertised, heard, known, publishers_, inners, shown>> /\ UNCHANGED tx
      /\ mpc = "init" /\ mpc' = "spin" /\ mgr' = Checked(NewManager)
      /\ io' = IF config.net = "udp" THEN [io EXCEPT !.pc = "run", !.armed = TRUE] ELSE io
  BY DEF Initialize, LoadTopics, OpenUdp, hist
<1>2. /\ tx_sequence_' = tx_sequence_ /\ wal' = wal /\ wire' = wire /\ delayed' = delayed
      /\ worker' = worker /\ lost' = lost /\ vanished' = vanished /\ unlogged' = unlogged
      /\ window' = window
  BY <1>1 DEF tx
<1>3. Typed'
  BY <1>1, <1>2 DEF IInv, Core, Typed
<1>4. RingOk(mgr)' /\ TakenOf(mgr') = {} /\ mgr'.captured = 0
  BY <1>1, NewOk, CheckedOk DEF SameRing
<1>5. mgr'.captured <= heard'
  <2>1. heard \in Nat
    BY ConfigOk DEF IInv, Core, Typed
  <2> QED BY <1>1, <1>4, <2>1
<1>6. /\ wire = << >> /\ delayed = << >> /\ worker = << >> /\ lost = {} /\ wal = << >>
      /\ vanished = {} /\ unlogged = {}
  BY <1>1 DEF IInv, Core, TxOk, BeforeSpin
<1>7. TxOk'
  <2>1. Queues'
    <3>1. Range(delayed)' = {} /\ Range(worker)' = {}
      BY <1>2, <1>6, SeqEmpty
    <3> QED BY <1>2, <1>6, <3>1, SeqEmpty DEF Queues
  <2>2. Made' = {}
    BY <1>2, <1>6, SeqEmpty DEF Made
  <2>3. Line'
    <3>1. DOMAIN wire' = {} /\ DOMAIN delayed' = {}
      BY <1>2, <1>6
    <3>2. Range(wire)' = {} /\ Range(worker)' = {}
      BY <1>2, <1>6, SeqEmpty
    <3> QED BY <2>2, <3>1, <3>2 DEF Line, Ordered, AllPrecede
  <2>4. Logged'
    <3>1. DOMAIN wal' = {} /\ unlogged' = {}
      BY <1>2, <1>6
    <3> QED BY <2>2, <3>1 DEF Logged
  <2>5. Ledger'
    BY <1>2, <1>4, <1>6, SeqEmpty DEF Ledger
  <2> QED BY <1>1, <2>1, <2>3, <2>4, <2>5 DEF TxOk, BeforeSpin
<1>8. RxOk'
  <2>1. IoOk' /\ StaysArmed' /\ NoCallbackAfterClear'
    <3>1. io \in IoStates /\ io.pc = "off"
      BY <1>1 DEF IInv, Core, RxOk, IoOk
    <3> QED BY <1>1, <3>1 DEF IoOk, IoStates, StaysArmed, NoCallbackAfterClear
  <2>2. \A t, y : FirstTypeOn(t, y) => FirstTypeOn(t, y)'
    BY <1>1, Zenon DEF FirstTypeOn
  <2>3. PublishesWhatWasFramed'
    BY <1>1, <2>2, Zenon DEF IInv, Core, RxOk, PublishesWhatWasFramed
  <2>4. io'.pc # "publish"
    <3>1. io \in IoStates /\ io.pc = "off"
      BY <1>1 DEF IInv, Core, RxOk, IoOk
    <3> QED BY <1>1, <3>1 DEF IoStates
  <2>5. PublishersOk'
    BY <1>1, <2>2, <2>4 DEF IInv, Core, RxOk, PublishersOk
  <2> QED BY <2>1, <2>3, <2>5 DEF RxOk
<1> QED BY <1>3, <1>4, <1>5, <1>7, <1>8 DEF IInv, Core

-----------------------------------------------------------------------------
(* The send timer                                                          *)

\* What send_data takes: a newer frame, or the last one where stale data is sent.
LEMMA TakesFrame ==
    ASSUME IInv, Sendable
    PROVE  LET k == Got(Checked(mgr))
               f == k.current_frame_
           IN  /\ RingOk(k) /\ k.captured = mgr.captured
               /\ TakenOf(k) = TakenOf(mgr) \cup {f.n}
               /\ f.n \in Nat /\ mgr.current_frame_.n \in Nat
               /\ f.n > mgr.current_frame_.n \/ (config.stale /\ f = mgr.current_frame_)
<1> DEFINE m == Checked(mgr)
           k == Got(m)
<1>1. RingOk(mgr) /\ RingOk(m) /\ SameRing(mgr, m) /\ TakenOf(m) = TakenOf(mgr)
  BY CheckedOk DEF IInv, Core
<1> HIDE DEF m
<1>2. RingOk(k) /\ k.captured = m.captured
  BY <1>1, GotOk
<1>3. CASE mgr.ring = << >>
  <2>1. m.ring = << >> /\ k = m
    BY <1>1, <1>3, GotOk DEF SameRing
  <2>2. config.stale /\ mgr.received_msg_
    BY <1>3 DEF Sendable, HasData
  <2>3. mgr.current_frame_ # NoFrame
    BY <1>1, <1>3, <2>2 DEF RingOk
  <2>4. mgr.current_frame_.n \in TakenOf(mgr)
    BY <1>1, <2>3 DEF RingOk
  <2> HIDE DEF k
  <2>5. k.current_frame_ = mgr.current_frame_ /\ TakenOf(k) = TakenOf(mgr) \cup {k.current_frame_.n}
    BY <1>1, <2>1, <2>4 DEF SameRing
  <2>6. mgr.current_frame_.n \in Nat /\ k.captured = mgr.captured
    BY <1>1, <1>2 DEF RingOk, SameRing
  <2> QED BY <1>2, <2>2, <2>5, <2>6 DEF k, m
<1>4. CASE mgr.ring # << >>
  <2>1. m.ring # << >> /\ m.current_frame_ = mgr.current_frame_ /\ m.captured = mgr.captured
    BY <1>1, <1>4 DEF SameRing
  <2>2. k.current_frame_.n > m.current_frame_.n /\ TakenOf(k) = TakenOf(m) \cup {k.current_frame_.n}
    BY <1>1, <2>1, GotOk
  <2> HIDE DEF k
  <2>3. mgr.current_frame_.n \in Nat /\ k.current_frame_.n \in Nat
    BY <1>1, <1>2 DEF RingOk
  <2> QED BY <1>1, <1>2, <2>1, <2>2, <2>3 DEF k, m
<1> QED BY <1>3, <1>4

LEMMA NewPacket ==
    ASSUME NEW p, NEW seq \in Nat, NEW last, NEW new, NEW c, NEW v, MadeBefore(p, seq, last),
           last.n \in Nat, new.n \in Nat, new.n > last.n \/ (c.stale /\ new = last)
    PROVE  Precedes(p, [seq |-> seq, frame |-> new, via |-> v], c) /\ MadeBefore(p, seq + 1, new)
<1> DEFINE q == [seq |-> seq, frame |-> new, via |-> v]
<1>1. q.seq = seq /\ q.frame = new
  OBVIOUS
<1> HIDE DEF q
<1>2. /\ p.seq \in Nat /\ p.seq < seq /\ p.frame.n \in Nat
      /\ p.frame.n < last.n \/ p.frame = last
  BY DEF MadeBefore
<1>3. p.frame.n < new.n \/ (c.stale /\ p.frame = new)
  BY <1>2
<1>4. Precedes(p, q, c)
  BY <1>1, <1>2, <1>3 DEF Precedes
<1>5. MadeBefore(p, seq + 1, new)
  BY <1>2, <1>3 DEF MadeBefore
<1> QED BY <1>4, <1>5 DEF q

LEMMA MadeStill ==
    ASSUME NEW p, NEW seq \in Nat, NEW last, NEW new, NEW c, MadeBefore(p, seq, last),
           last.n \in Nat, new.n \in Nat, new.n > last.n \/ (c.stale /\ new = last)
    PROVE  MadeBefore(p, seq, new)
BY DEF MadeBefore

\* A frame is taken and lost on the way.
LEMMA LosesStep ==
    ASSUME IInv, Loses, tx_sequence_' \in {tx_sequence_, tx_sequence_ + 1} PROVE Core'
<1> DEFINE f == mgr'.current_frame_
<1>1. /\ UNCHANGED <<config, mpc, advertised, heard, known, io, publishers_, inners, shown>>
      /\ wal' = wal /\ wire' = wire /\ delayed' = delayed /\ worker' = worker
      /\ vanished' = vanished /\ unlogged' = unlogged /\ window' = window
      /\ lost' = lost \cup {f.n} /\ mgr' = Got(Checked(mgr)) /\ mpc = "spin"
  BY DEF Loses, Sendable, hist, rx
<1>2. Sendable
  BY DEF Loses
<1>3. /\ RingOk(mgr)' /\ mgr'.captured = mgr.captured /\ TakenOf(mgr') = TakenOf(mgr) \cup {f.n}
      /\ f.n \in Nat /\ mgr.current_frame_.n \in Nat
      /\ f.n > mgr.current_frame_.n \/ (config.stale /\ f = mgr.current_frame_)
  BY <1>1, <1>2, TakesFrame
<1> HIDE DEF f
<1>4. tx_sequence_ \in Nat /\ tx_sequence_' \in Nat
  BY DEF IInv, Core, Typed
<1>5. Typed'
  BY <1>1, <1>4 DEF IInv, Core, Typed
<1>6. mgr'.captured <= heard'
  BY <1>1, <1>3 DEF IInv, Core
<1>7. Made' = Made
  BY <1>1 DEF Made
<1>8. ASSUME NEW p \in Made PROVE MadeBefore(p, tx_sequence_', f)
  <2>1. MadeBefore(p, tx_sequence_, mgr.current_frame_)
    BY DEF IInv, Core, TxOk, Line
  <2>2. MadeBefore(p, tx_sequence_, f) /\ MadeBefore(p, tx_sequence_ + 1, f)
    BY <1>3, <1>4, <2>1, NewPacket, MadeStill
  <2> QED BY <2>2
<1>9. TxOk'
  <2>1. Queues'
    BY <1>1 DEF IInv, Core, TxOk, Queues
  <2>2. Line'
    BY <1>1, <1>7, <1>8 DEF IInv, Core, TxOk, Line, f
  <2>3. Logged'
    <3>1. \A n \in Nat : n < tx_sequence_ => n < tx_sequence_'
      BY <1>4
    <3> QED BY <1>1, <1>7, <3>1 DEF IInv, Core, TxOk, Logged
  <2>4. Ledger'
    BY <1>1, <1>3 DEF IInv, Core, TxOk, Ledger
  <2> QED BY <1>1, <2>1, <2>2, <2>3, <2>4 DEF TxOk, BeforeSpin
<1>10. RxOk'
  BY <1>1, KeepsRx DEF IInv, Core
<1> QED BY <1>3, <1>5, <1>6, <1>9, <1>10 DEF IInv, Core

\* The log takes packet q, made after everything else, or append() refuses it.
LEMMA LogsPacket ==
    ASSUME NEW q, Logged, IsSeq(wal), tx_sequence_ \in Nat, tx_sequence_' = tx_sequence_ + 1,
           config' = config, q.seq = tx_sequence_, Made' \subseteq Made \cup {q}, Logs(q)
    PROVE  Logged' /\ IsSeq(wal')
<1>0. CASE ~config.wal
  <2>1. wal' = wal
    BY <1>0 DEF Logs
  <2> QED BY <1>0, <2>1 DEF Logged
<1>1. CASE config.wal
  <2>1. /\ \A p \in Made : p.seq \in unlogged \/ InLog(p, wal)
        /\ \A k, l \in DOMAIN wal : k < l => wal[k].seq < wal[l].seq
        /\ \A k \in DOMAIN wal : /\ wal[k].seq \in Nat /\ wal[k].seq < tx_sequence_
                                 /\ wal[k].seq \notin unlogged
        /\ \A n \in unlogged : n \in Nat /\ n < tx_sequence_
    BY <1>1 DEF Logged
  <2>2. CASE unlogged' = unlogged \cup {q.seq} /\ wal' = wal
    <3>1. \A p \in Made' : p.seq \in unlogged' \/ InLog(p, wal')
      BY <2>1, <2>2
    <3>2. \A k \in DOMAIN wal' : /\ wal'[k].seq \in Nat /\ wal'[k].seq < tx_sequence_'
                                 /\ wal'[k].seq \notin unlogged'
      BY <2>1, <2>2
    <3>3. \A n \in unlogged' : n \in Nat /\ n < tx_sequence_'
      BY <2>1, <2>2
    <3> QED BY <2>1, <2>2, <3>1, <3>2, <3>3 DEF Logged
  <2>3. CASE unlogged' = unlogged /\ wal' = Append(wal, [seq |-> q.seq, frame |-> q.frame])
    <3> DEFINE e == [seq |-> q.seq, frame |-> q.frame]
    <3>1. e.seq = q.seq /\ e.frame = q.frame
      OBVIOUS
    <3> HIDE DEF e
    <3>2. /\ IsSeq(wal') /\ Len(wal) \in Nat
          /\ DOMAIN wal = 1 .. Len(wal) /\ DOMAIN wal' = 1 .. Len(wal) + 1
          /\ \A i \in 1 .. Len(wal) : wal'[i] = wal[i]
          /\ wal'[Len(wal) + 1] = e
      BY <2>3, SeqAppend DEF e
    <3>3. ASSUME NEW x \in Made' PROVE x.seq \in unlogged' \/ InLog(x, wal')
      <4>1. CASE x = q
        BY <3>1, <3>2, <4>1 DEF InLog
      <4>2. CASE x \in Made
        BY <2>1, <2>3, <3>2, <4>2 DEF InLog
      <4> QED BY <4>1, <4>2
    <3>4. ASSUME NEW k \in DOMAIN wal', NEW l \in DOMAIN wal', k < l PROVE wal'[k].seq < wal'[l].seq
      <4>1. k \in DOMAIN wal /\ wal'[k] = wal[k]
        BY <3>2, <3>4
      <4>2. CASE l \in DOMAIN wal
        BY <2>1, <3>2, <3>4, <4>1, <4>2
      <4>3. CASE l = Len(wal) + 1
        BY <2>1, <3>1, <3>2, <4>1, <4>3
      <4> QED BY <3>2, <4>2, <4>3
    <3>5. ASSUME NEW k \in DOMAIN wal'
          PROVE  wal'[k].seq \in Nat /\ wal'[k].seq < tx_sequence_' /\ wal'[k].seq \notin unlogged'
      <4>1. CASE k \in DOMAIN wal
        BY <2>1, <2>3, <3>2, <4>1
      <4>2. CASE k = Len(wal) + 1
        BY <2>1, <2>3, <3>1, <3>2, <4>2
      <4> QED BY <3>2, <4>1, <4>2
    <3>6. \A n \in unlogged' : n \in Nat /\ n < tx_sequence_'
      BY <2>1, <2>3
    <3> QED BY <3>2, <3>3, <3>4, <3>5, <3>6 DEF Logged
  <2> QED BY <1>1, <2>2, <2>3 DEF Logs, Recorded
<1> QED BY <1>0, <1>1

\* A packet is made; it is delayed, written or lost.
LEMMA SendStep ==
    ASSUME IInv, Send PROVE Core'
<1> DEFINE f == mgr'.current_frame_
           q == [seq |-> tx_sequence_, frame |-> f, via |-> Via]
<1>1. /\ UNCHANGED <<config, mpc, advertised, heard, known, io, publishers_, inners, shown>>
      /\ worker' = worker /\ vanished' = vanished /\ window' = window
      /\ mgr' = Got(Checked(mgr)) /\ mpc = "spin" /\ tx_sequence_' = tx_sequence_ + 1
      /\ Logs(q)
      /\ \/ Via = "delayed" /\ delayed' = Append(delayed, q) /\ wire' = wire /\ lost' = lost
         \/ Via # "delayed" /\ wire' = Append(wire, q) /\ lost' = lost /\ delayed' = delayed
         \/ Via # "delayed" /\ wire' = wire /\ lost' = lost \cup {f.n} /\ delayed' = delayed
  <2>1. q.frame = f
    OBVIOUS
  <2>2. /\ Sendable /\ mgr' = Got(Checked(mgr)) /\ tx_sequence_' = tx_sequence_ + 1 /\ Logs(q)
        /\ \/ Via = "delayed" /\ delayed' = Append(delayed, q) /\ UNCHANGED <<wire, lost, net>>
           \/ Via # "delayed" /\ Writes(q) /\ UNCHANGED delayed
           \/ Via # "delayed" /\ WriteFails(q) /\ UNCHANGED delayed
        /\ UNCHANGED <<config, mpc, advertised, hist, window, worker, vanished, rx>>
    BY DEF Send
  <2> HIDE DEF q
  <2> QED BY <2>1, <2>2 DEF Sendable, Writes, WriteFails, Write, hist, rx
<1>2. Sendable
  BY DEF Send
<1>3. /\ RingOk(mgr)' /\ mgr'.captured = mgr.captured /\ TakenOf(mgr') = TakenOf(mgr) \cup {f.n}
      /\ f.n \in Nat /\ mgr.current_frame_.n \in Nat
      /\ f.n > mgr.current_frame_.n \/ (config.stale /\ f = mgr.current_frame_)
  BY <1>1, <1>2, TakesFrame
<1> HIDE DEF f
<1>4. tx_sequence_ \in Nat /\ tx_sequence_' \in Nat
  BY <1>1 DEF IInv, Core, Typed
<1>5. Typed'
  BY <1>1, <1>4 DEF IInv, Core, Typed
<1>6. mgr'.captured <= heard'
  BY <1>1, <1>3 DEF IInv, Core
<1>7. q.seq = tx_sequence_ /\ q.frame = f /\ q.via = Via
  OBVIOUS
<1>8. ASSUME NEW p \in Made
      PROVE  Precedes(p, q, config) /\ MadeBefore(p, tx_sequence_', f)
  <2>1. MadeBefore(p, tx_sequence_, mgr.current_frame_)
    BY DEF IInv, Core, TxOk, Line
  <2> QED BY <1>1, <1>3, <1>4, <2>1, NewPacket
<1> HIDE DEF q
<1>9. MadeBefore(q, tx_sequence_', f)
  BY <1>1, <1>3, <1>4, <1>7 DEF MadeBefore
<1>10. /\ IsSeq(wire) /\ IsSeq(delayed) /\ IsSeq(worker) /\ IsSeq(wal)
       /\ worker = << >> \/ worker = <<Head(worker)>>
       /\ ~config.delay \/ window = "before" => delayed = << >> /\ worker = << >>
       /\ \A p \in Range(delayed) \cup Range(worker) : p.via = "delayed"
       /\ Logged
       /\ Ordered(wire, config) /\ Ordered(delayed, config)
       /\ AllPrecede(Range(wire), Range(worker), config)
       /\ AllPrecede(Range(wire), Range(delayed), config)
       /\ AllPrecede(Range(worker), Range(delayed), config)
       /\ TakenOf(mgr) = FramesOf(wire) \cup FramesOf(delayed) \cup FramesOf(worker) \cup lost \cup vanished
  BY DEF IInv, Core, TxOk, Queues, Line, Ledger
<1>11. \A p \in Range(wire) \cup Range(worker) \cup Range(delayed) : Precedes(p, q, config)
  BY <1>8 DEF Made
<1>12. /\ IsSeq(wire') /\ IsSeq(delayed')
       /\ ~config.delay \/ window = "before" => delayed' = << >> /\ worker' = << >>
       /\ \A p \in Range(delayed') \cup Range(worker') : p.via = "delayed"
       /\ Made' \subseteq Made \cup {q}
       /\ Ordered(wire', config) /\ Ordered(delayed', config)
       /\ AllPrecede(Range(wire'), Range(worker'), config)
       /\ AllPrecede(Range(wire'), Range(delayed'), config)
       /\ AllPrecede(Range(worker'), Range(delayed'), config)
       /\ TakenOf(mgr') = FramesOf(wire') \cup FramesOf(delayed') \cup FramesOf(worker') \cup lost' \cup vanished'
  <2>0. Made' = Range(wire') \cup Range(worker') \cup Range(delayed')
    BY DEF Made, Range
  <2>1. CASE Via = "delayed" /\ delayed' = Append(delayed, q) /\ wire' = wire /\ lost' = lost
    <3>1. worker' = worker /\ vanished' = vanished /\ q.via = "delayed" /\ config.delay /\ window # "before"
      BY <1>1, <1>7, <2>1 DEF Via
    <3>2. IsSeq(delayed') /\ Range(delayed') = Range(delayed) \cup {q}
      BY <1>10, <2>1, SeqAppend
    <3>3. Ordered(delayed', config)
      BY <1>10, <1>11, <2>1, OrderedAppend
    <3>4. /\ AllPrecede(Range(wire'), Range(delayed'), config)
          /\ AllPrecede(Range(worker'), Range(delayed'), config)
      BY <1>10, <1>11, <2>1, <3>1, <3>2 DEF AllPrecede
    <3>5. FramesOf(delayed') = FramesOf(delayed) \cup {f.n}
      BY <1>7, <3>2, FramesAre
    <3> QED BY <1>3, <1>10, <2>0, <2>1, <3>1, <3>2, <3>3, <3>4, <3>5 DEF Made
  <2>2. CASE Via # "delayed" /\ wire' = Append(wire, q) /\ lost' = lost /\ delayed' = delayed
    <3>1. worker' = worker /\ vanished' = vanished
      BY <1>1
    <3>2. IsSeq(wire') /\ Range(wire') = Range(wire) \cup {q}
      BY <1>10, <2>2, SeqAppend
    <3>3. Ordered(wire', config)
      BY <1>10, <1>11, <2>2, OrderedAppend
    <3>4. ASSUME NEW p \in Range(delayed) \cup Range(worker) PROVE Precedes(q, p, config)
      <4>1. p.via = "delayed" /\ config.delay /\ window # "before"
        BY <1>10, SeqEmpty
      <4>2. q.via = "late"
        BY <1>7, <2>2, <4>1 DEF Via
      <4> QED BY <4>1, <4>2 DEF Precedes
    <3>5. /\ AllPrecede(Range(wire'), Range(worker'), config)
          /\ AllPrecede(Range(wire'), Range(delayed'), config)
          /\ AllPrecede(Range(worker'), Range(delayed'), config)
      BY <1>10, <2>2, <3>1, <3>2, <3>4 DEF AllPrecede
    <3>6. FramesOf(wire') = FramesOf(wire) \cup {f.n}
      BY <1>7, <3>2, FramesAre
    <3> QED BY <1>3, <1>10, <2>0, <2>2, <3>1, <3>2, <3>3, <3>5, <3>6 DEF Made
  <2>3. CASE Via # "delayed" /\ wire' = wire /\ lost' = lost \cup {f.n} /\ delayed' = delayed
    <3>1. worker' = worker /\ vanished' = vanished
      BY <1>1
    <3> QED BY <1>3, <1>10, <2>0, <2>3, <3>1 DEF Made
  <2> QED BY <1>1, <2>1, <2>2, <2>3
<1>13. TxOk'
  <2>1. Logged' /\ IsSeq(wal')
    BY <1>1, <1>4, <1>7, <1>10, <1>12, LogsPacket
  <2>2. Queues'
    <3>1. Range(delayed') = Range(delayed)' /\ Range(worker') = Range(worker)'
      BY DEF Range
    <3> QED BY <1>1, <1>10, <1>12, <2>1, <3>1 DEF Queues
  <2>3. \A p \in Made' : MadeBefore(p, tx_sequence_', mgr'.current_frame_)
    BY <1>8, <1>9, <1>12 DEF f
  <2>4. Line'
    <3>1. Range(wire') = Range(wire)' /\ Range(delayed') = Range(delayed)' /\ Range(worker') = Range(worker)'
      BY DEF Range
    <3> QED BY <1>1, <1>12, <2>3, <3>1 DEF Line, Ordered
  <2>5. Ledger'
    BY <1>12 DEF Ledger
  <2> QED BY <1>1, <2>1, <2>2, <2>4, <2>5 DEF TxOk, BeforeSpin
<1>14. RxOk'
  BY <1>1, KeepsRx DEF IInv, Core
<1> QED BY <1>3, <1>5, <1>6, <1>13, <1>14 DEF Core

-----------------------------------------------------------------------------
(* The fault engine                                                        *)

\* Packets move on, are lost or vanish, and nothing else changes: what is left to show of
\* such a step is about the three queues.
LEMMA EngineStep ==
    ASSUME IInv,
           UNCHANGED <<config, mpc, advertised, heard, known, io, publishers_, inners, shown, mgr,
                       window, tx_sequence_, wal, unlogged>>,
           IsSeq(wire') /\ IsSeq(delayed') /\ IsSeq(worker'),
           worker' = << >> \/ worker' = <<Head(worker')>>,
           config.delay, mpc # "init", window # "before",
           \A p \in Range(delayed') \cup Range(worker') : p.via = "delayed",
           Ordered(wire', config) /\ Ordered(delayed', config),
           AllPrecede(Range(wire'), Range(worker'), config),
           AllPrecede(Range(wire'), Range(delayed'), config),
           AllPrecede(Range(worker'), Range(delayed'), config),
           Range(wire') \cup Range(worker') \cup Range(delayed') \subseteq Made,
           FramesOf(wire') \cup FramesOf(delayed') \cup FramesOf(worker') \cup lost' \cup vanished'
               = FramesOf(wire) \cup FramesOf(delayed) \cup FramesOf(worker) \cup lost \cup vanished
    PROVE  Core'
<1>1. Made' \subseteq Made
  BY DEF Made, Range
<1>0. Range(wire') = Range(wire)' /\ Range(delayed') = Range(delayed)' /\ Range(worker') = Range(worker)'
  BY DEF Range
<1>2. Queues'
  BY <1>0 DEF IInv, Core, TxOk, Queues
<1>3. Line'
  BY <1>0, <1>1 DEF IInv, Core, TxOk, Line, Ordered
<1>4. Logged'
  BY <1>1 DEF IInv, Core, TxOk, Logged
<1>5. Ledger'
  BY DEF IInv, Core, TxOk, Ledger
<1>6. TxOk'
  BY <1>2, <1>3, <1>4, <1>5 DEF TxOk, BeforeSpin
<1>7. RxOk'
  BY KeepsRx DEF IInv, Core
<1>8. Typed' /\ RingOk(mgr)' /\ (mgr.captured <= heard)'
  BY DEF IInv, Core, Typed
<1> QED BY <1>6, <1>7, <1>8 DEF Core

LEMMA EngineSteps ==
    ASSUME IInv, Flush \/ WorkerPops \/ WorkerWrites PROVE Core'
<1>1. /\ UNCHANGED <<config, mpc, advertised, heard, known, io, publishers_, inners, shown, mgr,
                     window, tx_sequence_, wal, unlogged>>
      /\ delayed # << >> \/ worker # << >>
  BY DEF Flush, WorkerPops, WorkerWrites, hist, rx
<1>2. /\ IsSeq(wire) /\ IsSeq(delayed) /\ IsSeq(worker)
      /\ worker = << >> \/ worker = <<Head(worker)>>
      /\ Ordered(wire, config) /\ Ordered(delayed, config)
      /\ AllPrecede(Range(wire), Range(worker), config)
      /\ AllPrecede(Range(wire), Range(delayed), config)
      /\ AllPrecede(Range(worker), Range(delayed), config)
      /\ ~config.delay \/ window = "before" => delayed = << >> /\ worker = << >>
      /\ \A p \in Range(delayed) \cup Range(worker) : p.via = "delayed"
      /\ mpc = "init" => delayed = << >> /\ worker = << >>
  BY DEF IInv, Core, TxOk, Queues, Line, BeforeSpin
<1>3. config.delay /\ mpc # "init" /\ window # "before"
  BY <1>1, <1>2
<1>4. Made = Range(wire) \cup Range(worker) \cup Range(delayed)
  BY DEF Made
<1>5. CASE Flush
  <2>1. /\ delayed # << >> /\ delayed' = Tail(delayed) /\ wire' = wire /\ worker' = worker
        /\ lost' = lost /\ vanished' = vanished \cup {Head(delayed).frame.n}
    BY <1>5 DEF Flush
  <2>2. IsSeq(delayed') /\ Range(delayed) = {Head(delayed)} \cup Range(delayed')
    BY <1>2, <2>1, SeqTail
  <2>3. Ordered(delayed', config)
    BY <1>2, <2>1, OrderedTail
  <2>4. FramesOf(delayed) = {Head(delayed).frame.n} \cup FramesOf(delayed')
    BY <2>2, FramesAre
  <2>5. /\ AllPrecede(Range(wire'), Range(worker'), config)
        /\ AllPrecede(Range(wire'), Range(delayed'), config)
        /\ AllPrecede(Range(worker'), Range(delayed'), config)
    BY <1>2, <2>1, <2>2 DEF AllPrecede
  <2>6. FramesOf(wire') \cup FramesOf(delayed') \cup FramesOf(worker') \cup lost' \cup vanished'
            = FramesOf(wire) \cup FramesOf(delayed) \cup FramesOf(worker) \cup lost \cup vanished
    BY <2>1, <2>4
  <2>7. Range(wire') \cup Range(worker') \cup Range(delayed') \subseteq Made
    BY <1>4, <2>1, <2>2
  <2>8. \A p \in Range(delayed') \cup Range(worker') : p.via = "delayed"
    BY <1>2, <2>1, <2>2
  <2> QED BY <1>1, <1>2, <1>3, <2>1, <2>2, <2>3, <2>5, <2>6, <2>7, <2>8, EngineStep
<1>6. CASE WorkerPops
  <2>1. /\ delayed # << >> /\ worker = << >> /\ worker' = <<Head(delayed)>> /\ delayed' = Tail(delayed)
        /\ wire' = wire /\ lost' = lost /\ vanished' = vanished
    BY <1>6 DEF WorkerPops
  <2>2. IsSeq(delayed') /\ Range(delayed) = {Head(delayed)} \cup Range(delayed')
    BY <1>2, <2>1, SeqTail
  <2>3. Ordered(delayed', config) /\ \A p \in Range(delayed') : Precedes(Head(delayed), p, config)
    BY <1>2, <2>1, OrderedTail
  <2>4. /\ IsSeq(worker') /\ Range(worker') = {Head(delayed)} /\ worker' = <<Head(worker')>>
        /\ FramesOf(worker') = {Head(delayed).frame.n} /\ FramesOf(worker) = {}
    BY <2>1, SeqOne, SeqEmpty
  <2>5. FramesOf(delayed) = {Head(delayed).frame.n} \cup FramesOf(delayed')
    BY <2>2, FramesAre
  <2>6. /\ AllPrecede(Range(wire'), Range(worker'), config)
        /\ AllPrecede(Range(wire'), Range(delayed'), config)
        /\ AllPrecede(Range(worker'), Range(delayed'), config)
    BY <1>2, <2>1, <2>2, <2>3, <2>4 DEF AllPrecede
  <2>7. FramesOf(wire') \cup FramesOf(delayed') \cup FramesOf(worker') \cup lost' \cup vanished'
            = FramesOf(wire) \cup FramesOf(delayed) \cup FramesOf(worker) \cup lost \cup vanished
    BY <2>1, <2>4, <2>5
  <2>8. Range(wire') \cup Range(worker') \cup Range(delayed') \subseteq Made
    BY <1>4, <2>1, <2>2, <2>4
  <2>9. \A p \in Range(delayed') \cup Range(worker') : p.via = "delayed"
    BY <1>2, <2>1, <2>2, <2>4
  <2> QED BY <1>1, <1>2, <1>3, <2>1, <2>2, <2>3, <2>4, <2>6, <2>7, <2>8, <2>9, EngineStep
<1>7. CASE WorkerWrites
  <2> DEFINE q == Head(worker)
  <2>1. /\ worker # << >> /\ worker' = << >> /\ delayed' = delayed
        /\ \/ wire' = Append(wire, q) /\ lost' = lost /\ vanished' = vanished
           \/ wire' = wire /\ lost' = lost \cup {q.frame.n} /\ vanished' = vanished
           \/ wire' = wire /\ lost' = lost /\ vanished' = vanished \cup {q.frame.n}
    BY <1>7 DEF WorkerWrites, Writes, WriteFails, Write
  <2>2. Range(worker) = {q} /\ FramesOf(worker) = {q.frame.n}
    BY <1>2, <2>1, SeqOne
  <2> HIDE DEF q
  <2>3. IsSeq(worker') /\ Range(worker') = {} /\ FramesOf(worker') = {}
    BY <2>1, SeqEmpty
  <2>4. /\ \A p \in Range(wire) : Precedes(p, q, config)
        /\ \A p \in Range(delayed) : Precedes(q, p, config)
    BY <1>2, <2>2 DEF AllPrecede
  <2>5. /\ IsSeq(wire') /\ Ordered(wire', config) /\ Range(wire') \subseteq Range(wire) \cup {q}
        /\ FramesOf(wire') \cup lost' \cup vanished' = FramesOf(wire) \cup {q.frame.n} \cup lost \cup vanished
    <3>1. CASE wire' = Append(wire, q) /\ lost' = lost /\ vanished' = vanished
      <4>1. IsSeq(wire') /\ Range(wire') = Range(wire) \cup {q}
        BY <1>2, <3>1, SeqAppend
      <4>2. Ordered(wire', config)
        BY <1>2, <2>4, <3>1, OrderedAppend
      <4>3. FramesOf(wire') = FramesOf(wire) \cup {q.frame.n}
        BY <4>1, FramesAre
      <4> QED BY <3>1, <4>1, <4>2, <4>3
    <3>2. CASE wire' = wire /\ lost' = lost \cup {q.frame.n} /\ vanished' = vanished
      BY <1>2, <3>2
    <3>3. CASE wire' = wire /\ lost' = lost /\ vanished' = vanished \cup {q.frame.n}
      BY <1>2, <3>3
    <3> QED BY <2>1, <3>1, <3>2, <3>3
  <2>6. /\ AllPrecede(Range(wire'), Range(worker'), config)
        /\ AllPrecede(Range(wire'), Range(delayed'), config)
        /\ AllPrecede(Range(worker'), Range(delayed'), config)
    BY <1>2, <2>1, <2>3, <2>4, <2>5 DEF AllPrecede
  <2>7. FramesOf(wire') \cup FramesOf(delayed') \cup FramesOf(worker') \cup lost' \cup vanished'
            = FramesOf(wire) \cup FramesOf(delayed) \cup FramesOf(worker) \cup lost \cup vanished
    BY <2>1, <2>2, <2>3, <2>5
  <2>8. Range(wire') \cup Range(worker') \cup Range(delayed') \subseteq Made
    BY <1>4, <2>1, <2>2, <2>3, <2>5
  <2>9. \A p \in Range(delayed') \cup Range(worker') : p.via = "delayed"
    BY <1>2, <2>1, <2>3
  <2> QED BY <1>1, <1>2, <1>3, <2>1, <2>3, <2>5, <2>6, <2>7, <2>8, <2>9, EngineStep
<1> QED BY <1>5, <1>6, <1>7

-----------------------------------------------------------------------------
(* The interface                                                           *)

\* The interface comes with initialize() and goes with shutdown(); only then can a frame
\* vanish.
LEMMA NetStep ==
    ASSUME IInv, [Next]_vars PROVE NetOk'
<1>0. /\ net \in [alive : BOOLEAN, ready : BOOLEAN, failed : BOOLEAN, fails : Nat]
      /\ net.alive \/ mpc \in {"init", "flush", "done"}
      /\ mpc \in {"flush", "done"} => ~net.alive
      /\ vanished # {} => config.delay /\ mpc \in {"flush", "done"}
  BY DEF IInv, NetOk
<1>1. mpc = "init" => worker = << >> /\ io.pc = "off"
  BY DEF IInv, Core, TxOk, BeforeSpin, RxOk, IoOk
<1>2. mpc \in {"clear", "flush", "done"} => io.pc = "off"
  BY DEF IInv, Core, RxOk, NoCallbackAfterClear
<1>3. ~config.delay => delayed = << >> /\ worker = << >>
  BY DEF IInv, Core, TxOk, Queues
<1> DEFINE N == [alive : BOOLEAN, ready : BOOLEAN, failed : BOOLEAN, fails : Nat]
<1>4. Broken \in N /\ Broken.alive = net.alive
  <2>1. net.fails + 1 \in Nat
    BY <1>0
  <2> QED BY <1>0, <2>1 DEF Broken
<1> HIDE DEF N
<1>5. ASSUME net' \in {net, Broken}, mpc' = mpc, config' = config, vanished' = vanished PROVE NetOk'
  BY <1>0, <1>4, <1>5 DEF NetOk, N
<1>6. CASE SendNothing \/ Advertise \/ Message \/ TfMessage \/ WindowMoves \/ UNCHANGED vars
  BY <1>5, <1>6 DEF SendNothing, Advertise, Message, TfMessage, WindowMoves, vars, tx
<1>7. CASE CompressFails \/ EncodeFails
  BY <1>5, <1>7 DEF CompressFails, EncodeFails, Loses
<1>8. CASE Send
  BY <1>5, <1>8 DEF Send, Writes, WriteFails
<1>9. CASE NetFails
  BY <1>5, <1>9 DEF NetFails, tx
<1>10. CASE NetConnects \/ Health
  <2>1. mpc' = mpc /\ config' = config /\ vanished' = vanished
    BY <1>10 DEF NetConnects, Health, tx
  <2>2. net' \in N /\ net'.alive = net.alive
    BY <1>0, <1>10 DEF NetConnects, Health, N
  <2> QED BY <1>0, <2>1, <2>2 DEF NetOk, N
<1>11. CASE Initialize
  <2>1. mpc = "init" /\ mpc' = "spin" /\ config' = config /\ vanished' = vanished
    BY <1>11 DEF Initialize, tx
  <2>2. net' = [net EXCEPT !.alive = TRUE, !.ready = config.net = "udp"]
    BY <1>11 DEF Initialize
  <2>3. PICK b \in BOOLEAN : b = (config.net = "udp")
    OBVIOUS
  <2>4. net' = [net EXCEPT !.alive = TRUE, !.ready = b]
    BY <2>2, <2>3, Zenon
  <2> HIDE <2>2, <2>3
  <2>5. net' \in N /\ net'.alive
    BY <1>0, <2>4 DEF N
  <2> QED BY <1>0, <2>1, <2>5 DEF NetOk, N
<1>12. CASE Shutdown \/ CloseJoins \/ CloseHangs \/ Destroy
  <2>1. net' = net /\ config' = config /\ vanished' = vanished
    BY <1>12 DEF Shutdown, CloseJoins, CloseHangs, Destroy, tx
  <2>2. \/ mpc \in {"spin", "join"} /\ mpc' \in {"join", "clear", "stuck"}
        \/ mpc = "flush" /\ mpc' = "done"
    BY <1>12 DEF Shutdown, CloseJoins, CloseHangs, Destroy
  <2> QED BY <1>0, <2>1, <2>2 DEF NetOk
<1>13. CASE Clear
  <2>1. mpc = "clear" /\ mpc' = "flush" /\ config' = config /\ vanished' = vanished
        /\ net' = [net EXCEPT !.alive = FALSE, !.ready = FALSE]
    BY <1>13 DEF Clear, tx
  <2> QED BY <1>0, <2>1 DEF NetOk
<1>14. CASE Flush \/ WorkerPops
  <2>1. net' = net /\ config' = config /\ mpc' = mpc
        /\ (vanished' = vanished \/ (mpc = "flush" /\ delayed # << >>))
    BY <1>14 DEF Flush, WorkerPops
  <2> QED BY <1>0, <1>3, <2>1 DEF NetOk
<1>15. CASE WorkerWrites
  <2>1. /\ config' = config /\ mpc' = mpc /\ worker # << >> /\ net' \in {net, Broken}
        /\ vanished' = vanished \/ (~net.alive /\ net' = net)
    BY <1>15 DEF WorkerWrites, Writes, WriteFails
  <2>2. CASE vanished' = vanished
    BY <1>5, <2>1, <2>2
  <2>3. CASE ~net.alive /\ net' = net
    <3>1. mpc \in {"flush", "done"} /\ config.delay
      BY <1>0, <1>1, <1>3, <2>1, <2>3
    <3> QED BY <1>0, <2>1, <2>3, <3>1 DEF NetOk
  <2> QED BY <2>1, <2>2, <2>3
<1>16. CASE WorkerCrashes
  <2>1. net.alive /\ mpc' = "terminated" /\ net' = net /\ config' = config /\ vanished' = vanished
    BY <1>16 DEF WorkerCrashes, tx
  <2> QED BY <1>0, <2>1 DEF NetOk
<1>17. CASE Empty \/ ReceiveFails \/ Arrive \/ ReceiveChecks \/ ReceiveData \/ Publish \/ IoReturns
  BY <1>5, <1>17 DEF Empty, ReceiveFails, Arrive, ReceiveChecks, ReceiveData, Publish, IoReturns, tx
<1>18. CASE ReceiveThrows
  <2>1. /\ io.pc = "decode" /\ mpc' = "terminated" /\ net' = net /\ config' = config
        /\ vanished' = vanished
    BY <1>18 DEF ReceiveThrows, tx
  <2>2. mpc \notin {"init", "flush", "done"}
    BY <1>1, <1>2, <2>1
  <2> QED BY <1>0, <2>1, <2>2 DEF NetOk
<1> QED BY <1>6, <1>7, <1>8, <1>9, <1>10, <1>11, <1>12, <1>13, <1>14, <1>15, <1>16, <1>17, <1>18
        DEF Next, Main, SendTimer, Worker, Io

-----------------------------------------------------------------------------
(* The theorems                                                            *)

LEMMA NextIInv == IInv /\ [Next]_vars => IInv'
<1> SUFFICES ASSUME IInv, [Next]_vars PROVE Core'
  BY NetStep DEF IInv
<1>1. CASE \/ SendNothing \/ Health \/ Advertise \/ NetFails \/ NetConnects \/ CloseJoins
           \/ CloseHangs \/ Destroy \/ Clear \/ WorkerCrashes
  BY <1>1, QuietSteps
<1>2. CASE Empty \/ ReceiveFails \/ Arrive \/ Io \/ Shutdown
  BY <1>2, IoSteps
<1>3. CASE Message \/ TfMessage
  BY <1>3, MessageSteps
<1>4. CASE Initialize
  BY <1>4, InitializeStep
<1>5. CASE CompressFails \/ EncodeFails
  BY <1>5, LosesStep DEF CompressFails, EncodeFails
<1>6. CASE Send
  BY <1>6, SendStep
<1>7. CASE Flush \/ WorkerPops \/ WorkerWrites
  BY <1>7, EngineSteps
<1>8. CASE WindowMoves
  BY <1>8, WindowStep
<1>9. CASE UNCHANGED vars
  <2>1. /\ UNCHANGED <<config, mpc, advertised, heard, known, io, publishers_, inners, shown, mgr>>
        /\ UNCHANGED tx
    BY <1>9 DEF vars, hist, rx
  <2>2. Typed' /\ RingOk(mgr)' /\ (mgr.captured <= heard)'
    BY <2>1 DEF IInv, Core, Typed, tx
  <2>3. TxOk'
    BY <2>1, KeepsTx DEF IInv, Core
  <2>4. RxOk'
    BY <2>1, KeepsRx DEF IInv, Core
  <2> QED BY <2>2, <2>3, <2>4 DEF Core
<1> QED BY <1>1, <1>2, <1>3, <1>4, <1>5, <1>6, <1>7, <1>8, <1>9
        DEF Next, Main, SendTimer, Worker

LEMMA SpecIInv == Spec => []IInv
BY InitIInv, NextIInv, PTL DEF Spec

\* What the parts of the node count on, for every configuration and every length of run:
\* send_data gets a frame from a manager that says it has one, the UDP interface has a
\* receive armed while its thread runs unless an error came with bytes, and no
\* receive_data is at work once shutdown() clears the publishers.
THEOREM BridgeInv == Spec => []Inv
<1>1. IInv => Inv
  BY IInvTypeOK, IInvHasData DEF IInv, Core, RxOk, Inv
<1> QED BY <1>1, SpecIInv, PTL

\* No frame goes missing between the callback and the wire without a report, but for one
\* case: with a delay rule, frames the engine still has when shutdown() has taken the
\* interface vanish, and no frame vanishes in any other way.
THEOREM BridgeFramesAccounted == Spec => []FramesAccounted
BY SpecIInv, IInvAccounted, PTL

\* Frames go out in the order of capture and under increasing sequence numbers, also
\* when they pass the engine's queue and its worker while send_data makes new ones.  Only
\* a frame sent after the end of the delay window may overtake, and only frames that were
\* delayed inside it.
THEOREM BridgeSentInCaptureOrder == Spec => []SentInCaptureOrder
BY SpecIInv, IInvOrder, PTL

\* The replay log has every frame on the wire, under the number it was sent with, except
\* those for which append() returned false.
THEOREM BridgeWireIsRecorded == Spec => []WireIsRecorded
BY SpecIInv, IInvRecorded, PTL

\* receive_data publishes exactly the messages that create_header makes of a topic and a
\* type that are not empty, on that topic and with that payload, and always under the
\* type the topic's first message named, for inner messages of any length and any bytes.
THEOREM BridgePublishesWhatWasFramed == Spec => []PublishesWhatWasFramed
<1>1. IInv => PublishesWhatWasFramed
  BY DEF IInv, Core, RxOk
<1> QED BY <1>1, SpecIInv, PTL

-----------------------------------------------------------------------------
(* The TF list                                                             *)

LEMMA ReverseFacts ==
    ASSUME NEW id \in Edges
    PROVE  Reverse(id) \in Edges /\ Reverse(Reverse(id)) = id
<1>1. PICK a \in TfFrames, b \in TfFrames : id = <<a, b>>
  BY DEF Edges
<1>2. ASSUME NEW x \in TfFrames, NEW y \in TfFrames PROVE Reverse(<<x, y>>) = <<y, x>>
  BY DEF Reverse
<1> QED BY <1>1, <1>2 DEF Edges

TfEntries == [id : Edges, n : Nat]

\* The list and its index agree, and a transform's reverse is not in it, if it is another.
ListOk(tfs, ids) ==
    /\ tfs \in Seq(TfEntries) /\ ids \in [Edges -> Nat]
    /\ \A i \in 1 .. Len(tfs) : ids[tfs[i].id] = i
    /\ \A e \in Edges : ids[e] # 0 =>
          /\ ids[e] \in 1 .. Len(tfs) /\ tfs[ids[e]].id = e
          /\ Reverse(e) # e => ids[Reverse(e)] = 0

\* The list has the transforms of k, with their values.
Holds(tfs, ids, k) ==
    \A e \in Edges : /\ ids[e] = 0 => k[e] = 0
                     /\ ids[e] # 0 => k[e] # 0 /\ tfs[ids[e]].n = k[e]

LEMMA ListEmpty ==
    ASSUME NEW k, \A e \in Edges : k[e] = 0
    PROVE  ListOk(<< >>, NewManager.tf_id_) /\ Holds(<< >>, NewManager.tf_id_, k)
<1>1. NewManager.tf_id_ = [e \in Edges |-> 0]
  BY DEF NewManager
<1> QED BY <1>1 DEF ListOk, Holds

\* A known transform gets a new value.
LEMMA ListReplaces ==
    ASSUME NEW tfs, NEW ids, ListOk(tfs, ids), NEW k \in [Edges -> Nat], Holds(tfs, ids, k),
           NEW e \in Edges, ids[e] # 0, NEW v \in Nat \ {0}
    PROVE  /\ ListOk([tfs EXCEPT ![ids[e]].n = v], ids)
           /\ Holds([tfs EXCEPT ![ids[e]].n = v], ids, [k EXCEPT ![e] = v])
<1>1. tfs \in Seq(TfEntries) /\ ids \in [Edges -> Nat]
  BY DEF ListOk
<1>2. PICK p \in 1 .. Len(tfs) : p = ids[e] /\ tfs[p].id = e
  BY DEF ListOk
<1>3. PICK t : t = [tfs EXCEPT ![p].n = v]
  OBVIOUS
<1>31. \A i \in 1 .. Len(tfs) : tfs[i] \in TfEntries
  BY <1>1
<1>32. PICK c \in TfEntries : c = [tfs[p] EXCEPT !.n = v] /\ c.id = e /\ c.n = v
  <2>1. PICK x : x = tfs[p] /\ x \in TfEntries /\ x.id = e
    BY <1>2, <1>31
  <2>2. [x EXCEPT !.n = v] = [id |-> e, n |-> v]
    BY <2>1 DEF TfEntries
  <2>3. [id |-> e, n |-> v] \in TfEntries
    BY DEF TfEntries
  <2> QED BY <2>1, <2>2, <2>3
<1>33. t = [tfs EXCEPT ![p] = c]
  BY <1>3, <1>32
<1> HIDE <1>3, <1>32
<1>4. /\ t \in Seq(TfEntries) /\ Len(t) = Len(tfs) /\ t[p] = c
      /\ \A i \in 1 .. Len(tfs) : i # p => t[i] = tfs[i]
  BY <1>1, <1>33
<1>5. c.id = e /\ c.n = v
  BY <1>32
<1>51. ASSUME NEW i \in 1 .. Len(tfs) PROVE t[i].id = tfs[i].id
  BY <1>2, <1>4, <1>5
<1>6. ListOk(t, ids)
  BY <1>4, <1>51 DEF ListOk
<1>7. ASSUME NEW d \in Edges
      PROVE  /\ ids[d] = 0 => [k EXCEPT ![e] = v][d] = 0
             /\ ids[d] # 0 => [k EXCEPT ![e] = v][d] # 0 /\ t[ids[d]].n = [k EXCEPT ![e] = v][d]
  <2>1. CASE d = e
    <3>1. [k EXCEPT ![e] = v][d] = v /\ ids[d] = p /\ p # 0
      BY <1>2, <2>1
    <3>2. t[p].n = v
      BY <1>4, <1>5
    <3> QED BY <3>1, <3>2
  <2>2. CASE d # e /\ ids[d] = 0
    <3>1. [k EXCEPT ![e] = v][d] = k[d]
      BY <2>2
    <3> QED BY <2>2, <3>1 DEF Holds
  <2>3. CASE d # e /\ ids[d] # 0
    <3>1. [k EXCEPT ![e] = v][d] = k[d] /\ k[d] # 0 /\ tfs[ids[d]].n = k[d]
      BY <2>3 DEF Holds
    <3>2. PICK q \in 1 .. Len(tfs) : q = ids[d] /\ tfs[q].id = d
      BY <2>3 DEF ListOk
    <3>3. q # p
      BY <1>2, <2>3, <3>2
    <3>4. t[q] = tfs[q]
      BY <1>4, <3>3
    <3> QED BY <2>3, <3>1, <3>2, <3>4
  <2> QED BY <2>1, <2>2, <2>3
<1>8. Holds(t, ids, [k EXCEPT ![e] = v])
  BY <1>7 DEF Holds
<1> QED BY <1>2, <1>3, <1>6, <1>8

\* A new transform is added at the end.
LEMMA ListAdds ==
    ASSUME NEW tfs, NEW ids, ListOk(tfs, ids), NEW k \in [Edges -> Nat], Holds(tfs, ids, k),
           NEW e \in Edges, ids[e] = 0, Reverse(e) # e => ids[Reverse(e)] = 0, NEW v \in Nat \ {0}
    PROVE  /\ ListOk(Append(tfs, [id |-> e, n |-> v]), [ids EXCEPT ![e] = Len(tfs) + 1])
           /\ Holds(Append(tfs, [id |-> e, n |-> v]), [ids EXCEPT ![e] = Len(tfs) + 1],
                    [k EXCEPT ![e] = v])
<1>1. tfs \in Seq(TfEntries) /\ ids \in [Edges -> Nat]
  BY DEF ListOk
<1>2. PICK l \in Nat : l = Len(tfs)
  BY <1>1
<1>3. PICK t, j : t = Append(tfs, [id |-> e, n |-> v]) /\ j = [ids EXCEPT ![e] = l + 1]
  OBVIOUS
<1>4. [id |-> e, n |-> v] \in TfEntries
  BY DEF TfEntries
<1>5. /\ t \in Seq(TfEntries) /\ Len(t) = l + 1 /\ t[l + 1] = [id |-> e, n |-> v]
      /\ \A i \in 1 .. l : t[i] = tfs[i]
  BY <1>1, <1>2, <1>3, <1>4
<1>6. j \in [Edges -> Nat] /\ j[e] = l + 1 /\ \A d \in Edges : d # e => j[d] = ids[d]
  BY <1>1, <1>3
<1>7. ASSUME NEW i \in 1 .. l + 1 PROVE j[t[i].id] = i
  <2>1. CASE i = l + 1
    BY <1>5, <1>6, <2>1
  <2>2. CASE i # l + 1
    <3>1. i \in 1 .. l /\ t[i] = tfs[i] /\ tfs[i] \in TfEntries
      BY <1>1, <1>2, <1>5, <2>2
    <3>2. PICK d \in Edges : d = tfs[i].id
      BY <3>1 DEF TfEntries
    <3>3. ids[d] = i
      BY <1>2, <3>1, <3>2 DEF ListOk
    <3>4. d # e
      BY <3>1, <3>3
    <3> QED BY <1>6, <3>1, <3>2, <3>3, <3>4
  <2> QED BY <2>1, <2>2
<1>8. ASSUME NEW d \in Edges, j[d] # 0
      PROVE  j[d] \in 1 .. l + 1 /\ t[j[d]].id = d /\ (Reverse(d) # d => j[Reverse(d)] = 0)
  <2>0. Reverse(d) \in Edges /\ Reverse(Reverse(d)) = d
    BY ReverseFacts
  <2>1. CASE d = e
    <3>1. j[d] = l + 1 /\ t[l + 1].id = d
      BY <1>5, <1>6, <2>1
    <3>2. Reverse(d) # d => j[Reverse(d)] = 0
      BY <1>6, <2>0, <2>1
    <3> QED BY <3>1, <3>2
  <2>2. CASE d # e
    <3>1. ids[d] # 0 /\ j[d] = ids[d]
      BY <1>6, <1>8, <2>2
    <3>2. PICK q \in 1 .. l : q = ids[d] /\ tfs[q].id = d
      BY <1>2, <3>1 DEF ListOk
    <3>3. t[q] = tfs[q]
      BY <1>5
    <3>4. ASSUME Reverse(d) # d PROVE j[Reverse(d)] = 0
      <4>1. ids[Reverse(d)] = 0
        BY <3>1, <3>4 DEF ListOk
      <4>2. Reverse(d) # e
        <5>1. SUFFICES ASSUME Reverse(d) = e PROVE FALSE
          OBVIOUS
        <5>2. Reverse(e) = d
          BY <2>0, <5>1
        <5> QED BY <2>2, <3>1, <5>2
      <4> QED BY <1>6, <2>0, <4>1, <4>2
    <3> QED BY <3>1, <3>2, <3>3, <3>4
  <2> QED BY <2>1, <2>2
<1>9. ListOk(t, j)
  BY <1>5, <1>6, <1>7, <1>8 DEF ListOk
<1>10. ASSUME NEW d \in Edges
       PROVE  /\ j[d] = 0 => [k EXCEPT ![e] = v][d] = 0
              /\ j[d] # 0 => [k EXCEPT ![e] = v][d] # 0 /\ t[j[d]].n = [k EXCEPT ![e] = v][d]
  <2>1. CASE d = e
    <3>1. [k EXCEPT ![e] = v][d] = v /\ j[d] = l + 1 /\ t[l + 1].n = v
      BY <1>5, <1>6, <2>1
    <3> QED BY <3>1
  <2>2. CASE d # e /\ ids[d] = 0
    <3>1. [k EXCEPT ![e] = v][d] = k[d] /\ j[d] = 0
      BY <1>6, <2>2
    <3> QED BY <2>2, <3>1 DEF Holds
  <2>3. CASE d # e /\ ids[d] # 0
    <3>1. [k EXCEPT ![e] = v][d] = k[d] /\ k[d] # 0 /\ tfs[ids[d]].n = k[d] /\ j[d] = ids[d]
      BY <1>6, <2>3 DEF Holds
    <3>2. PICK q \in 1 .. l : q = ids[d]
      BY <1>2, <2>3 DEF ListOk
    <3>3. t[q] = tfs[q]
      BY <1>5
    <3> QED BY <2>3, <3>1, <3>2, <3>3
  <2> QED BY <2>1, <2>2, <2>3
<1>11. Holds(t, j, [k EXCEPT ![e] = v])
  BY <1>10 DEF Holds
<1> QED BY <1>2, <1>3, <1>9, <1>11

\* The first transforms of msg: one that is e, and one whose reverse, another one, is known.
Heard(msg, i, e) == \E a \in 1 .. i : Accepted(msg[a]) /\ msg[a] = e

ClashesAt(msg, a) ==
    /\ Accepted(msg[a]) /\ Reverse(msg[a]) # msg[a]
    /\ known[Reverse(msg[a])] # 0 \/ Heard(msg, a - 1, Reverse(msg[a]))

Clashes(msg, i) == \E a \in 1 .. i : ClashesAt(msg, a)

KnownOf(msg, i, e) == IF Clashes(msg, i) THEN 0 ELSE IF Heard(msg, i, e) THEN heard + 1 ELSE known[e]

KnownUpTo(msg, i) == [e \in Edges |-> KnownOf(msg, i, e)]

LEMMA KnownUpToAll ==
    ASSUME NEW msg \in Seq(Edges)
    PROVE  KnownAfter(msg) = KnownUpTo(msg, Len(msg))
<1>1. DOMAIN msg = 1 .. Len(msg) /\ Len(msg) \in Nat
  OBVIOUS
<1> DEFINE ok  == {i \in DOMAIN msg : Accepted(msg[i])}
           bad == \E i \in ok : /\ Reverse(msg[i]) # msg[i]
                                /\ \/ known[Reverse(msg[i])] # 0
                                   \/ \E j \in ok : j < i /\ msg[j] = Reverse(msg[i])
<1>2. bad <=> Clashes(msg, Len(msg))
  <2>1. ASSUME NEW i \in 1 .. Len(msg)
        PROVE  (\E j \in ok : j < i /\ msg[j] = Reverse(msg[i])) <=> Heard(msg, i - 1, Reverse(msg[i]))
    <3>1. \A j : j \in 1 .. i - 1 <=> j \in 1 .. Len(msg) /\ j < i
      BY <1>1
    <3> QED BY <1>1, <3>1 DEF Heard
  <2> QED BY <1>1, <2>1 DEF Clashes, ClashesAt
<1>3. ASSUME NEW e \in Edges PROVE (\E i \in ok : msg[i] = e) <=> Heard(msg, Len(msg), e)
  BY <1>1 DEF Heard
<1>4. KnownAfter(msg) = [id \in Edges |-> CASE bad -> 0
                                          [] ~bad /\ (\E i \in ok : msg[i] = id) -> heard + 1
                                          [] OTHER -> known[id]]
  BY DEF KnownAfter
<1> HIDE DEF ok, bad
<1>5. ASSUME NEW e \in Edges
      PROVE  (CASE bad -> 0 [] ~bad /\ (\E i \in ok : msg[i] = e) -> heard + 1 [] OTHER -> known[e])
             = KnownOf(msg, Len(msg), e)
  BY <1>2, <1>3 DEF KnownOf
<1> QED BY <1>4, <1>5 DEF KnownUpTo

\* The list after the first i transforms of msg: given up, or as they have left it.
TakenOk(t, msg, i) ==
    \/ Clashes(msg, i) /\ t = [subscriber |-> FALSE, tf_id_ |-> NewManager.tf_id_, tfs_ |-> << >>]
    \/ /\ ~Clashes(msg, i) /\ t = [subscriber |-> TRUE, tf_id_ |-> t.tf_id_, tfs_ |-> t.tfs_]
       /\ ListOk(t.tfs_, t.tf_id_) /\ Holds(t.tfs_, t.tf_id_, KnownUpTo(msg, i))

\* What the next transform does to what is known.
LEMMA KnownNext ==
    ASSUME NEW msg \in Seq(Edges), NEW i \in 1 .. Len(msg), NEW e \in Edges, e = msg[i],
           heard \in Nat, known \in [Edges -> Nat]
    PROVE  /\ KnownUpTo(msg, i - 1) \in [Edges -> Nat]
           /\ Clashes(msg, i - 1) => Clashes(msg, i) /\ KnownUpTo(msg, i) = KnownUpTo(msg, i - 1)
           /\ ~Accepted(e) => (Clashes(msg, i) <=> Clashes(msg, i - 1))
                              /\ KnownUpTo(msg, i) = KnownUpTo(msg, i - 1)
           /\ Accepted(e) /\ ~Clashes(msg, i - 1) =>
                 (Clashes(msg, i) <=> Reverse(e) # e /\ KnownUpTo(msg, i - 1)[Reverse(e)] # 0)
           /\ Accepted(e) /\ ~Clashes(msg, i) =>
                 KnownUpTo(msg, i) = [KnownUpTo(msg, i - 1) EXCEPT ![e] = heard + 1]
           /\ Clashes(msg, i) => \A d \in Edges : KnownUpTo(msg, i)[d] = 0
<1>1. i - 1 \in Nat /\ i \in Nat /\ \A a : a \in 1 .. i <=> a \in 1 .. i - 1 \/ a = i
  OBVIOUS
<1>2. ASSUME NEW d PROVE Heard(msg, i, d) <=> Heard(msg, i - 1, d) \/ (Accepted(e) /\ e = d)
  BY <1>1 DEF Heard
<1>3. Clashes(msg, i) <=> Clashes(msg, i - 1) \/ ClashesAt(msg, i)
  BY <1>1 DEF Clashes
<1>4. ClashesAt(msg, i) <=>
        Accepted(e) /\ Reverse(e) # e /\ (known[Reverse(e)] # 0 \/ Heard(msg, i - 1, Reverse(e)))
  BY DEF ClashesAt
<1>5. Reverse(e) \in Edges
  BY ReverseFacts
<1>6. ASSUME NEW d \in Edges
      PROVE  /\ KnownUpTo(msg, i - 1)[d] = KnownOf(msg, i - 1, d) /\ KnownUpTo(msg, i)[d] = KnownOf(msg, i, d)
             /\ KnownOf(msg, i - 1, d) \in Nat
  BY DEF KnownUpTo, KnownOf
<1>7. KnownUpTo(msg, i - 1) \in [Edges -> Nat]
  BY <1>6 DEF KnownUpTo
<1>8. ASSUME Clashes(msg, i - 1) PROVE Clashes(msg, i) /\ KnownUpTo(msg, i) = KnownUpTo(msg, i - 1)
  BY <1>3, <1>8 DEF KnownUpTo, KnownOf
<1>9. ASSUME ~Accepted(e)
      PROVE  (Clashes(msg, i) <=> Clashes(msg, i - 1)) /\ KnownUpTo(msg, i) = KnownUpTo(msg, i - 1)
  <2>1. Clashes(msg, i) <=> Clashes(msg, i - 1)
    BY <1>3, <1>4, <1>9
  <2>2. \A d \in Edges : KnownOf(msg, i, d) = KnownOf(msg, i - 1, d)
    BY <1>2, <1>9, <2>1 DEF KnownOf
  <2> QED BY <2>1, <2>2 DEF KnownUpTo
<1>10. ASSUME Accepted(e), ~Clashes(msg, i - 1)
       PROVE  Clashes(msg, i) <=> Reverse(e) # e /\ KnownUpTo(msg, i - 1)[Reverse(e)] # 0
  <2>1. KnownUpTo(msg, i - 1)[Reverse(e)] =
          IF Heard(msg, i - 1, Reverse(e)) THEN heard + 1 ELSE known[Reverse(e)]
    BY <1>5, <1>6, <1>10 DEF KnownOf
  <2>2. heard + 1 # 0
    OBVIOUS
  <2> QED BY <1>3, <1>4, <1>10, <2>1, <2>2
<1>11. ASSUME Accepted(e), ~Clashes(msg, i)
       PROVE  KnownUpTo(msg, i) = [KnownUpTo(msg, i - 1) EXCEPT ![e] = heard + 1]
  <2>1. ~Clashes(msg, i - 1)
    BY <1>3, <1>11
  <2>2. ASSUME NEW d \in Edges
        PROVE  KnownUpTo(msg, i)[d] = [KnownUpTo(msg, i - 1) EXCEPT ![e] = heard + 1][d]
    <3>1. KnownUpTo(msg, i)[d] = IF Heard(msg, i, d) THEN heard + 1 ELSE known[d]
      BY <1>6, <1>11 DEF KnownOf
    <3>2. KnownUpTo(msg, i - 1)[d] = IF Heard(msg, i - 1, d) THEN heard + 1 ELSE known[d]
      BY <1>6, <2>1 DEF KnownOf
    <3>3. CASE d = e
      <4>1. Heard(msg, i, d)
        BY <1>2, <1>11, <3>3
      <4>2. [KnownUpTo(msg, i - 1) EXCEPT ![e] = heard + 1][d] = heard + 1
        BY <1>7, <3>3
      <4> QED BY <3>1, <4>1, <4>2
    <3>4. CASE d # e
      <4>1. Heard(msg, i, d) <=> Heard(msg, i - 1, d)
        BY <1>2, <3>4
      <4>2. [KnownUpTo(msg, i - 1) EXCEPT ![e] = heard + 1][d] = KnownUpTo(msg, i - 1)[d]
        BY <1>7, <3>4
      <4> QED BY <3>1, <3>2, <4>1, <4>2
    <3> QED BY <3>3, <3>4
  <2>3. KnownUpTo(msg, i) = [d \in Edges |-> KnownUpTo(msg, i)[d]]
    BY DEF KnownUpTo
  <2>4. [KnownUpTo(msg, i - 1) EXCEPT ![e] = heard + 1] =
        [d \in Edges |-> [KnownUpTo(msg, i - 1) EXCEPT ![e] = heard + 1][d]]
    BY <1>7
  <2> QED BY <2>2, <2>3, <2>4, Zenon
<1>12. ASSUME Clashes(msg, i), NEW d \in Edges PROVE KnownUpTo(msg, i)[d] = 0
  BY <1>6, <1>12 DEF KnownOf
<1> QED BY <1>7, <1>8, <1>9, <1>10, <1>11, <1>12

\* One turn of tf2_callback's loop.
LEMMA TakesNext ==
    ASSUME NEW msg \in Seq(Edges), NEW i \in 1 .. Len(msg), NEW t, TakenOk(t, msg, i - 1),
           heard \in Nat, known \in [Edges -> Nat]
    PROVE  TakenOk(TfTakes(t, msg[i]), msg, i)
<1>1. PICK e \in Edges : e = msg[i]
  OBVIOUS
<1> DEFINE K == KnownUpTo(msg, i - 1)
<1>2. /\ K \in [Edges -> Nat]
      /\ Clashes(msg, i - 1) => Clashes(msg, i) /\ KnownUpTo(msg, i) = K
      /\ ~Accepted(e) => (Clashes(msg, i) <=> Clashes(msg, i - 1)) /\ KnownUpTo(msg, i) = K
      /\ Accepted(e) /\ ~Clashes(msg, i - 1) => (Clashes(msg, i) <=> Reverse(e) # e /\ K[Reverse(e)] # 0)
      /\ Accepted(e) /\ ~Clashes(msg, i) => KnownUpTo(msg, i) = [K EXCEPT ![e] = heard + 1]
      /\ Clashes(msg, i) => \A d \in Edges : KnownUpTo(msg, i)[d] = 0
  BY <1>1, KnownNext
<1> HIDE DEF K
<1>3. Reverse(e) \in Edges /\ heard + 1 \in Nat \ {0}
  BY ReverseFacts
<1>4. CASE Clashes(msg, i - 1)
  <2>1. t = [subscriber |-> FALSE, tf_id_ |-> NewManager.tf_id_, tfs_ |-> << >>]
    BY <1>4 DEF TakenOk
  <2>2. ~t.subscriber
    BY <2>1
  <2>3. TfTakes(t, e) = t
    BY <2>2 DEF TfTakes
  <2> QED BY <1>1, <1>2, <1>4, <2>1, <2>3 DEF TakenOk
<1>5. CASE ~Clashes(msg, i - 1) /\ ~Accepted(e)
  <2>1. TfTakes(t, e) = t
    BY <1>5 DEF TfTakes
  <2> QED BY <1>1, <1>2, <1>5, <2>1 DEF TakenOk, K
<1>6. CASE ~Clashes(msg, i - 1) /\ Accepted(e)
  <2>1. PICK ids, tfs : /\ t = [subscriber |-> TRUE, tf_id_ |-> ids, tfs_ |-> tfs]
                        /\ ListOk(tfs, ids) /\ Holds(tfs, ids, K)
    BY <1>6 DEF TakenOk, K
  <2>2. t.subscriber /\ t.tf_id_ = ids /\ t.tfs_ = tfs
    BY <2>1
  <2>3. CASE ids[e] # 0
    <3>1. TfTakes(t, e) = [t EXCEPT !.tfs_[ids[e]].n = heard + 1]
      BY <1>6, <2>2, <2>3 DEF TfTakes
    <3>2. PICK u : u = [tfs EXCEPT ![ids[e]].n = heard + 1]
      OBVIOUS
    <3>3. TfTakes(t, e) = [subscriber |-> TRUE, tf_id_ |-> ids, tfs_ |-> u]
      BY <2>1, <3>1, <3>2
    <3>4. ListOk(u, ids) /\ Holds(u, ids, [K EXCEPT ![e] = heard + 1])
      BY <1>2, <1>3, <2>1, <2>3, <3>2, ListReplaces
    <3>5. ~Clashes(msg, i)
      <4>1. Reverse(e) # e => ids[Reverse(e)] = 0
        BY <2>1, <2>3 DEF ListOk
      <4>2. Reverse(e) # e => K[Reverse(e)] = 0
        BY <1>3, <2>1, <4>1 DEF Holds
      <4> QED BY <1>2, <1>6, <4>2
    <3>6. KnownUpTo(msg, i) = [K EXCEPT ![e] = heard + 1]
      BY <1>2, <1>6, <3>5
    <3> HIDE <3>2
    <3>7. TfTakes(t, e).tfs_ = u /\ TfTakes(t, e).tf_id_ = ids
      BY <3>3
    <3> QED BY <1>1, <3>3, <3>4, <3>5, <3>6, <3>7 DEF TakenOk
  <2>4. CASE ids[e] = 0 /\ ids[Reverse(e)] # 0
    <3>1. TfTakes(t, e) = [subscriber |-> FALSE, tf_id_ |-> NewManager.tf_id_, tfs_ |-> << >>]
      BY <1>6, <2>2, <2>4 DEF TfTakes
    <3>2. Reverse(e) # e /\ K[Reverse(e)] # 0
      BY <1>3, <2>1, <2>4 DEF Holds
    <3> QED BY <1>1, <1>2, <1>6, <3>1, <3>2 DEF TakenOk
  <2>5. CASE ids[e] = 0 /\ ids[Reverse(e)] = 0
    <3>1. TfTakes(t, e) = [t EXCEPT !.tf_id_[e] = Len(t.tfs_) + 1,
                                    !.tfs_ = Append(@, [id |-> e, n |-> heard + 1])]
      BY <1>6, <2>2, <2>5 DEF TfTakes
    <3>2. PICK u, j : u = Append(tfs, [id |-> e, n |-> heard + 1]) /\ j = [ids EXCEPT ![e] = Len(tfs) + 1]
      OBVIOUS
    <3>3. TfTakes(t, e) = [subscriber |-> TRUE, tf_id_ |-> j, tfs_ |-> u]
      BY <2>1, <2>2, <3>1, <3>2
    <3>4. ListOk(u, j) /\ Holds(u, j, [K EXCEPT ![e] = heard + 1])
      BY <1>2, <1>3, <2>1, <2>5, <3>2, ListAdds
    <3>5. ~Clashes(msg, i)
      <4>1. K[Reverse(e)] = 0
        BY <1>3, <2>1, <2>5 DEF Holds
      <4> QED BY <1>2, <1>6, <4>1
    <3>6. KnownUpTo(msg, i) = [K EXCEPT ![e] = heard + 1]
      BY <1>2, <1>6, <3>5
    <3> HIDE <3>2
    <3>7. TfTakes(t, e).tfs_ = u /\ TfTakes(t, e).tf_id_ = j
      BY <3>3
    <3> QED BY <1>1, <3>3, <3>4, <3>5, <3>6, <3>7 DEF TakenOk
  <2> QED BY <2>3, <2>4, <2>5
<1> QED BY <1>4, <1>5, <1>6

LEMMA TakenExists ==
    ASSUME NEW list, NEW msg, NEW m \in Nat PROVE \E f : IsTaken(f, list, msg, m)
<1> DEFINE T == {k \in Nat : ~\E f : IsTaken(f, list, msg, k)}
<1>1. SUFFICES ASSUME T # {} PROVE FALSE
  OBVIOUS
<1>2. PICK k \in T : \A l \in T : k <= l
  <2>1. T \in SUBSET Nat
    OBVIOUS
  <2> HIDE DEF T
  <2> QED BY <1>1, <2>1, LeastOf
<1>3. k \in Nat /\ ~\E f : IsTaken(f, list, msg, k)
  OBVIOUS
<1>4. k # 0
  <2> DEFINE f == [i \in 0 .. 0 |-> list]
  <2>1. IsTaken(f, list, msg, 0)
    BY DEF IsTaken
  <2> QED BY <1>3, <2>1
<1>5. PICK g : IsTaken(g, list, msg, k - 1)
  <2>1. k - 1 \in Nat /\ ~(k <= k - 1)
    BY <1>3, <1>4
  <2>2. k - 1 \notin T
    BY <1>2, <2>1
  <2> QED BY <2>1, <2>2
<1> DEFINE f == [i \in 0 .. k |-> IF i = k THEN TfTakes(g[k - 1], msg[k]) ELSE g[i]]
<1>6. ASSUME NEW i \in 0 .. k PROVE f[i] = IF i = 0 THEN list ELSE TfTakes(f[i - 1], msg[i])
  <2>1. ASSUME NEW j \in 0 .. k - 1
        PROVE  f[j] = g[j] /\ g[j] = IF j = 0 THEN list ELSE TfTakes(g[j - 1], msg[j])
    <3>1. j \in 0 .. k /\ j # k
      BY <1>3
    <3>2. f[j] = g[j]
      BY <3>1
    <3>3. g[j] = IF j = 0 THEN list ELSE TfTakes(g[j - 1], msg[j])
      BY <1>5 DEF IsTaken
    <3> QED BY <3>2, <3>3
  <2>2. CASE i = k
    <3>0. k \in 0 .. k /\ k - 1 \in 0 .. k - 1
      BY <1>3, <1>4
    <3>1. f[k] = TfTakes(g[k - 1], msg[k])
      BY <3>0, Zenon
    <3>2. f[k - 1] = g[k - 1]
      BY <2>1, <3>0
    <3> HIDE DEF f
    <3> QED BY <1>4, <2>2, <3>1, <3>2
  <2>3. CASE i # k /\ i = 0
    <3>1. i \in 0 .. k - 1
      BY <1>3, <2>3
    <3> QED BY <2>1, <2>3, <3>1
  <2>4. CASE i # k /\ i # 0
    <3>1. i \in 0 .. k - 1 /\ i - 1 \in 0 .. k - 1
      BY <1>3, <2>4
    <3>2. f[i] = g[i] /\ f[i - 1] = g[i - 1]
      BY <2>1, <3>1
    <3>3. g[i] = TfTakes(g[i - 1], msg[i])
      BY <2>1, <2>4, <3>1
    <3> HIDE DEF f
    <3> QED BY <2>4, <3>2, <3>3
  <2> QED BY <2>2, <2>3, <2>4
<1>7. f = [i \in 0 .. k |-> f[i]]
  OBVIOUS
<1>8. IsTaken(f, list, msg, k)
  <2> HIDE DEF f
  <2> QED BY <1>6, <1>7 DEF IsTaken
<1> QED BY <1>3, <1>8

\* The whole loop.
LEMMA TfListAfterOk ==
    ASSUME NEW m, NEW msg \in Seq(Edges), m.subscriber = TRUE, ListOk(m.tfs_, m.tf_id_),
           Holds(m.tfs_, m.tf_id_, known), heard \in Nat, known \in [Edges -> Nat]
    PROVE  TakenOk(TfListAfter(m, msg), msg, Len(msg))
<1>1. PICK f : f = CHOOSE g : IsTaken(g, TfListOf(m), msg, Len(msg))
  OBVIOUS
<1>2. PICK n \in Nat : n = Len(msg)
  OBVIOUS
<1>3. IsTaken(f, TfListOf(m), msg, n)
  <2>1. \E g : IsTaken(g, TfListOf(m), msg, n)
    BY TakenExists
  <2> QED BY <1>1, <1>2, <2>1, Zenon
<1> DEFINE T == {k \in Nat : k <= n /\ ~TakenOk(f[k], msg, k)}
<1>4. TakenOk(f[0], msg, 0)
  <2>1. f[0] = [subscriber |-> TRUE, tf_id_ |-> m.tf_id_, tfs_ |-> m.tfs_]
    <3>1. 0 \in 0 .. n
      OBVIOUS
    <3>2. f[0] = TfListOf(m)
      BY <1>3, <3>1, Zenon DEF IsTaken
    <3> QED BY <3>2, Zenon DEF TfListOf
  <2>2. ~Clashes(msg, 0)
    BY DEF Clashes
  <2>3. KnownUpTo(msg, 0) = known
    <3>1. \A e \in Edges : KnownOf(msg, 0, e) = known[e]
      BY <2>2 DEF KnownOf, Heard
    <3> QED BY <3>1 DEF KnownUpTo
  <2>4. f[0].tf_id_ = m.tf_id_ /\ f[0].tfs_ = m.tfs_
    BY <2>1
  <2> QED BY <2>1, <2>2, <2>3, <2>4 DEF TakenOk
<1>5. T = {}
  <2>1. SUFFICES ASSUME T # {} PROVE FALSE
    OBVIOUS
  <2>2. PICK k \in T : \A l \in T : k <= l
    <3>1. T \in SUBSET Nat
      OBVIOUS
    <3> HIDE DEF T
    <3> QED BY <2>1, <3>1, LeastOf
  <2>3. k \in Nat /\ k <= n /\ ~TakenOk(f[k], msg, k)
    OBVIOUS
  <2>4. k # 0
    BY <1>4, <2>3
  <2>5. k - 1 \in Nat /\ k - 1 <= n /\ ~(k <= k - 1) /\ k \in 1 .. n
    BY <2>3, <2>4
  <2>6. k - 1 \notin T
    BY <2>2, <2>5
  <2>7. TakenOk(f[k - 1], msg, k - 1)
    BY <2>5, <2>6
  <2>8. f[k] = TfTakes(f[k - 1], msg[k])
    BY <1>3, <2>3, <2>4 DEF IsTaken
  <2>9. TakenOk(TfTakes(f[k - 1], msg[k]), msg, k)
    BY <1>2, <2>5, <2>7, TakesNext
  <2> QED BY <2>3, <2>8, <2>9
<1>6. TakenOk(f[n], msg, n)
  BY <1>5
<1>7. TfListAfter(m, msg) = f[n]
  BY <1>1, <1>2 DEF TfListAfter
<1> QED BY <1>2, <1>6, <1>7

\* The manager's TF list, and what has been heard.
TfOk ==
    /\ mgr.subscriber \in BOOLEAN
    /\ ListOk(mgr.tfs_, mgr.tf_id_) /\ Holds(mgr.tfs_, mgr.tf_id_, known)
    /\ mpc = "init" => \A e \in Edges : known[e] = 0

SameList(m, k) == k.tfs_ = m.tfs_ /\ k.tf_id_ = m.tf_id_ /\ k.subscriber = m.subscriber

LEMMA CapturedKeepsList ==
    ASSUME NEW m, IsManager(m), NEW data PROVE SameList(m, Captured(m, data))
BY DEF Captured, IsManager, ManagerFields, SameList

LEMMA GotKeepsList ==
    ASSUME NEW m, IsManager(m) PROVE SameList(m, Got(m))
BY DEF Got, IsManager, ManagerFields, SameList

LEMMA CheckedKeepsList ==
    ASSUME NEW m, IsManager(m), m.subscriber \in BOOLEAN, advertised \in BOOLEAN
    PROVE  /\ Checked(m).tfs_ = m.tfs_ /\ Checked(m).tf_id_ = m.tf_id_
           /\ Checked(m).subscriber \in BOOLEAN
<1>1. PICK b : b = (m.subscriber \/ advertised)
  OBVIOUS
<1>2. b \in BOOLEAN
  BY <1>1, Zenon
<1> HIDE <1>1
<1>3. Checked(m) = [m EXCEPT !.subscriber = b]
  BY <1>1 DEF Checked
<1>4. /\ [m EXCEPT !.subscriber = b].tfs_ = m.tfs_ /\ [m EXCEPT !.subscriber = b].tf_id_ = m.tf_id_
      /\ [m EXCEPT !.subscriber = b].subscriber = b
  BY DEF IsManager, ManagerFields
<1> QED BY <1>2, <1>3, <1>4, Zenon

LEMMA InitTfOk == Init => TfOk
<1> SUFFICES ASSUME Init PROVE TfOk
  OBVIOUS
<1>1. mgr = NewManager /\ known = [e \in Edges |-> 0]
  BY DEF Init
<1>2. NewManager.tfs_ = << >> /\ NewManager.subscriber = FALSE
  BY DEF NewManager
<1>3. \A e \in Edges : known[e] = 0
  BY <1>1
<1>4. ListOk(<< >>, NewManager.tf_id_) /\ Holds(<< >>, NewManager.tf_id_, known)
  BY <1>3, ListEmpty
<1>5. mgr.subscriber \in BOOLEAN
  BY <1>1, <1>2
<1> QED BY <1>1, <1>2, <1>3, <1>4, <1>5, Zenon DEF TfOk

\* tf2_callback keeps the list in step with what has been heard.
LEMMA TfMessageKeeps ==
    ASSUME IInv, TfOk, TfMessage PROVE TfOk'
<1>1. PICK msg \in TfMessages : mgr' = TfCaptured(mgr, msg) /\ known' = KnownAfter(msg)
  BY DEF TfMessage
<1>2. msg \in Seq(Edges)
  BY BridgeAssumption
<1>3. IsManager(mgr) /\ heard \in Nat /\ known \in [Edges -> Nat] /\ mgr.subscriber = TRUE
  <2>1. IsManager(mgr) /\ heard \in Nat /\ known \in [Edges -> Nat]
    BY ConfigOk DEF IInv, Core, Typed, RingOk
  <2>2. mgr.subscriber = TRUE
    BY Zenon DEF TfMessage, TfOk
  <2> QED BY <2>1, <2>2
<1>4. PICK t : t = TfListAfter(mgr, msg)
  OBVIOUS
<1>5. TakenOk(t, msg, Len(msg))
  BY <1>2, <1>3, <1>4, TfListAfterOk DEF TfOk
<1>6. known' = KnownUpTo(msg, Len(msg))
  BY <1>1, <1>2, KnownUpToAll
<1>7. PICK a : a = WithList(mgr, t)
  OBVIOUS
<1>8. mgr' = IF a.subscriber THEN Captured(a, a.tfs_) ELSE a
  BY <1>1, <1>4, <1>7, TfCapturedIs
<1>9. IsManager(a) /\ SameList(t, a)
  BY <1>3, <1>7 DEF WithList, IsManager, ManagerFields, SameList
<1>10. SameList(t, mgr')
  <2>1. SameList(a, Captured(a, a.tfs_))
    BY <1>9, CapturedKeepsList
  <2> QED BY <1>8, <1>9, <2>1 DEF SameList
<1>11. mpc' # "init"
  BY DEF TfMessage
<1> HIDE <1>4, <1>7
<1>12. CASE Clashes(msg, Len(msg))
  <2>1. t = [subscriber |-> FALSE, tf_id_ |-> NewManager.tf_id_, tfs_ |-> << >>]
    BY <1>5, <1>12 DEF TakenOk
  <2>2. t.subscriber = FALSE /\ t.tf_id_ = NewManager.tf_id_ /\ t.tfs_ = << >>
    BY <2>1
  <2>3. \A e \in Edges : known'[e] = 0
    <3>1. \A e \in Edges : KnownUpTo(msg, Len(msg))[e] = KnownOf(msg, Len(msg), e)
      BY DEF KnownUpTo
    <3>2. \A e \in Edges : KnownOf(msg, Len(msg), e) = 0
      BY <1>12 DEF KnownOf
    <3> QED BY <1>6, <3>1, <3>2
  <2>4. ListOk(<< >>, NewManager.tf_id_) /\ Holds(<< >>, NewManager.tf_id_, known')
    BY <2>3, ListEmpty
  <2>5. mgr'.subscriber = FALSE /\ mgr'.tf_id_ = NewManager.tf_id_ /\ mgr'.tfs_ = << >>
    BY <1>10, <2>2, Zenon DEF SameList
  <2> QED BY <1>11, <2>4, <2>5, ZenonT(40) DEF TfOk, ListOk, Holds
<1>13. CASE ~Clashes(msg, Len(msg))
  <2>1. /\ t = [subscriber |-> TRUE, tf_id_ |-> t.tf_id_, tfs_ |-> t.tfs_]
        /\ ListOk(t.tfs_, t.tf_id_) /\ Holds(t.tfs_, t.tf_id_, known')
    BY <1>5, <1>6, <1>13 DEF TakenOk
  <2>2. t.subscriber = TRUE
    BY <2>1
  <2>3. mgr'.subscriber = TRUE /\ mgr'.tf_id_ = t.tf_id_ /\ mgr'.tfs_ = t.tfs_
    BY <1>10, <2>2, Zenon DEF SameList
  <2>4. ListOk(mgr'.tfs_, mgr'.tf_id_) /\ Holds(mgr'.tfs_, mgr'.tf_id_, known')
    BY <2>1, <2>3, Zenon
  <2> HIDE <2>1
  <2> QED BY <1>11, <2>3, <2>4, Zenon DEF TfOk, ListOk, Holds
<1> QED BY <1>12, <1>13

\* Everything else leaves the list and what has been heard alone.
LEMMA TfStep ==
    IInv /\ TfOk /\ [Next]_vars => TfOk'
<1> SUFFICES ASSUME IInv, TfOk, [Next]_vars PROVE TfOk'
  OBVIOUS
<1>1. IsManager(mgr) /\ advertised \in BOOLEAN /\ mgr.subscriber \in BOOLEAN
  BY DEF IInv, Core, Typed, RingOk, TfOk
<1>2. ASSUME known' = known, mpc' = "init" => mpc = "init", mgr'.tfs_ = mgr.tfs_, mgr'.tf_id_ = mgr.tf_id_,
             mgr'.subscriber \in BOOLEAN
      PROVE  TfOk'
  BY <1>2, ZenonT(40) DEF TfOk, ListOk, Holds
<1>3. PICK c : c = Checked(mgr)
  OBVIOUS
<1>4. c.tfs_ = mgr.tfs_ /\ c.tf_id_ = mgr.tf_id_ /\ c.subscriber \in BOOLEAN /\ IsManager(c)
  <2>1. IsManager(c)
    BY <1>3, CheckedOk DEF IInv, Core, RingOk
  <2> QED BY <1>1, <1>3, <2>1, CheckedKeepsList
<1>5. CASE SendNothing
  <2>1. known' = known /\ mpc' = mpc /\ mgr' = c
    BY <1>3, <1>5 DEF SendNothing, hist
  <2> QED BY <1>2, <1>4, <2>1
<1>6. CASE CompressFails \/ EncodeFails \/ Send
  <2>1. known' = known /\ mpc' = mpc /\ mgr' = Got(c)
    BY <1>3, <1>6 DEF CompressFails, EncodeFails, Loses, Send, hist
  <2>2. SameList(c, mgr')
    BY <1>4, <2>1, GotKeepsList
  <2> QED BY <1>2, <1>4, <2>1, <2>2 DEF SameList
<1>7. CASE Message
  <2>1. known' = known /\ mpc' = mpc /\ mgr' = Captured(mgr, <<heard + 1>>)
    BY <1>7 DEF Message
  <2>2. SameList(mgr, mgr')
    BY <1>1, <2>1, CapturedKeepsList
  <2> QED BY <1>1, <1>2, <2>1, <2>2 DEF SameList
<1>8. CASE Initialize
  <2>1. known' = known /\ mpc = "init" /\ mpc' # "init" /\ mgr' = Checked(NewManager)
    BY <1>8 DEF Initialize, LoadTopics, hist
  <2>2. \A e \in Edges : known[e] = 0
    BY <2>1 DEF TfOk
  <2>3. ListOk(<< >>, NewManager.tf_id_) /\ Holds(<< >>, NewManager.tf_id_, known)
    BY <2>2, ListEmpty
  <2>4. NewManager.tfs_ = << >> /\ NewManager.subscriber = FALSE
    BY DEF NewManager
  <2>5. IsManager(NewManager)
    BY NewOk DEF RingOk
  <2>6. mgr'.tfs_ = << >> /\ mgr'.tf_id_ = NewManager.tf_id_ /\ mgr'.subscriber \in BOOLEAN
    BY <1>1, <2>1, <2>4, <2>5, CheckedKeepsList
  <2> QED BY <2>1, <2>3, <2>6, ZenonT(40) DEF TfOk, ListOk, Holds
<1>9. CASE TfMessage
  BY <1>9, TfMessageKeeps
<1>10. CASE \/ Health \/ Advertise \/ NetFails \/ NetConnects \/ CloseJoins \/ CloseHangs
            \/ Destroy \/ Clear \/ WindowMoves \/ Empty \/ ReceiveFails \/ Arrive \/ Io \/ Shutdown
            \/ Flush \/ Worker \/ UNCHANGED vars
  <2>1. known' = known /\ mgr' = mgr /\ (mpc' = "init" => mpc = "init")
    BY <1>10 DEF Health, Advertise, NetFails, NetConnects, CloseJoins, CloseHangs, Destroy, Clear,
                 WindowMoves, Empty, ReceiveFails, Arrive, Io, ReceiveChecks, ReceiveData,
                 ReceiveThrows, Publish, IoReturns, Shutdown, Flush, Worker, WorkerPops,
                 WorkerWrites, WorkerCrashes, vars, hist
  <2> QED BY <1>1, <1>2, <2>1
<1> QED BY <1>5, <1>6, <1>7, <1>8, <1>9, <1>10 DEF Next, Main, SendTimer

LEMMA TfOkRight == TfOk => TfListRight
<1> SUFFICES ASSUME TfOk PROVE TfListRight
  OBVIOUS
<1>1. PICK s, d : s = mgr.tfs_ /\ d = mgr.tf_id_
  OBVIOUS
<1>2. ListOk(s, d) /\ Holds(s, d, known)
  BY <1>1 DEF TfOk
<1>3. /\ s \in Seq(TfEntries) /\ DOMAIN s = 1 .. Len(s) /\ d \in [Edges -> Nat]
      /\ \A i \in 1 .. Len(s) : s[i] \in TfEntries
  BY <1>2 DEF ListOk
<1>4. TfConsistent
  <2>1. /\ \A i \in DOMAIN s : d[s[i].id] = i
        /\ \A e \in Edges : d[e] # 0 => s[d[e]].id = e /\ (Reverse(e) # e => d[Reverse(e)] = 0)
    BY <1>2, <1>3 DEF ListOk
  <2> QED BY <1>1, <1>3, <2>1 DEF TfConsistent
<1>5. ASSUME NEW i \in 1 .. Len(s)
      PROVE  \E e \in Edges : known[e] # 0 /\ <<s[i].id, s[i].n>> = <<e, known[e]>>
  <2>1. PICK e \in Edges : e = s[i].id
    BY <1>3 DEF TfEntries
  <2>2. d[e] = i
    BY <1>2, <2>1 DEF ListOk
  <2>3. known[e] # 0 /\ s[i].n = known[e]
    BY <1>2, <2>2 DEF Holds
  <2> QED BY <2>1, <2>3
<1>6. ASSUME NEW e \in Edges, known[e] # 0
      PROVE  \E i \in 1 .. Len(s) : <<s[i].id, s[i].n>> = <<e, known[e]>>
  <2>1. d[e] # 0
    BY <1>2, <1>6 DEF Holds
  <2>2. d[e] \in 1 .. Len(s) /\ s[d[e]].id = e
    BY <1>2, <2>1 DEF ListOk
  <2>3. s[d[e]].n = known[e]
    BY <1>2, <2>1 DEF Holds
  <2> QED BY <2>2, <2>3
<1>7. TfListComplete
  <2> DEFINE A == {<<s[i].id, s[i].n>> : i \in DOMAIN s}
             B == {<<e, known[e]>> : e \in {x \in Edges : known[x] # 0}}
  <2>1. ASSUME NEW p \in A PROVE p \in B
    <3>1. PICK i \in 1 .. Len(s) : p = <<s[i].id, s[i].n>>
      BY <1>3
    <3> QED BY <1>5, <3>1
  <2>2. ASSUME NEW p \in B PROVE p \in A
    <3>1. PICK e \in Edges : known[e] # 0 /\ p = <<e, known[e]>>
      OBVIOUS
    <3>2. PICK i \in DOMAIN s : <<s[i].id, s[i].n>> = p
      BY <1>3, <1>6, <3>1
    <3> QED BY <3>2, Zenon
  <2>3. A = B
    <3> HIDE DEF A, B
    <3> QED BY <2>1, <2>2
  <2> QED BY <1>1, <2>3, Zenon DEF TfListComplete
<1> QED BY <1>4, <1>7 DEF TfListRight

\* The TF list the bridge sends is right however messages repeat and mix transforms and
\* whatever the patterns let through: it has each transform heard since the last reset
\* once, with its latest value, and never a transform and its reverse.
THEOREM BridgeTfListRight == Spec => []TfListRight
<1>1. Init => IInv /\ TfOk
  BY InitIInv, InitTfOk
<1>2. (IInv /\ TfOk) /\ [Next]_vars => (IInv /\ TfOk)'
  BY NextIInv, TfStep
<1>3. IInv /\ TfOk => TfListRight
  BY TfOkRight
<1> QED BY <1>1, <1>2, <1>3, PTL DEF Spec
=============================================================================
