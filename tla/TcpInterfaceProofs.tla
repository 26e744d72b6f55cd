------------------------- MODULE TcpInterfaceProofs -------------------------
(***************************************************************************)
(* Proofs about TcpInterface for every set of bridges and any number of    *)
(* connections and messages.                                               *)
(***************************************************************************)
EXTENDS TcpInterface, SequenceTheorems, TLAPS

-----------------------------------------------------------------------------
(* The inductive invariant                                                 *)

OkRead   == [op |-> "read", ok |-> TRUE]
BadRead  == [op |-> "read", ok |-> FALSE]
OkAccept == [op |-> "accept", ok |-> TRUE]
Handlers == [op : {"accept", "read"}, ok : BOOLEAN]

\* Which threads run, and whether there is a socket, at each step of the executor; a
\* message in hand is a real one.
Control ==
    /\ mpc \in {"open", "connect", "start", "stopIo", "joinIo", "closed"} => ppc = "done"
    /\ mpc \in {"open", "connect", "start", "closed"} => iopc = "done"
    /\ mpc \in {"connect", "start", "up", "closeSockets"} => socket_ # 0
    /\ ppc = "deliver" => payload # 0
    /\ OkRead \in Range(handlers) => receive_buffer_ # 0
    /\ mpc \in {"closeSockets", "shutdownStream", "joinPacket", "stopIo", "joinIo"} => shutting_down_

\* The io thread is between two steps of a handler.
InHandler == iopc \in {"accepted", "receive", "begin"}

\* No operation of io_context_ is under way or completed, and no handler runs.
NoOperation == ~accepting /\ reads = 0 /\ handlers = << >> /\ ~InHandler

\* A bridge that only receives has one operation under way or completed at most, and none
\* once the interface has failed: that is why nothing of a connection meets the next.
OneOperation ==
    /\ accepting => reads = 0 /\ handlers = << >>
    /\ reads > 0 => reads = 1 /\ handlers = << >>
    /\ InHandler => ~accepting /\ reads = 0 /\ handlers = << >>
    /\ Len(handlers) <= 1
    /\ failed_ \/ mpc \in {"open", "connect"} => NoOperation
    /\ mpc \in {"connect", "start"} => handlers = << >> /\ ~failed_
    /\ mpc \in {"closeSockets", "shutdownStream", "joinPacket", "stopIo", "joinIo"} /\ ~final => failed_
    /\ mpc = "connect" => ~ready_

\* What the flags and the handlers say of the peer while the socket is open.
PeerKnown ==
    mpc \in {"start", "up", "closeSockets"} =>
        /\ failed_ \/ BadRead \in Range(handlers) => peer = "gone"
        /\ ready_ \/ OkAccept \in Range(handlers) \/ iopc = "accepted" => peer # "none"

Increasing(s) == \A i, j \in DOMAIN s : i < j => s[i] < s[j]

Before(S, T) == \A x \in S, y \in T : x < y

InHand   == IF ppc = "deliver" THEN {payload} ELSE {}
InBuffer == IF OkRead \in Range(handlers) THEN {receive_buffer_} ELSE {}

\* The messages that have been sent and not been lost.
Sent == Range(delivered) \cup InHand \cup Range(Q) \cup InBuffer \cup Range(wire)

\* The messages on their way from the peer to receive_data are in the order sent.
Line ==
    /\ Increasing(delivered) /\ Increasing(Q) /\ Increasing(wire)
    /\ Before(Range(delivered), InHand) /\ Before(Range(delivered), Range(Q))
    /\ Before(Range(delivered), InBuffer) /\ Before(Range(delivered), Range(wire))
    /\ Before(InHand, Range(Q)) /\ Before(InHand, InBuffer) /\ Before(InHand, Range(wire))
    /\ Before(Range(Q), InBuffer) /\ Before(Range(Q), Range(wire))
    /\ Before(InBuffer, Range(wire))
    /\ \A x \in Sent : x <= sent

\* The inductive invariant.
IInv == /\ TypeOK /\ Control /\ NotifiedHasByte /\ SocketGoneOnlyInClose
        /\ ~bridge.sends => OneOperation /\ PeerKnown /\ Line

-----------------------------------------------------------------------------
(* Sequences of messages and of handlers                                   *)

LEMMA AppendFacts ==
    ASSUME NEW X, NEW s \in Seq(X), NEW e \in X
    PROVE  /\ Append(s, e) \in Seq(X) /\ Append(s, e) # << >>
           /\ Range(Append(s, e)) = Range(s) \cup {e}
           /\ Len(Append(s, e)) = Len(s) + 1
<1>1. /\ Append(s, e) \in Seq(X) /\ Len(Append(s, e)) = Len(s) + 1 /\ Len(s) \in Nat
      /\ DOMAIN Append(s, e) = 1 .. Len(s) + 1 /\ DOMAIN s = 1 .. Len(s)
      /\ \A i \in 1 .. Len(s) : Append(s, e)[i] = s[i]
      /\ Append(s, e)[Len(s) + 1] = e
  OBVIOUS
<1>2. Range(Append(s, e)) = Range(s) \cup {e}
  <2>1. \A x \in Range(Append(s, e)) : x \in Range(s) \cup {e}
    BY <1>1 DEF Range
  <2>2. \A x \in Range(s) : x \in Range(Append(s, e))
    BY <1>1 DEF Range
  <2>3. e \in Range(Append(s, e))
    BY <1>1 DEF Range
  <2> QED BY <2>1, <2>2, <2>3
<1> QED BY <1>1, <1>2

LEMMA TailFacts ==
    ASSUME NEW X, NEW s \in Seq(X), s # << >>
    PROVE  /\ Head(s) \in X /\ Head(s) \in Range(s)
           /\ Tail(s) \in Seq(X) /\ Range(Tail(s)) \subseteq Range(s)
           /\ Len(s) <= 1 => Tail(s) = << >>
<1>1. /\ Head(s) \in X /\ Head(s) = s[1] /\ 1 \in DOMAIN s
      /\ Tail(s) \in Seq(X) /\ Len(Tail(s)) = Len(s) - 1 /\ Len(s) \in Nat
      /\ \A i \in DOMAIN Tail(s) : i + 1 \in DOMAIN s /\ Tail(s)[i] = s[i + 1]
  OBVIOUS
<1>2. Len(s) <= 1 => Tail(s) = << >>
  BY <1>1
<1> QED BY <1>1, <1>2 DEF Range

LEMMA EmptyRange == Range(<< >>) = {}
BY DEF Range

LEMMA IncreasingAppend ==
    ASSUME NEW s \in Seq(Nat), NEW e \in Nat, Increasing(s), \A x \in Range(s) : x < e
    PROVE  Increasing(Append(s, e))
<1>1. \A i \in DOMAIN s : s[i] < e
  BY DEF Range
<1> QED BY <1>1 DEF Increasing

LEMMA IncreasingTail ==
    ASSUME NEW s \in Seq(Nat), s # << >>, Increasing(s)
    PROVE  Increasing(Tail(s)) /\ Before({Head(s)}, Range(Tail(s)))
<1>1. /\ Head(s) = s[1] /\ 1 \in DOMAIN s
      /\ \A i \in DOMAIN Tail(s) : i \in Nat \ {0} /\ i + 1 \in DOMAIN s /\ Tail(s)[i] = s[i + 1]
  OBVIOUS
<1>2. Increasing(Tail(s))
  BY <1>1 DEF Increasing
<1>3. ASSUME NEW i \in DOMAIN Tail(s) PROVE Head(s) < Tail(s)[i]
  BY <1>1 DEF Increasing
<1> QED BY <1>2, <1>3 DEF Before, Range

LEMMA HandlerIs ==
    /\ OkRead \in Handlers /\ BadRead \in Handlers /\ OkAccept \in Handlers
    /\ [op |-> "accept", ok |-> FALSE] \in Handlers
    /\ OkRead # BadRead /\ OkRead # OkAccept /\ BadRead # OkAccept
    /\ OkRead # [op |-> "accept", ok |-> FALSE] /\ BadRead # [op |-> "accept", ok |-> FALSE]
    /\ OkAccept # [op |-> "accept", ok |-> FALSE]
<1>1. TRUE \in BOOLEAN /\ FALSE \in BOOLEAN /\ TRUE # FALSE
  OBVIOUS
<1> QED BY <1>1 DEF OkRead, BadRead, OkAccept, Handlers

LEMMA LineKept ==
    ASSUME Line, UNCHANGED <<delivered, wire, sent>>, Q' = Q \/ Q' = << >>,
           InHand' \subseteq InHand, InBuffer' \subseteq InBuffer
    PROVE  Line'
<1>1. Range(Q') \subseteq Range(Q) /\ Increasing(Q')
  BY EmptyRange DEF Line, Increasing
<1> QED BY <1>1 DEF Line, Before, Sent

-----------------------------------------------------------------------------
(* The initial states                                                      *)

LEMMA InitIInv == Init => IInv
<1> SUFFICES ASSUME Init PROVE IInv
  OBVIOUS
<1>1. TypeOK
  <2>1. /\ bridge \in Bridges /\ final \in BOOLEAN /\ ready_ \in BOOLEAN /\ failed_ \in BOOLEAN
        /\ shutting_down_ \in BOOLEAN /\ accepting \in BOOLEAN /\ stopped \in BOOLEAN
        /\ finish \in BOOLEAN
    BY Zenon DEF Init
  <2> QED BY <2>1, TcpAssumption DEF Init, TypeOK
<1>2. Control /\ NotifiedHasByte /\ SocketGoneOnlyInClose
  BY EmptyRange DEF Init, Control, NotifiedHasByte, SocketGoneOnlyInClose, Ended
<1>3. OneOperation /\ PeerKnown
  BY DEF Init, OneOperation, NoOperation, InHandler, PeerKnown
<1>4. Line
  <2>1. /\ Range(delivered) = {} /\ Range(Q) = {} /\ Range(wire) = {} /\ InHand = {} /\ InBuffer = {}
    BY EmptyRange DEF Init, InHand, InBuffer
  <2>2. Increasing(delivered) /\ Increasing(Q) /\ Increasing(wire)
    BY DEF Init, Increasing
  <2> QED BY <2>1, <2>2 DEF Line, Before, Sent
<1> QED BY <1>1, <1>2, <1>3, <1>4 DEF IInv

-----------------------------------------------------------------------------
(* Steps that leave the messages, the queue and the operations alone       *)

Quiet == \/ OpenFails \/ Start \/ CloseBegins \/ JoinPacket \/ StopIo \/ JoinIo \/ WriteFails
         \/ StartReceive \/ IoReturns \/ PacketChecks \/ PacketWaits \/ SpuriousWake
         \/ PacketGivesUp \/ PeerLeaves

LEMMA QuietKeeps ==
    ASSUME Control, Quiet
    PROVE  /\ UNCHANGED <<bridge, ready_, socket_, opened, accepting, reads, receive_buffer_, handlers,
                          Q, finish, payload, wire, sent, delivered>>
           /\ (ppc' = "deliver") <=> (ppc = "deliver")
<1>1. UNCHANGED <<bridge, ready_, socket_, opened, accepting, reads, receive_buffer_, handlers,
                  Q, finish, payload, wire, sent, delivered>>
  BY DEF Quiet, OpenFails, Start, CloseBegins, JoinPacket, StopIo, JoinIo, WriteFails, StartReceive, IoReturns,
         PacketChecks, PacketWaits, SpuriousWake, PacketGivesUp, PeerLeaves, flags, io, stream, packet, remote
<1>2. (ppc' = "deliver") <=> (ppc = "deliver")
  BY DEF Control, Quiet, OpenFails, Start, CloseBegins, JoinPacket, StopIo, JoinIo, WriteFails,
         StartReceive, IoReturns, PacketChecks, PacketWaits, SpuriousWake, PacketGivesUp, PeerLeaves, packet
<1> QED BY <1>1, <1>2

LEMMA QuietType ==
    ASSUME TypeOK, Control, Quiet PROVE TypeOK'
<1>1. final' \in BOOLEAN /\ failed_' \in BOOLEAN /\ shutting_down_' \in BOOLEAN /\ stopped' \in BOOLEAN
  BY Zenon DEF TypeOK, Quiet, OpenFails, Start, CloseBegins, JoinPacket, StopIo, JoinIo, WriteFails,
       StartReceive, IoReturns, PacketChecks, PacketWaits, SpuriousWake, PacketGivesUp, PeerLeaves, flags, executor
<1>2. /\ mpc' \in {"open", "connect", "start", "up", "closeSockets", "shutdownStream",
                   "joinPacket", "stopIo", "joinIo", "closed"} \cup Ended
      /\ iopc' \in {"run", "accepted", "receive", "begin", "done"}
      /\ ppc' \in {"check", "lock", "wait", "woken", "unnotified", "deliver", "done"}
      /\ peer' \in {"none", "up", "gone"}
  BY DEF TypeOK, Ended, Quiet, OpenFails, Start, CloseBegins, JoinPacket, StopIo, JoinIo, WriteFails,
       StartReceive, IoReturns, PacketChecks, PacketWaits, SpuriousWake, PacketGivesUp, PeerLeaves, executor, packet, remote
<1> QED BY <1>1, <1>2, QuietKeeps DEF TypeOK

LEMMA QuietIInv ==
    ASSUME IInv, Quiet PROVE IInv'
<1>0. /\ UNCHANGED <<bridge, ready_, socket_, opened, accepting, reads, receive_buffer_, handlers,
                     Q, finish, payload, wire, sent, delivered>>
      /\ (ppc' = "deliver") <=> (ppc = "deliver")
  BY QuietKeeps DEF IInv
<1>1. TypeOK'
  BY QuietType DEF IInv
<1>2. Control' /\ NotifiedHasByte' /\ SocketGoneOnlyInClose'
  <2> USE DEF IInv, TypeOK, Control, NotifiedHasByte, SocketGoneOnlyInClose, Ended
  <2>1. CASE OpenFails \/ Start \/ CloseBegins \/ JoinPacket
    BY <1>0, <2>1 DEF OpenFails, Start, CloseBegins, JoinPacket, packet, flags
  <2>2. CASE StopIo \/ JoinIo \/ WriteFails \/ StartReceive \/ IoReturns
    BY <1>0, <2>2 DEF StopIo, JoinIo, WriteFails, StartReceive, IoReturns, packet, executor, flags
  <2>3. CASE PacketChecks \/ PacketWaits \/ SpuriousWake \/ PacketGivesUp \/ PeerLeaves
    BY <1>0, <2>3 DEF PacketChecks, PacketWaits, SpuriousWake, PacketGivesUp, PeerLeaves, packet, executor, flags
  <2> QED BY <2>1, <2>2, <2>3 DEF Quiet
<1>3. ASSUME ~bridge.sends PROVE OneOperation' /\ PeerKnown'
  <2> USE <1>3 DEF IInv, OneOperation, NoOperation, InHandler, PeerKnown
  <2>1. CASE OpenFails \/ Start \/ CloseBegins
    BY <1>0, <2>1 DEF OpenFails, Start, CloseBegins, flags, remote
  <2>2. CASE JoinPacket \/ StopIo \/ JoinIo \/ WriteFails
    BY <1>0, <2>2 DEF JoinPacket, StopIo, JoinIo, WriteFails, flags, remote, executor
  <2>3. CASE StartReceive \/ IoReturns \/ PacketChecks \/ PacketWaits \/ SpuriousWake \/ PacketGivesUp \/ PeerLeaves
    BY <1>0, <2>3 DEF StartReceive, IoReturns, PacketChecks, PacketWaits, SpuriousWake, PacketGivesUp, PeerLeaves, flags, remote, executor
  <2> QED BY <2>1, <2>2, <2>3 DEF Quiet
<1>4. ASSUME ~bridge.sends PROVE Line'
  <2>1. InHand' = InHand /\ InBuffer' = InBuffer
    BY <1>0 DEF InHand, InBuffer
  <2> QED BY <1>0, <1>4, <2>1, LineKept DEF IInv
<1> QED BY <1>0, <1>1, <1>2, <1>3, <1>4 DEF IInv

-----------------------------------------------------------------------------
(* The executor opens and closes                                           *)

LEMMA OpenIInv ==
    ASSUME IInv, Open PROVE IInv'
<1>1. /\ mpc = "open" /\ opened < MaxConns
      /\ failed_' = FALSE /\ ready_' = FALSE /\ Q' = << >> /\ opened' = opened + 1 /\ socket_' = opened + 1
      /\ peer' = "none" /\ wire' = << >> /\ finish' = FALSE
      /\ accepting' = (bridge.role = "server")
      /\ mpc' = IF bridge.role = "server" THEN "start" ELSE "connect"
      /\ UNCHANGED <<bridge, final, reads, receive_buffer_, handlers, iopc, ppc, payload, sent, delivered>>
  BY DEF Open, packet
<1>2. TypeOK'
  <2>1. /\ final' \in BOOLEAN /\ ready_' \in BOOLEAN /\ failed_' \in BOOLEAN /\ shutting_down_' \in BOOLEAN
        /\ accepting' \in BOOLEAN /\ stopped' \in BOOLEAN /\ finish' \in BOOLEAN
    BY Zenon DEF IInv, TypeOK, Open
  <2>2. Q' \in Seq(Msgs) /\ wire' \in Seq(Msgs)
    BY <1>1
  <2>3. opened' \in 0 .. MaxConns /\ socket_' \in {0, opened'} /\ socket_' # 0
    BY <1>1, TcpAssumption DEF IInv, TypeOK
  <2> QED BY <1>1, <2>1, <2>2, <2>3 DEF IInv, TypeOK
<1>3. Control' /\ NotifiedHasByte' /\ SocketGoneOnlyInClose'
  <2>1. socket_' # 0 /\ ppc' = "done" /\ iopc' = "done"
    BY <1>1, TcpAssumption DEF IInv, TypeOK, Control
  <2> QED BY <1>1, <2>1 DEF IInv, Control, NotifiedHasByte, SocketGoneOnlyInClose, Ended
<1>4. ASSUME ~bridge.sends PROVE OneOperation' /\ PeerKnown'
  <2>1. NoOperation
    BY <1>1, <1>4 DEF IInv, OneOperation
  <2>2. handlers' = << >> /\ reads' = 0 /\ Range(handlers') = {} /\ (mpc' = "connect" => ~accepting')
    BY <1>1, <2>1, EmptyRange DEF NoOperation
  <2>3. Len(handlers') = 0 /\ ~InHandler'
    BY <1>1, <2>1, <2>2 DEF NoOperation, InHandler
  <2> QED BY <1>1, <2>2, <2>3 DEF OneOperation, NoOperation, InHandler, PeerKnown
<1>5. ASSUME ~bridge.sends PROVE Line'
  <2>1. InHand' = InHand /\ InBuffer' = InBuffer
    BY <1>1 DEF InHand, InBuffer
  <2>2. Range(wire') = {} /\ Range(Q') = {} /\ Increasing(wire') /\ Increasing(Q')
    BY <1>1, EmptyRange DEF Increasing
  <2> QED BY <1>1, <1>5, <2>1, <2>2 DEF IInv, Line, Before, Sent
<1> QED BY <1>1, <1>2, <1>3, <1>4, <1>5 DEF IInv

LEMMA ConnectIInv ==
    ASSUME IInv, Connect PROVE IInv'
<1>1. /\ mpc = "connect" /\ ready_' = TRUE /\ peer' = "up" /\ reads' = reads + 1 /\ mpc' = "start"
      /\ UNCHANGED <<bridge, final, failed_, shutting_down_, socket_, opened, accepting, receive_buffer_,
                     handlers, stopped, iopc, Q, finish, ppc, payload, wire, sent, delivered>>
  BY DEF Connect, stream, packet
<1>2. TypeOK'
  <2>1. ready_' \in BOOLEAN
    BY <1>1, Zenon
  <2>2. socket_' # 0 /\ reads' \in Nat
    BY <1>1 DEF IInv, TypeOK, Control
  <2> QED BY <1>1, <2>1, <2>2 DEF IInv, TypeOK
<1>3. Control' /\ NotifiedHasByte' /\ SocketGoneOnlyInClose'
  BY <1>1 DEF IInv, Control, NotifiedHasByte, SocketGoneOnlyInClose, Ended
<1>4. ASSUME ~bridge.sends PROVE OneOperation' /\ PeerKnown'
  BY <1>1, <1>4, EmptyRange DEF IInv, OneOperation, NoOperation, InHandler, PeerKnown
<1>5. ASSUME ~bridge.sends PROVE Line'
  <2>1. InHand' = InHand /\ InBuffer' = InBuffer
    BY <1>1 DEF InHand, InBuffer
  <2> QED BY <1>1, <1>5, <2>1, LineKept DEF IInv
<1> QED BY <1>1, <1>2, <1>3, <1>4, <1>5 DEF IInv

LEMMA CloseSocketsIInv ==
    ASSUME IInv, CloseSockets PROVE IInv'
<1> DEFINE BadAccept == [op |-> "accept", ok |-> FALSE]
           a == IF accepting THEN <<BadAccept>> ELSE << >>
           r == [i \in 1 .. reads |-> BadRead]
<1>1. /\ mpc = "closeSockets" /\ handlers' = handlers \o a \o r
      /\ accepting' = FALSE /\ reads' = 0 /\ socket_' = 0 /\ peer' = "none" /\ mpc' = "shutdownStream"
      /\ UNCHANGED <<bridge, final, ready_, failed_, shutting_down_, opened, receive_buffer_, stopped,
                     iopc, Q, finish, ppc, payload, wire, sent, delivered>>
  BY DEF CloseSockets, flags, stream, packet, BadRead
<1>2. handlers \in Seq(Handlers) /\ reads \in Nat
  BY DEF IInv, TypeOK, Handlers
<1> HIDE DEF BadAccept
<1>3. a \in Seq(Handlers) /\ Range(a) \subseteq {BadAccept}
  <2>1. BadAccept \in Handlers
    BY HandlerIs DEF BadAccept
  <2>2. <<BadAccept>> \in Seq(Handlers) /\ Range(<<BadAccept>>) \subseteq {BadAccept}
    BY <2>1 DEF Range
  <2> QED BY <2>2, EmptyRange
<1>4. r \in Seq(Handlers) /\ Range(r) \subseteq {BadRead}
  BY <1>2, HandlerIs DEF Range
<1> HIDE DEF a, r
<1>5. handlers' \in Seq(Handlers) /\ (OkRead \in Range(handlers') => OkRead \in Range(handlers))
  <2>1. handlers \o a \in Seq(Handlers) /\ Range(handlers \o a) = Range(handlers) \cup Range(a)
    BY <1>2, <1>3, RangeConcatenation
  <2>2. /\ handlers \o a \o r \in Seq(Handlers)
        /\ Range(handlers \o a \o r) = Range(handlers \o a) \cup Range(r)
    <3> DEFINE h == handlers \o a
    <3>1. h \in Seq(Handlers) /\ r \in Seq(Handlers)
      BY <1>4, <2>1
    <3> HIDE DEF h
    <3>2. h \o r \in Seq(Handlers) /\ Range(h \o r) = Range(h) \cup Range(r)
      BY <3>1, RangeConcatenation
    <3> QED BY <3>2 DEF h
  <2> QED BY <1>1, <1>3, <1>4, <2>1, <2>2, HandlerIs DEF BadAccept
<1>6. TypeOK'
  <2>1. accepting' \in BOOLEAN
    BY <1>1, Zenon
  <2> QED BY <1>1, <1>5, <2>1 DEF IInv, TypeOK, Handlers
<1>7. Control' /\ NotifiedHasByte' /\ SocketGoneOnlyInClose'
  BY <1>1, <1>5 DEF IInv, Control, NotifiedHasByte, SocketGoneOnlyInClose, Ended
<1>8. ASSUME ~bridge.sends PROVE OneOperation' /\ PeerKnown'
  <2>1. OneOperation
    BY <1>8 DEF IInv
  <2>2. Len(handlers') <= 1 /\ (failed_ \/ InHandler => handlers' = << >>)
    <3>1. Len(handlers') = Len(handlers) + Len(a) + Len(r)
      BY <1>1, <1>2, <1>3, <1>4
    <3>2. Len(r) = reads /\ Len(a) = (IF accepting THEN 1 ELSE 0)
      BY <1>2 DEF a, r
    <3>3. Len(handlers) \in Nat /\ (handlers = << >> <=> Len(handlers) = 0)
      BY <1>2
    <3>4. Len(handlers') <= 1 /\ (failed_ \/ InHandler => Len(handlers') = 0)
      BY <1>2, <2>1, <3>1, <3>2, <3>3 DEF OneOperation, NoOperation, InHandler
    <3> QED BY <1>5, <3>4
  <2> QED BY <1>1, <2>1, <2>2 DEF OneOperation, NoOperation, InHandler, PeerKnown
<1>9. ASSUME ~bridge.sends PROVE Line'
  <2>1. InHand' = InHand /\ InBuffer' \subseteq InBuffer
    BY <1>1, <1>5 DEF InHand, InBuffer
  <2> QED BY <1>1, <1>9, <2>1, LineKept DEF IInv
<1> QED BY <1>1, <1>6, <1>7, <1>8, <1>9 DEF IInv

LEMMA ShutdownStreamIInv ==
    ASSUME IInv, ShutdownStream PROVE IInv'
<1>1. /\ mpc = "shutdownStream" /\ finish' = TRUE /\ Q' = << >> /\ mpc' = "joinPacket"
      /\ ppc' = (IF ppc = "wait" THEN "woken" ELSE ppc)
      /\ UNCHANGED <<bridge, final, ready_, failed_, shutting_down_, socket_, opened, accepting, reads,
                     receive_buffer_, handlers, stopped, iopc, payload, peer, wire, sent, delivered>>
  BY DEF ShutdownStream, Notified, flags, io, remote
<1>2. TypeOK'
  <2>1. finish' \in BOOLEAN
    BY <1>1, Zenon
  <2>2. Q' \in Seq(Msgs)
    BY <1>1
  <2> QED BY <1>1, <2>1, <2>2 DEF IInv, TypeOK
<1>3. Control' /\ NotifiedHasByte' /\ SocketGoneOnlyInClose'
  BY <1>1 DEF IInv, Control, NotifiedHasByte, SocketGoneOnlyInClose, Ended
<1>4. ASSUME ~bridge.sends PROVE OneOperation' /\ PeerKnown'
  BY <1>1, <1>4 DEF IInv, OneOperation, NoOperation, InHandler, PeerKnown
<1>5. ASSUME ~bridge.sends PROVE Line'
  <2>1. InHand' = InHand /\ InBuffer' = InBuffer
    BY <1>1 DEF InHand, InBuffer
  <2> QED BY <1>1, <1>5, <2>1, LineKept DEF IInv
<1> QED BY <1>1, <1>2, <1>3, <1>4, <1>5 DEF IInv

-----------------------------------------------------------------------------
(* The io thread: operations complete                                      *)

\* A handler is queued: the messages and the queue of bytes stay.
LEMMA CompletionFacts ==
    ASSUME TypeOK, NEW h \in Handlers, handlers' = Append(handlers, h)
    PROVE  /\ handlers' \in Seq(Handlers) /\ Range(handlers') = Range(handlers) \cup {h}
           /\ Len(handlers') = Len(handlers) + 1 /\ Len(handlers) \in Nat /\ handlers' # << >>
           /\ handlers = << >> <=> Len(handlers) = 0
<1>1. handlers \in Seq(Handlers)
  BY DEF TypeOK, Handlers
<1> QED BY <1>1, AppendFacts

LEMMA AcceptCompletesIInv ==
    ASSUME IInv, AcceptCompletes PROVE IInv'
<1>1. /\ iopc = "run" /\ mpc \notin Ended /\ accepting /\ accepting' = FALSE /\ peer' = "up"
      /\ handlers' = Append(handlers, OkAccept)
      /\ UNCHANGED <<bridge, mpc, final, ready_, failed_, shutting_down_, socket_, opened, reads,
                     receive_buffer_, stopped, iopc, Q, finish, ppc, payload, wire, sent, delivered>>
  BY DEF AcceptCompletes, Running, executor, flags, stream, packet, OkAccept
<1>2. /\ handlers' \in Seq(Handlers) /\ Range(handlers') = Range(handlers) \cup {OkAccept}
      /\ Len(handlers') = Len(handlers) + 1 /\ Len(handlers) \in Nat /\ handlers' # << >>
      /\ handlers = << >> <=> Len(handlers) = 0
  BY <1>1, HandlerIs, CompletionFacts DEF IInv
<1>3. TypeOK'
  <2>1. accepting' \in BOOLEAN
    BY <1>1, Zenon
  <2> QED BY <1>1, <1>2, <2>1 DEF IInv, TypeOK, Handlers
<1>4. OkRead \in Range(handlers') => OkRead \in Range(handlers)
  BY <1>2, HandlerIs
<1>5. Control' /\ NotifiedHasByte' /\ SocketGoneOnlyInClose'
  BY <1>1, <1>4 DEF IInv, Control, NotifiedHasByte, SocketGoneOnlyInClose, Ended
<1>6. ASSUME ~bridge.sends PROVE OneOperation' /\ PeerKnown'
  <2>1. /\ OneOperation /\ handlers = << >> /\ reads = 0 /\ ~failed_
        /\ mpc \notin {"open", "connect", "start"}
    BY <1>1, <1>6 DEF IInv, Control, OneOperation, NoOperation, InHandler
  <2>2. BadRead \notin Range(handlers') /\ Len(handlers') = 1
    BY <1>2, <2>1, HandlerIs, EmptyRange
  <2> QED BY <1>1, <2>1, <2>2 DEF OneOperation, NoOperation, InHandler, PeerKnown
<1>7. ASSUME ~bridge.sends PROVE Line'
  <2>1. InHand' = InHand /\ InBuffer' \subseteq InBuffer
    BY <1>1, <1>4 DEF InHand, InBuffer
  <2> QED BY <1>1, <1>7, <2>1, LineKept DEF IInv
<1> QED BY <1>1, <1>3, <1>5, <1>6, <1>7 DEF IInv

LEMMA ReadFailsIInv ==
    ASSUME IInv, ReadFails PROVE IInv'
<1>1. /\ iopc = "run" /\ mpc \notin Ended /\ reads > 0 /\ peer = "gone" /\ reads' = reads - 1
      /\ handlers' = Append(handlers, BadRead)
      /\ UNCHANGED <<bridge, mpc, final, ready_, failed_, shutting_down_, socket_, opened, accepting,
                     receive_buffer_, stopped, iopc, Q, finish, ppc, payload, peer, wire, sent, delivered>>
  BY DEF ReadFails, Running, executor, flags, stream, packet, remote, BadRead
<1>2. /\ handlers' \in Seq(Handlers) /\ Range(handlers') = Range(handlers) \cup {BadRead}
      /\ Len(handlers') = Len(handlers) + 1 /\ Len(handlers) \in Nat /\ handlers' # << >>
      /\ handlers = << >> <=> Len(handlers) = 0
  BY <1>1, HandlerIs, CompletionFacts DEF IInv
<1>3. TypeOK'
  BY <1>1, <1>2 DEF IInv, TypeOK, Handlers
<1>4. OkRead \in Range(handlers') => OkRead \in Range(handlers)
  BY <1>2, HandlerIs
<1>5. Control' /\ NotifiedHasByte' /\ SocketGoneOnlyInClose'
  BY <1>1, <1>4 DEF IInv, Control, NotifiedHasByte, SocketGoneOnlyInClose, Ended
<1>6. ASSUME ~bridge.sends PROVE OneOperation' /\ PeerKnown'
  <2>1. /\ OneOperation /\ PeerKnown /\ handlers = << >> /\ reads = 1 /\ ~failed_ /\ ~accepting
        /\ mpc \notin {"open", "connect", "start"}
    BY <1>1, <1>6 DEF IInv, Control, OneOperation, NoOperation, InHandler
  <2>2. OkAccept \notin Range(handlers') /\ Len(handlers') = 1
    BY <1>2, <2>1, HandlerIs, EmptyRange
  <2> QED BY <1>1, <2>1, <2>2 DEF OneOperation, NoOperation, InHandler, PeerKnown
<1>7. ASSUME ~bridge.sends PROVE Line'
  <2>1. InHand' = InHand /\ InBuffer' \subseteq InBuffer
    BY <1>1, <1>4 DEF InHand, InBuffer
  <2> QED BY <1>1, <1>7, <2>1, LineKept DEF IInv
<1> QED BY <1>1, <1>3, <1>5, <1>6, <1>7 DEF IInv

LEMMA MsgSeqs ==
    ASSUME TypeOK
    PROVE  /\ Q \in Seq(Msgs) /\ wire \in Seq(Msgs) /\ delivered \in Seq(Msgs)
           /\ Q \in Seq(Nat) /\ wire \in Seq(Nat) /\ delivered \in Seq(Nat)
           /\ Range(Q) \subseteq Nat /\ Range(wire) \subseteq Nat /\ Range(delivered) \subseteq Nat
           /\ InHand \subseteq Nat /\ InBuffer \subseteq Nat /\ sent \in Nat /\ Msgs \subseteq Nat
<1>1. Msgs \subseteq Nat
  BY DEF Msgs
<1>2. Q \in Seq(Msgs) /\ wire \in Seq(Msgs) /\ delivered \in Seq(Msgs)
  BY DEF TypeOK
<1>3. Q \in Seq(Nat) /\ wire \in Seq(Nat) /\ delivered \in Seq(Nat)
  BY <1>1, <1>2, SeqMonotonic
<1>4. Range(Q) \subseteq Nat /\ Range(wire) \subseteq Nat /\ Range(delivered) \subseteq Nat
  BY <1>3, RangeOfSeq
<1>5. InHand \subseteq Nat /\ InBuffer \subseteq Nat /\ sent \in Nat
  BY DEF TypeOK, InHand, InBuffer
<1> QED BY <1>1, <1>2, <1>3, <1>4, <1>5

LEMMA ReadCompletesIInv ==
    ASSUME IInv, ReadCompletes PROVE IInv'
<1>1. /\ iopc = "run" /\ mpc \notin Ended /\ reads > 0 /\ wire # << >> /\ reads' = reads - 1
      /\ receive_buffer_' = Head(wire) /\ wire' = Tail(wire)
      /\ handlers' = Append(handlers, OkRead)
      /\ UNCHANGED <<bridge, mpc, final, ready_, failed_, shutting_down_, socket_, opened, accepting,
                     stopped, iopc, Q, finish, ppc, payload, peer, sent, delivered>>
  BY DEF ReadCompletes, Running, executor, flags, stream, packet, OkRead
<1>2. /\ handlers' \in Seq(Handlers) /\ Range(handlers') = Range(handlers) \cup {OkRead}
      /\ Len(handlers') = Len(handlers) + 1 /\ Len(handlers) \in Nat /\ handlers' # << >>
      /\ handlers = << >> <=> Len(handlers) = 0
  BY <1>1, HandlerIs, CompletionFacts DEF IInv
<1>3. /\ Head(wire) \in Msgs /\ Head(wire) \in Range(wire) /\ wire' \in Seq(Msgs)
      /\ Range(wire') \subseteq Range(wire)
  BY <1>1, MsgSeqs, TailFacts DEF IInv
<1>4. TypeOK'
  <2>1. receive_buffer_' \in 0 .. MaxMsgs
    BY <1>1, <1>3 DEF Msgs
  <2> QED BY <1>1, <1>2, <1>3, <2>1 DEF IInv, TypeOK, Handlers
<1>5. Control' /\ NotifiedHasByte' /\ SocketGoneOnlyInClose'
  <2>1. receive_buffer_' # 0
    BY <1>1, <1>3 DEF Msgs
  <2> QED BY <1>1, <2>1 DEF IInv, Control, NotifiedHasByte, SocketGoneOnlyInClose, Ended
<1>6. ASSUME ~bridge.sends
      PROVE  /\ OneOperation /\ PeerKnown /\ handlers = << >> /\ reads = 1 /\ ~failed_ /\ ~accepting
             /\ mpc \notin {"open", "connect", "start"}
  BY <1>1, <1>6 DEF IInv, Control, OneOperation, NoOperation, InHandler
<1>7. ASSUME ~bridge.sends PROVE OneOperation' /\ PeerKnown'
  <2>1. OkAccept \notin Range(handlers') /\ BadRead \notin Range(handlers') /\ Len(handlers') = 1
    BY <1>2, <1>6, <1>7, HandlerIs, EmptyRange
  <2> QED BY <1>1, <1>6, <1>7, <2>1 DEF OneOperation, NoOperation, InHandler, PeerKnown
<1>8. ASSUME ~bridge.sends PROVE Line'
  <2>1. InHand' = InHand /\ InBuffer' = {Head(wire)}
    BY <1>1, <1>2 DEF InHand, InBuffer
  <2>2. Increasing(wire') /\ Before({Head(wire)}, Range(wire'))
    BY <1>1, <1>8, MsgSeqs, IncreasingTail DEF IInv, Line
  <2>3. Line
    BY <1>8 DEF IInv
  <2> QED BY <1>1, <1>3, <2>1, <2>2, <2>3 DEF Line, Before, Sent
<1> QED BY <1>1, <1>4, <1>5, <1>7, <1>8 DEF IInv

-----------------------------------------------------------------------------
(* The io thread: handlers run                                             *)

LEMMA HandleFacts ==
    ASSUME IInv, NEW p, NEW k, Handle(p, k)
    PROVE  /\ iopc = "run" /\ mpc \notin Ended /\ [op |-> p, ok |-> k] \in Range(handlers)
           /\ handlers' \in Seq(Handlers) /\ Range(handlers') \subseteq Range(handlers)
           /\ ~bridge.sends => /\ OneOperation /\ PeerKnown /\ Line
                               /\ handlers' = << >> /\ Len(handlers') = 0 /\ Range(handlers') = {}
                               /\ ~accepting /\ reads = 0 /\ ~failed_
                               /\ mpc \notin {"open", "connect", "start"}
<1>1. /\ iopc = "run" /\ mpc \notin Ended /\ handlers # << >> /\ Head(handlers) = [op |-> p, ok |-> k]
      /\ handlers' = Tail(handlers)
  BY DEF Handle, Running
<1>2. handlers \in Seq(Handlers)
  BY DEF IInv, TypeOK, Handlers
<1>3. /\ Head(handlers) \in Range(handlers) /\ handlers' \in Seq(Handlers)
      /\ Range(handlers') \subseteq Range(handlers)
      /\ Len(handlers) <= 1 => handlers' = << >>
  BY <1>1, <1>2, TailFacts
<1>4. ASSUME ~bridge.sends
      PROVE  /\ OneOperation /\ PeerKnown /\ Line /\ handlers' = << >> /\ ~accepting /\ reads = 0
             /\ ~failed_ /\ mpc \notin {"open", "connect", "start"}
  BY <1>1, <1>3, <1>4 DEF IInv, TypeOK, OneOperation, NoOperation, InHandler
<1>5. Len(<< >>) = 0 /\ Range(<< >>) = {}
  BY EmptyRange
<1> QED BY <1>1, <1>3, <1>4, <1>5

LEMMA HandleAcceptOkIInv ==
    ASSUME IInv, Handle("accept", TRUE), iopc' = IF shutting_down_ THEN "run" ELSE "accepted",
           UNCHANGED <<bridge, executor, flags, socket_, opened, accepting, reads, receive_buffer_,
                       stopped, stream, packet, remote, delivered>>
    PROVE  IInv'
<1>1. UNCHANGED <<bridge, mpc, final, ready_, failed_, shutting_down_, socket_, opened, accepting, reads,
                  receive_buffer_, stopped, Q, finish, ppc, payload, peer, wire, sent, delivered>>
  BY DEF executor, flags, stream, packet, remote
<1>2. /\ OkAccept \in Range(handlers) /\ handlers' \in Seq(Handlers)
      /\ Range(handlers') \subseteq Range(handlers) /\ iopc = "run" /\ mpc \notin Ended
  BY HandleFacts DEF OkAccept
<1>3. ASSUME ~bridge.sends
      PROVE  /\ OneOperation /\ PeerKnown /\ Line
             /\ handlers' = << >> /\ Len(handlers') = 0 /\ Range(handlers') = {}
             /\ ~accepting /\ reads = 0 /\ ~failed_ /\ mpc \notin {"open", "connect", "start"}
  BY <1>3, HandleFacts
<1>4. iopc' \in {"run", "accepted"} /\ (iopc' = "accepted" => ~shutting_down_)
  BY Zenon
<1>5. TypeOK'
  BY <1>1, <1>2, <1>4 DEF IInv, TypeOK, Handlers
<1>6. Control' /\ NotifiedHasByte' /\ SocketGoneOnlyInClose'
  <2>1. iopc' = "accepted" => socket_ # 0
    BY <1>2, <1>4 DEF IInv, TypeOK, Control
  <2> QED BY <1>1, <1>2, <1>4, <2>1 DEF IInv, Control, NotifiedHasByte, SocketGoneOnlyInClose, Ended
<1>7. ASSUME ~bridge.sends PROVE OneOperation' /\ PeerKnown'
  BY <1>1, <1>2, <1>3, <1>4, <1>7 DEF OneOperation, NoOperation, InHandler, PeerKnown
<1>8. ASSUME ~bridge.sends PROVE Line'
  <2>1. InHand' = InHand /\ InBuffer' \subseteq InBuffer
    BY <1>1, <1>2 DEF InHand, InBuffer
  <2> QED BY <1>1, <1>8, <2>1, LineKept DEF IInv
<1> QED BY <1>1, <1>5, <1>6, <1>7, <1>8 DEF IInv

\* The process ends in the middle of a step.
LEMMA EndsIInv ==
    ASSUME IInv, mpc' \in Ended, mpc' = "nullSocket" => shutting_down_,
           UNCHANGED <<bridge, final, ready_, failed_, shutting_down_, socket_, opened, accepting, reads,
                       receive_buffer_, handlers, stopped, iopc, Q, finish, ppc, payload, peer, wire, sent,
                       delivered>>
    PROVE  IInv'
<1>1. TypeOK'
  BY DEF IInv, TypeOK
<1>2. Control' /\ NotifiedHasByte' /\ SocketGoneOnlyInClose'
  BY DEF IInv, Control, NotifiedHasByte, SocketGoneOnlyInClose, Ended
<1>3. ASSUME ~bridge.sends PROVE OneOperation' /\ PeerKnown'
  BY <1>3 DEF IInv, OneOperation, NoOperation, InHandler, PeerKnown, Ended
<1>4. ASSUME ~bridge.sends PROVE Line'
  <2>1. InHand' = InHand /\ InBuffer' = InBuffer
    BY DEF InHand, InBuffer
  <2> QED BY <1>4, <2>1, LineKept DEF IInv
<1> QED BY <1>1, <1>2, <1>3, <1>4 DEF IInv

LEMMA AcceptUsesSocketIInv ==
    ASSUME IInv, AcceptUsesSocket PROVE IInv'
<1>1. /\ iopc = "accepted"
      /\ UNCHANGED <<bridge, final, failed_, shutting_down_, socket_, opened, accepting, reads,
                     receive_buffer_, handlers, stopped, Q, finish, ppc, payload, peer, wire, sent, delivered>>
  BY DEF AcceptUsesSocket, io, stream, packet, remote
<1>2. CASE mpc' \in Ended
  <2>1. UNCHANGED <<ready_, iopc>> /\ (mpc' = "nullSocket" => shutting_down_)
    BY <1>1, <1>2 DEF IInv, SocketGoneOnlyInClose, AcceptUsesSocket
  <2> QED BY <1>1, <1>2, <2>1, EndsIInv
<1>3. CASE mpc' \notin Ended
  <2>1. socket_ # 0 /\ ready_' = TRUE /\ iopc' = "receive" /\ mpc' = mpc
    BY <1>3 DEF AcceptUsesSocket, Ended
  <2>2. TypeOK'
    <3>1. ready_' \in BOOLEAN
      BY <2>1, Zenon
    <3> QED BY <1>1, <2>1, <3>1 DEF IInv, TypeOK
  <2>3. Control' /\ NotifiedHasByte' /\ SocketGoneOnlyInClose'
    BY <1>1, <2>1 DEF IInv, Control, NotifiedHasByte, SocketGoneOnlyInClose
  <2>4. ASSUME ~bridge.sends PROVE OneOperation' /\ PeerKnown'
    BY <1>1, <2>1, <2>4 DEF IInv, Control, OneOperation, NoOperation, InHandler, PeerKnown
  <2>5. ASSUME ~bridge.sends PROVE Line'
    <3>1. InHand' = InHand /\ InBuffer' = InBuffer
      BY <1>1 DEF InHand, InBuffer
    <3> QED BY <1>1, <2>5, <3>1, LineKept DEF IInv
  <2> QED BY <1>1, <2>2, <2>3, <2>4, <2>5 DEF IInv
<1> QED BY <1>2, <1>3

LEMMA BeginReadIInv ==
    ASSUME IInv, BeginRead PROVE IInv'
<1>1. /\ iopc = "begin"
      /\ UNCHANGED <<bridge, final, ready_, failed_, shutting_down_, socket_, opened, accepting,
                     receive_buffer_, handlers, stopped, Q, finish, ppc, payload, peer, wire, sent, delivered>>
  BY DEF BeginRead, flags, stream, packet, remote
<1>2. CASE socket_ = 0
  <2>1. UNCHANGED <<reads, iopc>> /\ mpc' = "nullSocket" /\ shutting_down_
    BY <1>1, <1>2 DEF IInv, SocketGoneOnlyInClose, BeginRead
  <2> QED BY <1>1, <2>1, EndsIInv DEF Ended
<1>3. CASE socket_ # 0
  <2>1. reads' = reads + 1 /\ iopc' = "run" /\ mpc' = mpc
    BY <1>3 DEF BeginRead
  <2>2. TypeOK'
    BY <1>1, <1>3, <2>1 DEF IInv, TypeOK
  <2>3. Control' /\ NotifiedHasByte' /\ SocketGoneOnlyInClose'
    BY <1>1, <2>1 DEF IInv, Control, NotifiedHasByte, SocketGoneOnlyInClose
  <2>4. ASSUME ~bridge.sends PROVE OneOperation' /\ PeerKnown'
    BY <1>1, <2>1, <2>4 DEF IInv, TypeOK, Control, OneOperation, NoOperation, InHandler, PeerKnown
  <2>5. ASSUME ~bridge.sends PROVE Line'
    <3>1. InHand' = InHand /\ InBuffer' = InBuffer
      BY <1>1 DEF InHand, InBuffer
    <3> QED BY <1>1, <2>5, <3>1, LineKept DEF IInv
  <2> QED BY <1>1, <2>2, <2>3, <2>4, <2>5 DEF IInv
<1> QED BY <1>2, <1>3

LEMMA HandleAcceptErrorIInv ==
    ASSUME IInv, Handle("accept", FALSE), mpc' = IF shutting_down_ THEN mpc ELSE "exited",
           UNCHANGED <<bridge, final, flags, socket_, opened, accepting, reads, receive_buffer_, stopped,
                       iopc, stream, packet, remote, delivered>>
    PROVE  IInv'
<1>1. UNCHANGED <<bridge, final, ready_, failed_, shutting_down_, socket_, opened, accepting, reads,
                  receive_buffer_, stopped, iopc, Q, finish, ppc, payload, peer, wire, sent, delivered>>
  BY DEF flags, stream, packet, remote
<1>2. handlers' \in Seq(Handlers) /\ Range(handlers') \subseteq Range(handlers)
  BY HandleFacts
<1>3. ASSUME ~bridge.sends
      PROVE  /\ OneOperation /\ PeerKnown /\ Line
             /\ handlers' = << >> /\ Len(handlers') = 0 /\ Range(handlers') = {}
             /\ ~accepting /\ reads = 0 /\ ~failed_ /\ mpc \notin {"open", "connect", "start"}
  BY <1>3, HandleFacts
<1>4. TypeOK'
  BY <1>1, <1>2 DEF IInv, TypeOK, Handlers, Ended
<1>5. Control' /\ NotifiedHasByte' /\ SocketGoneOnlyInClose'
  BY <1>1, <1>2 DEF IInv, Control, NotifiedHasByte, SocketGoneOnlyInClose, Ended
<1>6. ASSUME ~bridge.sends PROVE OneOperation' /\ PeerKnown'
  BY <1>1, <1>2, <1>3, <1>6 DEF OneOperation, NoOperation, InHandler, PeerKnown
<1>7. ASSUME ~bridge.sends PROVE Line'
  <2>1. InHand' = InHand /\ InBuffer' \subseteq InBuffer
    BY <1>1, <1>2 DEF InHand, InBuffer
  <2> QED BY <1>1, <1>7, <2>1, LineKept DEF IInv
<1> QED BY <1>1, <1>4, <1>5, <1>6, <1>7 DEF IInv

LEMMA HandleReadErrorIInv ==
    ASSUME IInv, HandleReadError PROVE IInv'
<1>1. /\ Handle("read", FALSE) /\ failed_' = TRUE
      /\ UNCHANGED <<bridge, mpc, final, ready_, shutting_down_, socket_, opened, accepting, reads,
                     receive_buffer_, stopped, iopc, Q, finish, ppc, payload, peer, wire, sent, delivered>>
  BY DEF HandleReadError, executor, stream, packet, remote
<1>2. /\ BadRead \in Range(handlers) /\ handlers' \in Seq(Handlers)
      /\ Range(handlers') \subseteq Range(handlers)
  BY <1>1, HandleFacts DEF BadRead
<1>3. ASSUME ~bridge.sends
      PROVE  /\ OneOperation /\ PeerKnown /\ Line
             /\ handlers' = << >> /\ Len(handlers') = 0 /\ Range(handlers') = {}
             /\ ~accepting /\ reads = 0 /\ ~failed_ /\ mpc \notin {"open", "connect", "start"}
  BY <1>1, <1>3, HandleFacts
<1>4. TypeOK'
  <2>1. failed_' \in BOOLEAN
    BY <1>1, Zenon
  <2> QED BY <1>1, <1>2, <2>1 DEF IInv, TypeOK, Handlers
<1>5. Control' /\ NotifiedHasByte' /\ SocketGoneOnlyInClose'
  BY <1>1, <1>2 DEF IInv, Control, NotifiedHasByte, SocketGoneOnlyInClose, Ended
<1>6. ASSUME ~bridge.sends PROVE OneOperation' /\ PeerKnown'
  BY <1>1, <1>2, <1>3, <1>6 DEF OneOperation, NoOperation, InHandler, PeerKnown
<1>7. ASSUME ~bridge.sends PROVE Line'
  <2>1. InHand' = InHand /\ InBuffer' \subseteq InBuffer
    BY <1>1, <1>2 DEF InHand, InBuffer
  <2> QED BY <1>1, <1>7, <2>1, LineKept DEF IInv
<1> QED BY <1>1, <1>4, <1>5, <1>6, <1>7 DEF IInv

LEMMA HandleReadIInv ==
    ASSUME IInv, HandleRead PROVE IInv'
<1>1. /\ Handle("read", TRUE) /\ Q' = Append(Q, receive_buffer_) /\ iopc' = "receive"
      /\ ppc' = (IF ppc = "wait" THEN "woken" ELSE ppc)
      /\ UNCHANGED <<bridge, mpc, final, ready_, failed_, shutting_down_, socket_, opened, accepting,
                     reads, receive_buffer_, stopped, finish, payload, peer, wire, sent, delivered>>
  BY DEF HandleRead, Notified, executor, flags, remote
<1>2. /\ OkRead \in Range(handlers) /\ handlers' \in Seq(Handlers)
      /\ Range(handlers') \subseteq Range(handlers) /\ iopc = "run"
  BY <1>1, HandleFacts DEF OkRead
<1>3. ASSUME ~bridge.sends
      PROVE  /\ OneOperation /\ PeerKnown /\ Line
             /\ handlers' = << >> /\ Len(handlers') = 0 /\ Range(handlers') = {}
             /\ ~accepting /\ reads = 0 /\ ~failed_ /\ mpc \notin {"open", "connect", "start"}
  BY <1>1, <1>3, HandleFacts
<1>5. receive_buffer_ \in Msgs
  BY <1>2 DEF IInv, TypeOK, Control, Msgs
<1>6. Q' \in Seq(Msgs) /\ Q' # << >> /\ Range(Q') = Range(Q) \cup {receive_buffer_}
  BY <1>1, <1>5, MsgSeqs, AppendFacts, SMTT(30) DEF IInv
<1>7. TypeOK'
  BY <1>1, <1>2, <1>6 DEF IInv, TypeOK, Handlers
<1>8. Control' /\ NotifiedHasByte' /\ SocketGoneOnlyInClose'
  BY <1>1, <1>2, <1>6 DEF IInv, Control, NotifiedHasByte, SocketGoneOnlyInClose, Ended
<1>9. ASSUME ~bridge.sends PROVE OneOperation' /\ PeerKnown'
  BY <1>1, <1>2, <1>3, <1>9 DEF OneOperation, NoOperation, InHandler, PeerKnown
<1>10. ASSUME ~bridge.sends PROVE Line'
  <2>1. InHand' = InHand /\ InBuffer = {receive_buffer_} /\ InBuffer' = {}
    BY <1>1, <1>2, <1>3, <1>10 DEF InHand, InBuffer
  <2>2. Increasing(Q')
    <3>1. \A x \in Range(Q) : x < receive_buffer_
      BY <1>3, <1>10, <2>1 DEF Line, Before, Sent
    <3>2. Increasing(Q)
      BY <1>3, <1>10 DEF Line
    <3> QED BY <1>1, <1>5, <3>1, <3>2, MsgSeqs, IncreasingAppend DEF IInv
  <2> QED BY <1>1, <1>3, <1>6, <1>10, <2>1, <2>2 DEF Line, Before, Sent
<1> QED BY <1>1, <1>7, <1>8, <1>9, <1>10 DEF IInv

-----------------------------------------------------------------------------
(* The packet thread and the peer                                          *)

LEMMA PacketTakesIInv ==
    ASSUME IInv, PacketTakes PROVE IInv'
<1>0. CASE Q = << >>
  <2>1. /\ mpc' = "emptyFront"
        /\ UNCHANGED <<bridge, final, ready_, failed_, shutting_down_, socket_, opened, accepting, reads,
                       receive_buffer_, handlers, stopped, iopc, Q, finish, ppc, payload, peer, wire, sent,
                       delivered>>
    BY <1>0 DEF PacketTakes, flags, io, packet, remote
  <2> QED BY <2>1, EndsIInv DEF Ended
<1>1. CASE Q # << >>
  <2>1. /\ Q # << >> /\ ppc \in {"lock", "woken", "unnotified"} /\ ppc' = "deliver"
        /\ payload' = Head(Q) /\ Q' = Tail(Q)
        /\ UNCHANGED <<bridge, mpc, final, ready_, failed_, shutting_down_, socket_, opened, accepting,
                       reads, receive_buffer_, handlers, stopped, iopc, finish, peer, wire, sent, delivered>>
    BY <1>1 DEF PacketTakes, executor, flags, io, remote
  <2>2. /\ Head(Q) \in Msgs /\ Head(Q) \in Range(Q) /\ Q' \in Seq(Msgs)
        /\ Range(Q') \subseteq Range(Q)
    BY <2>1, MsgSeqs, TailFacts DEF IInv
  <2>3. payload' \in 0 .. MaxMsgs /\ payload' # 0
    BY <2>1, <2>2 DEF Msgs
  <2>4. TypeOK'
    BY <2>1, <2>2, <2>3 DEF IInv, TypeOK
  <2>5. Control' /\ NotifiedHasByte' /\ SocketGoneOnlyInClose'
    BY <2>1, <2>3 DEF IInv, Control, NotifiedHasByte, SocketGoneOnlyInClose, Ended
  <2>6. ASSUME ~bridge.sends PROVE OneOperation' /\ PeerKnown'
    BY <2>1, <2>6 DEF IInv, OneOperation, NoOperation, InHandler, PeerKnown
  <2>7. ASSUME ~bridge.sends PROVE Line'
    <3>1. InHand' = {Head(Q)} /\ InBuffer' = InBuffer
      BY <2>1 DEF InHand, InBuffer
    <3>2. Increasing(Q') /\ Before({Head(Q)}, Range(Q'))
      BY <2>1, <2>7, MsgSeqs, IncreasingTail DEF IInv, Line
    <3>3. Line
      BY <2>7 DEF IInv
    <3> QED BY <2>1, <2>2, <3>1, <3>2, <3>3 DEF Line, Before, Sent
  <2> QED BY <2>1, <2>4, <2>5, <2>6, <2>7 DEF IInv
<1> QED BY <1>0, <1>1

LEMMA PacketDeliversIInv ==
    ASSUME IInv, PacketDelivers PROVE IInv'
<1>1. /\ ppc = "deliver" /\ ppc' = "check" /\ delivered' = Append(delivered, payload)
      /\ UNCHANGED <<bridge, mpc, final, ready_, failed_, shutting_down_, socket_, opened, accepting,
                     reads, receive_buffer_, handlers, stopped, iopc, Q, finish, payload, peer, wire, sent>>
  BY DEF PacketDelivers, executor, flags, io, stream, remote
<1>2. payload \in Msgs
  BY <1>1 DEF IInv, TypeOK, Control, Msgs
<1>3. delivered' \in Seq(Msgs) /\ Range(delivered') = Range(delivered) \cup {payload}
  BY <1>1, <1>2, MsgSeqs, AppendFacts DEF IInv
<1>4. TypeOK'
  BY <1>1, <1>3 DEF IInv, TypeOK
<1>5. Control' /\ NotifiedHasByte' /\ SocketGoneOnlyInClose'
  BY <1>1 DEF IInv, Control, NotifiedHasByte, SocketGoneOnlyInClose, Ended
<1>6. ASSUME ~bridge.sends PROVE OneOperation' /\ PeerKnown'
  BY <1>1, <1>6 DEF IInv, OneOperation, NoOperation, InHandler, PeerKnown
<1>7. ASSUME ~bridge.sends PROVE Line'
  <2>1. InHand = {payload} /\ InHand' = {} /\ InBuffer' = InBuffer
    BY <1>1 DEF InHand, InBuffer
  <2>2. Line
    BY <1>7 DEF IInv
  <2>3. Increasing(delivered')
    <3>1. \A x \in Range(delivered) : x < payload
      BY <2>1, <2>2 DEF Line, Before, Sent
    <3>2. Increasing(delivered)
      BY <2>2 DEF Line
    <3> QED BY <1>1, <1>2, <3>1, <3>2, MsgSeqs, IncreasingAppend DEF IInv
  <2> QED BY <1>1, <1>3, <2>1, <2>2, <2>3 DEF Line, Before, Sent
<1> QED BY <1>1, <1>4, <1>5, <1>6, <1>7 DEF IInv

LEMMA PeerSendsIInv ==
    ASSUME IInv, PeerSends PROVE IInv'
<1>1. /\ sent < MaxMsgs /\ sent' = sent + 1 /\ wire' = Append(wire, sent + 1)
      /\ UNCHANGED <<bridge, mpc, final, ready_, failed_, shutting_down_, socket_, opened, accepting,
                     reads, receive_buffer_, handlers, stopped, iopc, Q, finish, ppc, payload, peer, delivered>>
  BY DEF PeerSends, executor, flags, io, stream, packet
<1>2. sent + 1 \in Msgs /\ sent \in Nat
  BY <1>1, TcpAssumption DEF IInv, TypeOK, Msgs
<1>3. wire' \in Seq(Msgs) /\ Range(wire') = Range(wire) \cup {sent + 1}
  BY <1>1, <1>2, MsgSeqs, AppendFacts DEF IInv
<1>4. TypeOK'
  <2>1. sent' \in 0 .. MaxMsgs
    BY <1>1, <1>2, TcpAssumption
  <2> QED BY <1>1, <1>3, <2>1 DEF IInv, TypeOK
<1>5. Control' /\ NotifiedHasByte' /\ SocketGoneOnlyInClose'
  BY <1>1 DEF IInv, Control, NotifiedHasByte, SocketGoneOnlyInClose, Ended
<1>6. ASSUME ~bridge.sends PROVE OneOperation' /\ PeerKnown'
  BY <1>1, <1>6 DEF IInv, OneOperation, NoOperation, InHandler, PeerKnown
<1>7. ASSUME ~bridge.sends PROVE Line'
  <2>1. InHand' = InHand /\ InBuffer' = InBuffer
    BY <1>1 DEF InHand, InBuffer
  <2>2. Line
    BY <1>7 DEF IInv
  <2>3. /\ Range(Q) \subseteq Nat /\ Range(wire) \subseteq Nat /\ Range(delivered) \subseteq Nat
        /\ InHand \subseteq Nat /\ InBuffer \subseteq Nat /\ wire \in Seq(Nat)
    BY MsgSeqs DEF IInv
  <2>4. \A x \in Sent : x < sent + 1
    <3>1. Sent \subseteq Nat
      BY <2>3 DEF Sent
    <3>2. \A x \in Sent : x <= sent
      BY <2>2 DEF Line
    <3> QED BY <1>2, <3>1, <3>2
  <2>5. Increasing(wire')
    <3>1. Increasing(wire)
      BY <2>2 DEF Line
    <3>2. \A x \in Range(wire) : x < sent + 1
      BY <2>4 DEF Sent
    <3> QED BY <1>1, <1>2, <2>3, <3>1, <3>2, IncreasingAppend
  <2>6. \A x \in Sent' : x <= sent'
    <3>1. Sent' = Sent \cup {sent + 1}
      BY <1>1, <1>3, <2>1 DEF Sent
    <3>2. \A x \in Sent : x <= sent + 1
      <4>1. Sent \subseteq Nat
        BY <2>3 DEF Sent
      <4> QED BY <1>2, <2>4, <4>1
    <3> QED BY <1>1, <1>2, <3>1, <3>2
  <2>7. /\ \A x \in Range(delivered) : x < sent + 1
        /\ \A x \in InHand : x < sent + 1
        /\ \A x \in Range(Q) : x < sent + 1
        /\ \A x \in InBuffer : x < sent + 1
    BY <2>4 DEF Sent
  <2> QED BY <1>1, <1>3, <2>1, <2>2, <2>5, <2>6, <2>7 DEF Line, Before
<1> QED BY <1>1, <1>4, <1>5, <1>6, <1>7 DEF IInv

-----------------------------------------------------------------------------
(* Every step                                                              *)

LEMMA StutterIInv ==
    ASSUME IInv, UNCHANGED vars PROVE IInv'
<1>1. UNCHANGED <<bridge, mpc, final, ready_, failed_, shutting_down_, socket_, opened, accepting, reads,
                  receive_buffer_, handlers, stopped, iopc, Q, finish, ppc, payload, peer, wire, sent,
                  delivered>>
  BY DEF vars, executor, flags, io, stream, packet, remote
<1>2. TypeOK' /\ Control' /\ NotifiedHasByte' /\ SocketGoneOnlyInClose'
  BY <1>1 DEF IInv, TypeOK, Control, NotifiedHasByte, SocketGoneOnlyInClose, Ended
<1>3. ASSUME ~bridge.sends PROVE OneOperation' /\ PeerKnown'
  BY <1>1, <1>3 DEF IInv, OneOperation, NoOperation, InHandler, PeerKnown
<1>4. ASSUME ~bridge.sends PROVE Line'
  <2>1. InHand' = InHand /\ InBuffer' = InBuffer
    BY <1>1 DEF InHand, InBuffer
  <2> QED BY <1>1, <1>4, <2>1, LineKept DEF IInv
<1> QED BY <1>1, <1>2, <1>3, <1>4 DEF IInv

LEMMA NextIInv == IInv /\ [Next]_vars => IInv'
<1> SUFFICES ASSUME IInv, [Next]_vars PROVE IInv'
  OBVIOUS
<1>1. CASE Quiet
  BY <1>1, QuietIInv
<1>2. CASE Open \/ Connect \/ CloseSockets \/ ShutdownStream
  BY <1>2, OpenIInv, ConnectIInv, CloseSocketsIInv, ShutdownStreamIInv
<1>3. CASE AcceptCompletes \/ ReadCompletes \/ ReadFails
  BY <1>3, AcceptCompletesIInv, ReadCompletesIInv, ReadFailsIInv
<1>4. CASE HandleAccept
  BY <1>4, HandleAcceptOkIInv, HandleAcceptErrorIInv DEF HandleAccept
<1>5. CASE AcceptUsesSocket \/ HandleRead \/ BeginRead \/ HandleReadError
  BY <1>5, AcceptUsesSocketIInv, HandleReadIInv, BeginReadIInv, HandleReadErrorIInv
<1>6. CASE PacketTakes \/ PacketDelivers \/ PeerSends
  BY <1>6, PacketTakesIInv, PacketDeliversIInv, PeerSendsIInv
<1>7. CASE UNCHANGED vars
  BY <1>7, StutterIInv
<1> QED BY <1>1, <1>2, <1>3, <1>4, <1>5, <1>6, <1>7
        DEF Next, ExecutorStep, IoStep, PacketStep, Quiet

-----------------------------------------------------------------------------
(* Theorems                                                                *)

LEMMA TcpInductive == Spec => []IInv
BY InitIInv, NextIInv, PTL DEF Spec

\* Inv of TcpInterface: a wait of the packet thread that is notified has a byte or a
\* finished stream; a handler finds the socket it has checked gone only while close() is
\* under way; and for a bridge that only receives ready_ means a socket with a peer,
\* failed_ a lost peer, however often the interface is closed and reopened.
THEOREM TcpInv == Spec => []Inv
<1>1. IInv => Inv
  <2> SUFFICES ASSUME IInv PROVE Inv
    OBVIOUS
  <2>1. ReadyHasSocket /\ FailedNeedsReinit
    BY DEF IInv, Control, PeerKnown, ReadyHasSocket, FailedNeedsReinit
  <2> QED BY <2>1 DEF IInv, Inv
<1> QED BY <1>1, TcpInductive, PTL

\* DeliveredInOrder of TcpInterface: what a bridge that only receives is given is in the
\* order sent and never twice, across any number of connections.
THEOREM TcpDeliveredInOrder == Spec => []DeliveredInOrder
<1>1. IInv => DeliveredInOrder
  BY DEF IInv, Line, Increasing, DeliveredInOrder
<1> QED BY <1>1, TcpInductive, PTL

\* NoCallbackAfterClose of TcpInterface: both threads are joined when close() returns, so
\* that neither the callback nor a flag is touched by them from then on.
THEOREM TcpNoCallbackAfterClose == Spec => NoCallbackAfterClose
<1>1. ASSUME IInv, [Next]_vars, mpc = "closed" PROVE UNCHANGED <<delivered, failed_, ready_>>
  <2>1. ppc = "done" /\ iopc = "done"
    BY <1>1 DEF IInv, Control
  <2>2. CASE UNCHANGED vars
    BY <2>2 DEF vars, flags
  <2>3. CASE ExecutorStep \/ OpenFails \/ CloseBegins \/ WriteFails
    BY <1>1, <2>3 DEF ExecutorStep, OpenFails, CloseBegins, WriteFails, Open, Connect, Start, CloseSockets,
                      ShutdownStream, JoinPacket, StopIo, JoinIo
  <2>4. CASE AcceptCompletes \/ IoStep
    BY <2>1, <2>4 DEF AcceptCompletes, IoStep, ReadCompletes, ReadFails, HandleAccept, AcceptUsesSocket,
                      HandleRead, StartReceive, BeginRead, HandleReadError, IoReturns, Handle, Running
  <2>5. CASE PacketStep \/ SpuriousWake
    BY <2>1, <2>5 DEF PacketStep, SpuriousWake, PacketChecks, PacketWaits, PacketGivesUp, PacketTakes, PacketDelivers
  <2>6. CASE PeerSends \/ PeerLeaves
    BY <2>6 DEF PeerSends, PeerLeaves, flags
  <2> QED BY <1>1, <2>2, <2>3, <2>4, <2>5, <2>6 DEF Next
<1>2. IInv /\ [Next]_vars => [mpc = "closed" => UNCHANGED <<delivered, failed_, ready_>>]_vars
  BY <1>1
<1> QED BY <1>2, TcpInductive, PTL DEF Spec, NoCallbackAfterClose
=============================================================================
