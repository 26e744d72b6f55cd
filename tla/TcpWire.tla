------------------------------ MODULE TcpWire ------------------------------
(***************************************************************************)
(* The bytes of a TCP connection: how TcpInterface::write() frames a       *)
(* message, how the packet thread finds it again in the byte queue         *)
(* (tcp_interface.cpp, thrift_stream.hpp), and how TcpReassembler does     *)
(* (transport/tcp_reassembler.hpp), fed with the same bytes.               *)
(*                                                                         *)
(* Scaled down: a byte is a digit below Base, a length has two of them.    *)
(* What a writer gives to the socket arrives in order, cut anywhere.       *)
(* Waiting, notification and close() are TcpInterface's.  LinkProofs       *)
(* reasons about this module and FrameLink, hence the names Wire...        *)
(***************************************************************************)
EXTENDS Naturals, Sequences

CONSTANTS Links,         \* records [peerLittle, hostLittle, writers, junk, frames]: byte
                         \* orders, the peer's threads that write, the bytes before its
                         \* first frame, how many frames it writes
          Payloads,      \* the messages, in the order they are written
          max_payload_,  \* the reassembler's limit
          Base, AB, CD,  \* the values of a byte, and the two start bytes
          MaxCuts        \* bound: connections lost

Bytes == 0 .. Base - 1

ASSUME WireAssumption ==
    /\ Base \in Nat \ {0} /\ AB \in Bytes /\ CD \in Bytes /\ AB # CD
    /\ \A l \in Links : l.junk \in Seq(Bytes) /\ l.writers \subseteq {"exec", "worker"}
                      /\ {l.peerLittle, l.hostLittle} \subseteq BOOLEAN /\ l.frames \in 1 .. Len(Payloads)
    /\ Payloads \in Seq(Seq(Bytes)) /\ \A n \in DOMAIN Payloads : Len(Payloads[n]) < Base
    /\ \A n, k \in DOMAIN Payloads : Payloads[n] = Payloads[k] => n = k
    /\ {max_payload_, MaxCuts} \subseteq Nat

VARIABLES
    link,
    sent, todo,     \* frames begun; per writer, what is left of its frame
    rx, Q,          \* the bytes of this connection; stream_
    p, r,           \* the packet thread's locals and recv_cb_'s calls; the reassembler
    earlier,        \* what recv_cb_ got from the connections before
    clean, cuts     \* no connection began with a marker that starts no frame

wireVars == <<link, sent, todo, rx, Q, p, r, earlier, clean, cuts>>

HasMarker(s) == \E i \in 1 .. Len(s) - 1 : s[i] = AB /\ s[i + 1] = CD

\* Both read the first byte as the high one.
BigEndian(b) == Base * b[1] + b[2]

\* htonl() swaps what readUint32 made of the bytes, on a little-endian host.
PacketLength(little, b) == IF little THEN b[1] + Base * b[2] ELSE BigEndian(b)

\* Test seeding: the length is written in network order.
WireFrameNetwork(little, d) == <<AB, CD, 0, Len(d)>> \o d

\* write(): marker, length in the order of the host, data.
WireFrame(little, d) == <<AB, CD>> \o (IF little THEN <<Len(d), 0>> ELSE <<0, Len(d)>>) \o d

NewPacket == [state |-> 0, bytes |-> << >>, payload_size |-> 0, out |-> << >>]
NewReassembler == [state |-> 0, bytes |-> << >>, payload_size |-> 0, out |-> << >>, resyncs |-> 0]

\* reset() keeps the counters.
Reset(x) == [NewReassembler EXCEPT !.out = x.out, !.resyncs = x.resyncs]

\* The start bytes, for both: a first start byte in place of the second may be the
\* real start.
StartByte(x, b) ==
    CASE x.state = 0 -> IF b = AB THEN 1 ELSE 0
      [] x.state = 1 -> CASE b = CD -> 2 [] b = AB -> 1 [] OTHER -> 0

Emit(x, d) == [x EXCEPT !.state = 0, !.bytes = << >>, !.payload_size = 0, !.out = Append(@, d)]

\* Test seeding: any other byte in place of the second start byte begins the search anew.
PacketByteNoStay(x, b) ==
    LET bytes == Append(x.bytes, b)
        size  == PacketLength(link.hostLittle, bytes)
    IN  CASE x.state = 0 -> [x EXCEPT !.state = IF b = AB THEN 1 ELSE 0]
          [] x.state = 1 -> [x EXCEPT !.state = IF b = CD THEN 2 ELSE 0]
          [] x.state = 2 /\ Len(bytes) < 2 -> [x EXCEPT !.bytes = bytes]
          [] x.state = 2 /\ Len(bytes) = 2 ->
                IF size = 0 THEN Emit(x, << >>)
                ELSE [x EXCEPT !.state = 3, !.bytes = << >>, !.payload_size = size]
          [] x.state = 3 -> IF Len(bytes) = x.payload_size THEN Emit(x, bytes)
                            ELSE [x EXCEPT !.bytes = bytes]

\* receive_thread, byte by byte; any length is waited for.
PacketByte(x, b) ==
    LET bytes == Append(x.bytes, b)
        size  == PacketLength(link.hostLittle, bytes)
    IN  CASE x.state \in {0, 1} -> [x EXCEPT !.state = StartByte(x, b)]
          [] x.state = 2 /\ Len(bytes) < 2 -> [x EXCEPT !.bytes = bytes]
          [] x.state = 2 /\ Len(bytes) = 2 ->
                IF size = 0 THEN Emit(x, << >>)
                ELSE [x EXCEPT !.state = 3, !.bytes = << >>, !.payload_size = size]
          [] x.state = 3 -> IF Len(bytes) = x.payload_size THEN Emit(x, bytes)
                            ELSE [x EXCEPT !.bytes = bytes]

Impossible(n) == n > max_payload_

\* feed_byte: an impossible length is dropped, without reserving anything.
FeedByte(x, b) ==
    LET bytes == Append(x.bytes, b)
        size  == BigEndian(bytes)
    IN  CASE x.state = 0 -> [x EXCEPT !.state = StartByte(x, b)]
          [] x.state = 1 -> [x EXCEPT !.state = StartByte(x, b),
                                      !.resyncs = IF b \in {AB, CD} THEN @ ELSE @ + 1]
          [] x.state = 2 /\ Len(bytes) < 2 -> [x EXCEPT !.bytes = bytes]
          [] x.state = 2 /\ Len(bytes) = 2 ->
                CASE Impossible(size) -> [x EXCEPT !.state = 0, !.bytes = << >>,
                                                   !.payload_size = 0, !.resyncs = @ + 1]
                  [] size = 0 -> Emit(x, << >>)
                  [] OTHER -> [x EXCEPT !.state = 3, !.bytes = << >>, !.payload_size = size]
          [] x.state = 3 -> IF Len(bytes) = x.payload_size THEN Emit(x, bytes)
                            ELSE [x EXCEPT !.bytes = bytes]

\* feed.
Feed(x, chunk) ==
    LET fed[i \in 0 .. Len(chunk)] == IF i = 0 THEN x ELSE FeedByte(fed[i - 1], chunk[i])
    IN  fed[Len(chunk)]

WireInit ==
    /\ link \in Links
    /\ sent = << >> /\ todo = [t \in link.writers |-> << >>]
    /\ rx = link.junk /\ Q = link.junk
    /\ p = NewPacket /\ r = Feed(NewReassembler, link.junk)
    /\ earlier = << >> /\ clean = ~HasMarker(link.junk) /\ cuts = 0

-----------------------------------------------------------------------------
\* A thread enters write().
WriteBegins(t) ==
    /\ todo[t] = << >> /\ Len(sent) < link.frames
    /\ LET d == Payloads[Len(sent) + 1]
       IN  sent' = Append(sent, d) /\ todo' = [todo EXCEPT ![t] = WireFrame(link.peerLittle, d)]
    /\ UNCHANGED <<link, rx, Q, p, r, earlier, clean, cuts>>

\* Some of its bytes are written and arrive: pushBytes(), and feed().
WriteSome(t) ==
    \E k \in 1 .. Len(todo[t]) :
        LET chunk == SubSeq(todo[t], 1, k)
        IN  /\ todo' = [todo EXCEPT ![t] = SubSeq(@, k + 1, Len(@))]
            /\ rx' = rx \o chunk /\ Q' = Q \o chunk
            /\ r' = Feed(r, chunk)
            /\ UNCHANGED <<link, sent, p, earlier, clean, cuts>>

\* Test seeding: a single byte in the queue is waited past.
PacketReadsAhead ==
    /\ Len(Q) > 1
    /\ Q' = Tail(Q) /\ p' = PacketByte(p, Head(Q))
    /\ UNCHANGED <<link, sent, todo, rx, r, earlier, clean, cuts>>

\* The packet thread takes a byte.
PacketReads ==
    /\ Q # << >>
    /\ Q' = Tail(Q) /\ p' = PacketByte(p, Head(Q))
    /\ UNCHANGED <<link, sent, todo, rx, r, earlier, clean, cuts>>

\* The connection is lost and another made.  A write that fails gives its frame up;
\* the fault engine's worker, between two of its three writes, may find the new
\* socket in socket_ and go on there.
Reconnect ==
    /\ cuts < MaxCuts /\ cuts' = cuts + 1
    /\ \E left \in {todo, [t \in DOMAIN todo |-> << >>]} :
           LET after == [left EXCEPT !["exec"] = << >>]
           IN  todo' = IF "exec" \in DOMAIN todo THEN after ELSE left
    /\ rx' = << >> /\ Q' = << >> /\ p' = NewPacket /\ r' = Reset(r)
    /\ earlier' = earlier \o p.out
    /\ clean' = (clean /\ \A t \in DOMAIN todo : ~HasMarker(todo'[t]))
    /\ UNCHANGED <<link, sent>>

WireNext ==
    \/ \E t \in link.writers : WriteBegins(t) \/ WriteSome(t)
    \/ PacketReads \/ Reconnect

WireSpec == WireInit /\ [][WireNext]_wireVars

\* A write blocks only while the peer's buffer is full, and the packet thread runs.
WireFairSpec == /\ WireSpec /\ WF_wireVars(PacketReads)
                /\ \A t \in {"exec", "worker"} : WF_wireVars(t \in link.writers /\ WriteSome(t))

-----------------------------------------------------------------------------
(* Properties                                                              *)

\* Types of the two parsers; the reassembler never holds more than its limit.
WireTypeOK ==
    /\ {p.state, r.state} \subseteq 0 .. 3
    /\ p.payload_size \in 0 .. Base * Base - 1 /\ r.payload_size \in 0 .. max_payload_
    /\ r.state = 3 => Len(r.bytes) < r.payload_size
    /\ p.state = 3 => Len(p.bytes) < p.payload_size

\* The complete headers in s from place i on, and the first of them.
Marks(s, i) == {m \in i .. Len(s) - 3 : s[m] = AB /\ s[m + 1] = CD}
FirstMark(s, i) == CHOOSE x \in Marks(s, i) : \A y \in Marks(s, i) : x <= y

SizeAt(s, m, little) ==
    IF little THEN s[m + 2] + Base * s[m + 3] ELSE Base * s[m + 2] + s[m + 3]

\* The frames in s from each place on: the first marker counts, a length above limit
\* is skipped and an unfinished frame ends the search.
FramesFrom(s, little, limit) ==
    LET from[i \in 1 .. Len(s) + 1] ==
            LET m    == FirstMark(s, i)
                size == SizeAt(s, m, little)
            IN  IF Marks(s, i) = {} THEN << >>
                ELSE IF size > limit THEN from[m + 4]
                ELSE IF m + 3 + size > Len(s) THEN << >>
                ELSE <<SubSeq(s, m + 4, m + 3 + size)>> \o from[m + 4 + size]
    IN  from

Reference(s, little, limit) == FramesFrom(s, little, limit)[1]

\* The packet thread's state machine finds exactly the frames in the bytes it has read,
\* whatever they are: it misses no start after a false one.
PacketParses ==
    p.out = Reference(SubSeq(rx, 1, Len(rx) - Len(Q)), link.hostLittle, Base * Base)

\* So does the reassembler in the bytes it was fed, in the order its header states and
\* with the frames of impossible length left out, however the bytes were cut up and
\* whatever an earlier connection left behind.
ReassemblerParses ==
    LET now == Reference(rx, FALSE, max_payload_)
        old == Len(r.out) - Len(now)
    IN  /\ old >= 0 /\ now = SubSeq(r.out, old + 1, Len(r.out))
        /\ cuts = 0 => old = 0

\* One thread writes, both hosts have the same byte order, and no connection began with
\* the marker of something that is no frame.
WireOrderly ==
    clean /\ link.peerLittle = link.hostLittle /\ \E t \in DOMAIN todo : link.writers = {t}

\* Then what the bridge is given are messages that were sent, in their order and once
\* each, over lost connections too; and on the first connection the first ones.
DeliversWhatWasSent ==
    WireOrderly =>
        LET got == earlier \o p.out
        IN  /\ \A i \in DOMAIN got : \E n \in DOMAIN sent : got[i] = sent[n]
            /\ \A i, j \in DOMAIN got, n, k \in DOMAIN sent :
                   i < j /\ got[i] = sent[n] /\ got[j] = sent[k] => n < k
            /\ cuts = 0 => Len(got) <= Len(sent) /\ got = SubSeq(sent, 1, Len(got))

\* Then every message sent reaches the bridge, unless the connection is lost.
EveryFrameArrives ==
    \A n \in DOMAIN Payloads :
        (Len(sent) >= n /\ WireOrderly /\ cuts = 0) ~> (Len(p.out) >= n \/ cuts > 0)

\* Both parsers read every byte stream as the reference does, within their limits.
ParsesAsReference == WireTypeOK /\ PacketParses /\ ReassemblerParses
=============================================================================
