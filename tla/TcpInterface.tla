---------------------------- MODULE TcpInterface ----------------------------
(***************************************************************************)
(* The TCP network interface (network_interfaces/tcp_interface.cpp) and    *)
(* the byte queue between its threads (thrift_stream_queue.hpp).           *)
(*                                                                         *)
(* Three threads: the executor, which runs open(), close() and write();    *)
(* the io thread, which runs the handlers of io_context_; the packet       *)
(* thread, which takes bytes from stream_ and calls the bridge.  A step is *)
(* a critical section of the queue's mutex, one handler, or the code       *)
(* between two points where a thread waits.                                *)
(*                                                                         *)
(* A unit of the byte stream is one whole message of the inline framing;   *)
(* the framing itself is not modelled here.  wait() may return without     *)
(* having been notified.  A step the language gives no meaning to, and an  *)
(* exception nobody catches, ends the process.                             *)
(***************************************************************************)
EXTENDS Naturals, Sequences

CONSTANTS Bridges,   \* configurations: records [role, sends], sends iff write() is called
          MaxConns,  \* bound: times the interface is opened
          MaxMsgs    \* bound: messages the peer sends in all

ASSUME TcpAssumption ==
    /\ Bridges \subseteq [role : {"server", "client"}, sends : BOOLEAN]
    /\ MaxConns \in Nat \ {0} /\ MaxMsgs \in Nat

VARIABLES
    bridge,                         \* the configuration
    mpc, final,                     \* executor: next step; the close() is the last
    ready_, failed_, shutting_down_,
    socket_,                        \* the open socket, 0 for none; sockets are numbered
    opened,                         \* sockets opened so far
    accepting,                      \* async_accept is pending
    reads,                          \* async_read_some calls pending on socket_
    receive_buffer_,                \* the message last read from a socket
    handlers,                       \* io_context_: completed operations, in order
    stopped,                        \* io_context_ has been stopped
    iopc,                           \* io thread: waiting in run(), in a handler, or done
    Q, finish,                      \* stream_
    ppc, payload,                   \* packet thread: next step, message in hand
    peer, wire, sent,               \* peer of socket_: "none", "up", "gone"; bytes under way
    delivered                       \* messages recv_cb_ was called with

flags    == <<ready_, failed_, shutting_down_>>
io       == <<accepting, reads, receive_buffer_, handlers>>
stream   == <<Q, finish>>
packet   == <<ppc, payload>>
remote   == <<peer, wire, sent>>
executor == <<mpc, final>>
vars == <<bridge, executor, flags, socket_, opened, io, stopped, iopc, stream, packet, remote, delivered>>

Init ==
    /\ bridge \in Bridges
    /\ mpc = "open" /\ final = FALSE
    /\ ready_ = FALSE /\ failed_ = FALSE /\ shutting_down_ = FALSE
    /\ socket_ = 0 /\ opened = 0
    /\ accepting = FALSE /\ reads = 0 /\ receive_buffer_ = 0 /\ handlers = << >>
    /\ stopped = FALSE /\ iopc = "done"
    /\ Q = << >> /\ finish = FALSE
    /\ ppc = "done" /\ payload = 0
    /\ peer = "none" /\ wire = << >> /\ sent = 0 /\ delivered = << >>

\* The process is over: exit(1) or an exception nobody catches; the front taken of an
\* empty queue; the socket used when close() has just reset it.
Ended == {"exited", "emptyFront", "nullSocket"}

\* The packet thread's wait() is notified.
Notified == IF ppc = "wait" THEN "woken" ELSE ppc

-----------------------------------------------------------------------------
(* Executor: open()                                                        *)

\* Test seeding: the failure is left over from the connection before.
OpenKeepsFailed ==
    /\ mpc = "open" /\ opened < MaxConns
    /\ shutting_down_' = FALSE /\ ready_' = FALSE
    /\ Q' = << >> /\ finish' = FALSE
    /\ stopped' = FALSE
    /\ opened' = opened + 1 /\ socket_' = opened + 1
    /\ peer' = "none" /\ wire' = << >>
    /\ accepting' = (bridge.role = "server")
    /\ mpc' = IF bridge.role = "server" THEN "start" ELSE "connect"
    /\ UNCHANGED <<bridge, final, failed_, reads, receive_buffer_, handlers, iopc, packet, sent, delivered>>

\* Flags, stream_ and io_context_ are reset and the role's set-up is begun.
Open ==
    /\ mpc = "open" /\ opened < MaxConns
    /\ shutting_down_' = FALSE /\ failed_' = FALSE /\ ready_' = FALSE
    /\ Q' = << >> /\ finish' = FALSE
    /\ stopped' = FALSE
    /\ opened' = opened + 1 /\ socket_' = opened + 1
    /\ peer' = "none" /\ wire' = << >>
    /\ accepting' = (bridge.role = "server")
    /\ mpc' = IF bridge.role = "server" THEN "start" ELSE "connect"
    /\ UNCHANGED <<bridge, final, reads, receive_buffer_, handlers, iopc, packet, sent, delivered>>

\* A set-up error of the server is fatal: exit(1).
OpenFails ==
    /\ mpc = "open" /\ bridge.role = "server"
    /\ mpc' = "exited"
    /\ UNCHANGED <<bridge, final, flags, socket_, opened, io, stopped, iopc, stream, packet, remote, delivered>>

\* setup_client tries until it is connected.
Connect ==
    /\ mpc = "connect"
    /\ ready_' = TRUE /\ peer' = "up"
    /\ reads' = reads + 1
    /\ mpc' = "start"
    /\ UNCHANGED <<bridge, final, failed_, shutting_down_, socket_, opened, accepting, receive_buffer_,
                   handlers, stopped, iopc, stream, packet, wire, sent, delivered>>

\* The two threads are started.
Start ==
    /\ mpc = "start"
    /\ iopc' = "run" /\ ppc' = "check"
    /\ mpc' = "up"
    /\ UNCHANGED <<bridge, final, flags, socket_, opened, io, stopped, stream, payload, remote, delivered>>

-----------------------------------------------------------------------------
(* Executor: close(), write()                                              *)

\* check_network_health closes and reopens an interface that has failed; the
\* bridge's shutdown() closes it for good.
CloseBegins ==
    /\ mpc = "up"
    /\ \/ failed_ /\ final' = FALSE
       \/ final' = TRUE
    /\ shutting_down_' = TRUE
    /\ mpc' = "closeSockets"
    /\ UNCHANGED <<bridge, ready_, failed_, socket_, opened, io, stopped, iopc, stream, packet, remote, delivered>>

\* Closing a socket or an acceptor completes its operations with an error.
CloseSockets ==
    /\ mpc = "closeSockets"
    /\ handlers' = handlers
         \o (IF accepting THEN <<[op |-> "accept", ok |-> FALSE]>> ELSE << >>)
         \o [i \in 1 .. reads |-> [op |-> "read", ok |-> FALSE]]
    /\ accepting' = FALSE /\ reads' = 0
    /\ socket_' = 0 /\ peer' = "none"
    /\ mpc' = "shutdownStream"
    /\ UNCHANGED <<bridge, final, flags, opened, receive_buffer_, stopped, iopc, stream, packet,
                   wire, sent, delivered>>

\* stream_.shutdown().
ShutdownStream ==
    /\ mpc = "shutdownStream"
    /\ finish' = TRUE /\ Q' = << >> /\ ppc' = Notified
    /\ mpc' = "joinPacket"
    /\ UNCHANGED <<bridge, final, flags, socket_, opened, io, stopped, iopc, payload, remote, delivered>>

\* Test seeding: the packet thread is left to end by itself.
PacketNotJoined ==
    /\ mpc = "joinPacket"
    /\ mpc' = "stopIo"
    /\ UNCHANGED <<bridge, final, flags, socket_, opened, io, stopped, iopc, stream, packet, remote, delivered>>

JoinPacket ==
    /\ mpc = "joinPacket" /\ ppc = "done"
    /\ mpc' = "stopIo"
    /\ UNCHANGED <<bridge, final, flags, socket_, opened, io, stopped, iopc, stream, packet, remote, delivered>>

StopIo ==
    /\ mpc = "stopIo"
    /\ stopped' = TRUE
    /\ mpc' = "joinIo"
    /\ UNCHANGED <<bridge, final, flags, socket_, opened, io, iopc, stream, packet, remote, delivered>>

\* close() returns; handlers that have not run stay with io_context_.
JoinIo ==
    /\ mpc = "joinIo" /\ iopc = "done"
    /\ mpc' = IF final THEN "closed" ELSE "open"
    /\ UNCHANGED <<bridge, final, flags, socket_, opened, io, stopped, iopc, stream, packet, remote, delivered>>

\* write() fails on a connection the peer has left.
WriteFails ==
    /\ mpc = "up" /\ bridge.sends /\ ready_ /\ ~failed_ /\ peer = "gone"
    /\ failed_' = TRUE
    /\ UNCHANGED <<bridge, executor, ready_, shutting_down_, socket_, opened, io, stopped, iopc,
                   stream, packet, remote, delivered>>

-----------------------------------------------------------------------------
(* io thread                                                               *)

Running == iopc = "run" /\ ~stopped /\ mpc \notin Ended

\* A peer connects.
AcceptCompletes ==
    /\ Running /\ accepting
    /\ accepting' = FALSE /\ peer' = "up"
    /\ handlers' = Append(handlers, [op |-> "accept", ok |-> TRUE])
    /\ UNCHANGED <<bridge, executor, flags, socket_, opened, reads, receive_buffer_, stopped, iopc,
                   stream, packet, wire, sent, delivered>>

\* Bytes arrive in the buffer, which every read of the interface shares.
ReadCompletes ==
    /\ Running /\ reads > 0 /\ wire # << >>
    /\ receive_buffer_' = Head(wire) /\ wire' = Tail(wire)
    /\ reads' = reads - 1
    /\ handlers' = Append(handlers, [op |-> "read", ok |-> TRUE])
    /\ UNCHANGED <<bridge, executor, flags, socket_, opened, accepting, stopped, iopc, stream, packet,
                   peer, sent, delivered>>

\* The peer is gone.
ReadFails ==
    /\ Running /\ reads > 0 /\ peer = "gone"
    /\ reads' = reads - 1
    /\ handlers' = Append(handlers, [op |-> "read", ok |-> FALSE])
    /\ UNCHANGED <<bridge, executor, flags, socket_, opened, accepting, receive_buffer_, stopped, iopc,
                   stream, packet, remote, delivered>>

Handle(op, ok) ==
    /\ Running /\ handlers # << >> /\ Head(handlers) = [op |-> op, ok |-> ok]
    /\ handlers' = Tail(handlers)

\* setup_server's handler; an error is fatal unless the interface is closing.
HandleAccept ==
    \/ /\ Handle("accept", TRUE)
       /\ iopc' = IF shutting_down_ THEN "run" ELSE "accepted"
       /\ UNCHANGED <<bridge, executor, flags, socket_, opened, accepting, reads, receive_buffer_,
                      stopped, stream, packet, remote, delivered>>
    \/ /\ Handle("accept", FALSE)
       /\ mpc' = IF shutting_down_ THEN mpc ELSE "exited"
       /\ UNCHANGED <<bridge, final, flags, socket_, opened, accepting, reads, receive_buffer_, stopped,
                      iopc, stream, packet, remote, delivered>>

\* The handler goes on: it asks the socket for its peer, which throws when the peer has
\* reset the connection, and calls start_receive.  close() may have come in between.
AcceptUsesSocket ==
    /\ iopc = "accepted" /\ mpc \notin Ended
    /\ \/ socket_ # 0 /\ ready_' = TRUE /\ iopc' = "receive" /\ UNCHANGED mpc
       \/ socket_ # 0 /\ peer = "gone" /\ mpc' = "exited" /\ UNCHANGED <<ready_, iopc>>
       \/ socket_ = 0 /\ mpc' = "nullSocket" /\ UNCHANGED <<ready_, iopc>>
    /\ UNCHANGED <<bridge, final, failed_, shutting_down_, socket_, opened, io, stopped, stream, packet,
                   remote, delivered>>

\* receive(): the buffer goes into the queue and start_receive is called.
HandleRead ==
    /\ Handle("read", TRUE)
    /\ Q' = Append(Q, receive_buffer_) /\ ppc' = Notified
    /\ iopc' = "receive"
    /\ UNCHANGED <<bridge, executor, flags, socket_, opened, accepting, reads, receive_buffer_, stopped,
                   finish, payload, remote, delivered>>

\* start_receive: is there a socket?
StartReceive ==
    /\ iopc = "receive" /\ mpc \notin Ended
    /\ iopc' = IF socket_ = 0 THEN "run" ELSE "begin"
    /\ UNCHANGED <<bridge, executor, flags, socket_, opened, io, stopped, stream, packet, remote, delivered>>

\* Test seeding: a second read is begun for every message.
BeginReadTwice ==
    /\ iopc = "begin" /\ mpc \notin Ended
    /\ \/ socket_ # 0 /\ reads' = reads + 2 /\ iopc' = "run" /\ UNCHANGED mpc
       \/ socket_ = 0 /\ mpc' = "nullSocket" /\ UNCHANGED <<reads, iopc>>
    /\ UNCHANGED <<bridge, final, flags, socket_, opened, accepting, receive_buffer_, handlers, stopped,
                   stream, packet, remote, delivered>>

\* The read is begun, unless close() has reset the socket since.
BeginRead ==
    /\ iopc = "begin" /\ mpc \notin Ended
    /\ \/ socket_ # 0 /\ reads' = reads + 1 /\ iopc' = "run" /\ UNCHANGED mpc
       \/ socket_ = 0 /\ mpc' = "nullSocket" /\ UNCHANGED <<reads, iopc>>
    /\ UNCHANGED <<bridge, final, flags, socket_, opened, accepting, receive_buffer_, handlers, stopped,
                   stream, packet, remote, delivered>>

\* Test seeding: a failed read only logs.
ReadErrorIgnored ==
    /\ Handle("read", FALSE)
    /\ UNCHANGED <<bridge, executor, flags, socket_, opened, accepting, reads, receive_buffer_,
                   stopped, iopc, stream, packet, remote, delivered>>

\* receive() with an error.
HandleReadError ==
    /\ Handle("read", FALSE)
    /\ failed_' = TRUE
    /\ UNCHANGED <<bridge, executor, ready_, shutting_down_, socket_, opened, accepting, reads,
                   receive_buffer_, stopped, iopc, stream, packet, remote, delivered>>

\* run() returns when it is stopped or has nothing left to wait for.
IoReturns ==
    /\ iopc = "run" /\ mpc \notin Ended
    /\ stopped \/ (~accepting /\ reads = 0 /\ handlers = << >>)
    /\ iopc' = "done"
    /\ UNCHANGED <<bridge, executor, flags, socket_, opened, io, stopped, stream, packet, remote, delivered>>

-----------------------------------------------------------------------------
(* Packet thread: receive_thread()                                         *)

\* while (!stream_.is_shutdown()).
PacketChecks ==
    /\ ppc = "check" /\ mpc \notin Ended
    /\ ppc' = IF finish THEN "done" ELSE "lock"
    /\ UNCHANGED <<bridge, executor, flags, socket_, opened, io, stopped, iopc, stream, payload, remote, delivered>>

\* readBytes finds the queue empty and waits; it does not look at finish first.
PacketWaits ==
    /\ ppc = "lock" /\ Q = << >> /\ mpc \notin Ended
    /\ ppc' = "wait"
    /\ UNCHANGED <<bridge, executor, flags, socket_, opened, io, stopped, iopc, stream, payload, remote, delivered>>

\* The wait returns without a notification.
SpuriousWake ==
    /\ ppc = "wait" /\ mpc \notin Ended
    /\ ppc' = "unnotified"
    /\ UNCHANGED <<bridge, executor, flags, socket_, opened, io, stopped, iopc, stream, payload, remote, delivered>>

\* After the wait: a finished stream ends the read.
PacketGivesUp ==
    /\ ppc \in {"woken", "unnotified"} /\ finish /\ mpc \notin Ended
    /\ ppc' = "check"
    /\ UNCHANGED <<bridge, executor, flags, socket_, opened, io, stopped, iopc, stream, payload, remote, delivered>>

\* The front is taken; readBytes does not look at the queue again after the wait.
PacketTakes ==
    /\ mpc \notin Ended
    /\ \/ ppc = "lock" /\ Q # << >>
       \/ ppc \in {"woken", "unnotified"} /\ ~finish
    /\ IF Q = << >>
       THEN mpc' = "emptyFront" /\ UNCHANGED <<packet, Q>>
       ELSE payload' = Head(Q) /\ Q' = Tail(Q) /\ ppc' = "deliver" /\ UNCHANGED mpc
    /\ UNCHANGED <<bridge, final, flags, socket_, opened, io, stopped, iopc, finish, remote, delivered>>

\* recv_cb_.
PacketDelivers ==
    /\ ppc = "deliver" /\ mpc \notin Ended
    /\ delivered' = Append(delivered, payload)
    /\ ppc' = "check"
    /\ UNCHANGED <<bridge, executor, flags, socket_, opened, io, stopped, iopc, stream, payload, remote>>

-----------------------------------------------------------------------------
(* The peer                                                                *)

PeerSends ==
    /\ peer = "up" /\ sent < MaxMsgs
    /\ sent' = sent + 1 /\ wire' = Append(wire, sent + 1)
    /\ UNCHANGED <<bridge, executor, flags, socket_, opened, io, stopped, iopc, stream, packet, peer, delivered>>

PeerLeaves ==
    /\ peer = "up"
    /\ peer' = "gone"
    /\ UNCHANGED <<bridge, executor, flags, socket_, opened, io, stopped, iopc, stream, packet, wire, sent, delivered>>

-----------------------------------------------------------------------------
ExecutorStep ==
    \/ Open \/ Connect \/ Start \/ CloseSockets \/ ShutdownStream
    \/ JoinPacket \/ StopIo \/ JoinIo

IoStep == \/ ReadCompletes \/ ReadFails \/ HandleAccept \/ AcceptUsesSocket \/ HandleRead
          \/ StartReceive \/ BeginRead \/ HandleReadError \/ IoReturns

PacketStep == PacketChecks \/ PacketWaits \/ PacketGivesUp \/ PacketTakes \/ PacketDelivers

Next == \/ ExecutorStep \/ OpenFails \/ CloseBegins \/ WriteFails
        \/ AcceptCompletes \/ IoStep \/ PacketStep \/ SpuriousWake \/ PeerSends \/ PeerLeaves

Spec == Init /\ [][Next]_vars

\* Each thread that can take a step takes it in the end.  Nothing obliges a
\* peer to connect, to send or to leave, or a wait to return unnotified.
FairSpec == Spec /\ WF_vars(ExecutorStep) /\ WF_vars(IoStep) /\ WF_vars(PacketStep)

-----------------------------------------------------------------------------
(* Properties                                                              *)

Msgs == 1 .. MaxMsgs

\* Types; no read is pending without a socket.
TypeOK ==
    /\ bridge \in Bridges
    /\ mpc \in {"open", "connect", "start", "up", "closeSockets", "shutdownStream",
                "joinPacket", "stopIo", "joinIo", "closed"} \cup Ended
    /\ final \in BOOLEAN /\ ready_ \in BOOLEAN /\ failed_ \in BOOLEAN /\ shutting_down_ \in BOOLEAN
    /\ accepting \in BOOLEAN /\ stopped \in BOOLEAN /\ finish \in BOOLEAN
    /\ opened \in 0 .. MaxConns /\ socket_ \in {0, opened}
    /\ reads \in Nat /\ (socket_ = 0 => reads = 0)
    /\ handlers \in Seq([op : {"accept", "read"}, ok : BOOLEAN])
    /\ iopc \in {"run", "accepted", "receive", "begin", "done"}
    /\ ppc \in {"check", "lock", "wait", "woken", "unnotified", "deliver", "done"}
    /\ peer \in {"none", "up", "gone"} /\ sent \in 0 .. MaxMsgs
    /\ receive_buffer_ \in 0 .. MaxMsgs /\ payload \in 0 .. MaxMsgs
    /\ Q \in Seq(Msgs) /\ wire \in Seq(Msgs) /\ delivered \in Seq(Msgs)

\* A wait() of readBytes that ends because it was notified finds a byte or a finished
\* stream, whatever shutdown() and reset() did: an empty queue is read only after a
\* wake-up that nobody sent.
NotifiedHasByte == ppc = "woken" /\ ~finish => Q # << >>

\* A handler of the io thread finds the socket gone between its check and its use only
\* while close() is under way.
SocketGoneOnlyInClose ==
    (iopc \in {"accepted", "begin"} /\ socket_ = 0) \/ mpc = "nullSocket" => shutting_down_

\* After close() has returned the bridge's callback is not called any more, so the
\* bridge may destroy what receive_data uses.
NoCallbackAfterClose == [][mpc = "closed" => UNCHANGED <<delivered, failed_, ready_>>]_vars

\* A bridge that only receives: an interface that is_ready() and has not failed has
\* a connected socket.  (A write that fails leaves a read pending, whose handler
\* can outlive the connection and fail the next one.)
ReadyHasSocket == ~bridge.sends /\ mpc = "up" /\ ready_ /\ ~failed_ => socket_ # 0 /\ peer # "none"

\* A bridge that only receives: messages reach receive_data in the order they were
\* sent, none of them twice, across any number of failures and reconnections.
DeliveredInOrder ==
    ~bridge.sends =>
    \A i, j \in DOMAIN delivered : i < j => delivered[i] < delivered[j]

\* A connection the peer has left is noticed: failed_ is raised, or the interface
\* is closed first.
FailureNoticed == (mpc = "up" /\ ready_ /\ peer = "gone") ~> (failed_ \/ mpc # "up")

\* What NetworkInterface says of close(): "Cleanly stop threads, close sockets,
\* etc."  A close() that has begun returns.
CloseReturns == mpc = "closeSockets" ~> mpc \in {"open", "closed"} \cup Ended

\* What TcpReassembler says of the code it replaces, that the state machine "read from a
\* blocking QueueStream": a read blocks until there is a byte, and never takes one from
\* an empty queue.
ReadBlocks == mpc # "emptyFront"

\* What NetworkInterface says of has_failed(), "return true if the connection needs to
\* be reinitialised", for a bridge that only receives: an open connection has failed only
\* when its peer has left, so that the health timer never closes a healthy one.
FailedNeedsReinit == ~bridge.sends /\ mpc = "up" /\ failed_ => peer = "gone"

\* The flags, the socket and the queue agree whenever one thread relies on what another
\* has set: a notified wait has a byte, ready_ a socket, failed_ a lost peer, and a socket
\* that was there is there still unless close() takes it.
Inv == TypeOK /\ NotifiedHasByte /\ SocketGoneOnlyInClose /\ ReadyHasSocket /\ FailedNeedsReinit
=============================================================================
