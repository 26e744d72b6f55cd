------------------------------- MODULE Bridge -------------------------------
(***************************************************************************)
(* The bridge node (src/network_bridge.cpp) with a subscription manager    *)
(* (subscription_manager.cpp, or subscription_manager_tf.cpp for a TF      *)
(* topic), a network interface (udp_interface.cpp, or one that has to be   *)
(* connected), the replay log and the fault engine with a delay rule.      *)
(*                                                                         *)
(* main runs rclcpp::spin, so subscription callbacks, the send timer and   *)
(* the health timer are whole steps of one thread, and so is shutdown()    *)
(* after it.  The io thread runs receive_data; the engine's worker writes  *)
(* delayed frames.  SpscRing, FrameLink, FaultEngine, TcpInterface and Wal *)
(* have the parts in detail.                                               *)
(***************************************************************************)
EXTENDS Naturals, Sequences, SequencesExt

CONSTANTS Configs,     \* the node's parameters and, per configuration, the bounds msgs,
                       \* arrivals and fails on messages, datagrams and lost connections
          Capacity,    \* of the ring
          TfFrames,    \* coordinate frames
          TfMessages,  \* sequences of pairs <<frame_id, child_frame_id>>
          MaxResends,  \* bound: frames sent beyond the messages heard
          Datagrams    \* inner messages that arrive: sequences of numbers, 0 is '\0'

Damaged == << >>       \* a datagram that fails a check of the frame or zstd
Edges   == TfFrames \X TfFrames

ASSUME BridgeAssumption ==
    /\ Configs \subseteq [net : {"udp", "conn"}, stale : BOOLEAN, tf : BOOLEAN, wal : BOOLEAN,
                          delay : BOOLEAN, include : SUBSET TfFrames, exclude : SUBSET TfFrames,
                          msgs : Nat, arrivals : Nat, fails : Nat]
    /\ Capacity \in Nat \ {0} /\ MaxResends \in Nat
    /\ TfMessages \subseteq Seq(Edges) /\ Datagrams \subseteq Seq(Nat)

VARIABLES
    config,
    mpc,             \* main: "init", "spin", then the steps of shutdown(); or "stuck" in
                     \* close(), or "terminated" with the whole process
    advertised,      \* the topic has a publisher
    mgr,             \* the subscription manager
    heard, known,    \* messages so far; history: latest message per transform
    net,             \* network_interface_: record [alive, ready, failed, fails]
    window,          \* of the delay rule: "before", "open", "after"
    tx_sequence_, wal, wire,
    unlogged,        \* sequence numbers for which append() returned false
    delayed, worker, \* the fault engine: queue; frames its worker has in hand
    lost,            \* frames that failed between the ring and the wire, and were reported
    vanished,        \* frames dropped without a word, and counted as forwarded
    io,              \* io thread: record [pc, armed, deaf, stopped, data, arrivals]
    publishers_,     \* topic -> the type its publisher was made with
    inners,          \* history: the inner messages received
    shown            \* what receive_data did last: record [inner, result]

tx   == <<window, tx_sequence_, wal, wire, unlogged, delayed, worker, lost, vanished>>
rx   == <<io, publishers_, inners, shown>>
hist == <<heard, known>>
vars == <<config, mpc, advertised, mgr, hist, net, tx, rx>>

NoFrame == [n |-> 0, data |-> << >>]
Nothing == [topic |-> << >>, type |-> << >>, payload |-> << >>]
NewManager ==
    [subscriber |-> FALSE, received_msg_ |-> FALSE, ring |-> << >>, current_frame_ |-> NoFrame,
     captured |-> 0, enqueued |-> 0, dropped |-> {}, tf_id_ |-> [id \in Edges |-> 0],
     tfs_ |-> << >>]

Init ==
    /\ config \in Configs
    /\ mpc = "init" /\ advertised \in BOOLEAN
    /\ mgr = NewManager /\ heard = 0 /\ known = [id \in Edges |-> 0]
    /\ net = [alive |-> FALSE, ready |-> FALSE, failed |-> FALSE, fails |-> 0]
    /\ window = "before" /\ tx_sequence_ = 0 /\ wal = << >> /\ wire = << >> /\ unlogged = {}
    /\ delayed = << >> /\ worker = << >> /\ lost = {} /\ vanished = {}
    /\ io = [pc |-> "off", armed |-> FALSE, deaf |-> FALSE, stopped |-> FALSE, data |-> Damaged,
             arrivals |-> 0]
    /\ publishers_ = << >> /\ inners = << >> /\ shown = [inner |-> Damaged, result |-> Nothing]

-----------------------------------------------------------------------------
(* Subscription manager                                                    *)

\* check_subscription: without a subscriber the graph is asked for a publisher.
Checked(m) == [m EXCEPT !.subscriber = @ \/ advertised]

\* callback: the frame is numbered and pushed; the bridge's policy drops the newest.
Captured(m, data) ==
    LET full == Len(m.ring) = Capacity
    IN  [m EXCEPT !.received_msg_ = TRUE, !.captured = @ + 1,
                  !.ring = IF full THEN @ ELSE Append(@, [n |-> m.captured + 1, data |-> data]),
                  !.enqueued = IF full THEN @ ELSE @ + 1,
                  !.dropped = IF full THEN @ \cup {m.captured + 1} ELSE @]

\* has_data.
HasData(m) == m.received_msg_ /\ (m.ring # << >> \/ config.stale)

\* Test seeding: the newest frame is taken first.
GotNewest(m) ==
    IF m.ring = << >> THEN m
    ELSE [m EXCEPT !.current_frame_ = Last(m.ring), !.ring = Front(m.ring)]

\* get_data: the next frame, or the last one again.
Got(m) ==
    IF m.ring = << >> THEN m
    ELSE [m EXCEPT !.current_frame_ = Head(m.ring), !.ring = Tail(m.ring)]

Matches(id, pattern) == id[1] \in pattern \/ id[2] \in pattern

\* The exclude patterns first, then the include patterns, if there are any.
Accepted(id) ==
    /\ ~Matches(id, config.exclude)
    /\ config.include # {} => Matches(id, config.include)

\* Test seeding: a transform already known keeps its first value.
TfTakesFirst(t, id) ==
    CASE ~t.subscriber \/ ~Accepted(id) \/ t.tf_id_[id] # 0 -> t
      [] OTHER -> IF t.tf_id_[Reverse(id)] # 0
                  THEN [subscriber |-> FALSE, tf_id_ |-> NewManager.tf_id_, tfs_ |-> << >>]
                  ELSE [t EXCEPT !.tf_id_[id] = Len(t.tfs_) + 1,
                                 !.tfs_ = Append(@, [id |-> id, n |-> heard + 1])]

\* tf2_callback for one transform: replace a known one, give everything up, and the
\* subscription with it, on the reverse of a known one, add a new one.
TfTakes(t, id) ==
    CASE ~t.subscriber \/ ~Accepted(id) -> t
      [] t.subscriber /\ Accepted(id) /\ t.tf_id_[id] # 0 ->
            [t EXCEPT !.tfs_[t.tf_id_[id]].n = heard + 1]
      [] t.subscriber /\ Accepted(id) /\ t.tf_id_[id] = 0 /\ t.tf_id_[Reverse(id)] # 0 ->
            [subscriber |-> FALSE, tf_id_ |-> NewManager.tf_id_, tfs_ |-> << >>]
      [] OTHER -> [t EXCEPT !.tf_id_[id] = Len(t.tfs_) + 1,
                            !.tfs_ = Append(@, [id |-> id, n |-> heard + 1])]

\* A reset ends the callback; otherwise the whole list is captured.
TfCaptured(m, msg) ==
    LET list  == [subscriber |-> m.subscriber, tf_id_ |-> m.tf_id_, tfs_ |-> m.tfs_]
        taken[i \in 0 .. Len(msg)] == IF i = 0 THEN list ELSE TfTakes(taken[i - 1], msg[i])
        t     == taken[Len(msg)]
        after == [m EXCEPT !.subscriber = t.subscriber, !.tf_id_ = t.tf_id_, !.tfs_ = t.tfs_]
    IN  IF after.subscriber THEN Captured(after, after.tfs_) ELSE after

\* History: what has been heard of each transform since the last reset, from the
\* message as a whole.
KnownAfter(msg) ==
    LET ok   == {i \in DOMAIN msg : Accepted(msg[i])}
        bad  == \E i \in ok : /\ Reverse(msg[i]) # msg[i]
                              /\ \/ known[Reverse(msg[i])] # 0
                                 \/ \E j \in ok : j < i /\ msg[j] = Reverse(msg[i])
    IN  [id \in Edges |-> CASE bad -> 0
                            [] ~bad /\ (\E i \in ok : msg[i] = id) -> heard + 1
                            [] OTHER -> known[id]]

Message ==
    /\ mpc = "spin" /\ mgr.subscriber /\ advertised /\ ~config.tf /\ heard < config.msgs
    /\ heard' = heard + 1
    /\ mgr' = Captured(mgr, <<heard + 1>>)
    /\ UNCHANGED <<config, mpc, advertised, known, net, tx, rx>>

TfMessage ==
    /\ mpc = "spin" /\ mgr.subscriber /\ advertised /\ config.tf /\ heard < config.msgs
    /\ \E msg \in TfMessages : mgr' = TfCaptured(mgr, msg) /\ known' = KnownAfter(msg)
    /\ heard' = heard + 1
    /\ UNCHANGED <<config, mpc, advertised, net, tx, rx>>

\* The topic gets a publisher.
Advertise ==
    /\ ~advertised /\ advertised' = TRUE
    /\ UNCHANGED <<config, mpc, mgr, hist, net, tx, rx>>

-----------------------------------------------------------------------------
(* Main: initialize(), the timers, shutdown()                              *)

\* load_parameters: the manager tries to subscribe at once.
LoadTopics == mgr' = Checked(NewManager)

\* UdpInterface::open: the socket is bound and the first receive is armed.
OpenUdp == io' = IF config.net = "udp" THEN [io EXCEPT !.pc = "run", !.armed = TRUE] ELSE io

\* load_parameters, load_network_interface, open().  A connection is made later.
Initialize ==
    /\ mpc = "init" /\ mpc' = "spin"
    /\ LoadTopics /\ OpenUdp
    /\ net' = [net EXCEPT !.alive = TRUE, !.ready = config.net = "udp"]
    /\ UNCHANGED <<config, advertised, hist, tx, publishers_, inners, shown>>

\* The send timer finds nothing to send, or the interface not ready.
SendNothing ==
    /\ mpc = "spin" /\ ~(HasData(mgr) /\ net.ready)
    /\ mgr' = Checked(mgr)
    /\ UNCHANGED <<config, mpc, advertised, hist, net, tx, rx>>

Sendable ==
    /\ mpc = "spin" /\ HasData(mgr) /\ net.ready
    /\ mgr.ring = << >> => tx_sequence_ < config.msgs + MaxResends

\* The message is taken from the ring and an exception ends the callback.
Loses ==
    /\ Sendable
    /\ mgr' = Got(Checked(mgr))
    /\ lost' = lost \cup {mgr'.current_frame_.n}
    /\ UNCHANGED <<config, mpc, advertised, hist, net, window, wal, wire, unlogged, delayed, worker,
                   vanished, rx>>

\* compress() throws.
CompressFails == Loses /\ UNCHANGED tx_sequence_

\* encode_frame throws, which has used up a sequence number by then.
EncodeFails == Loses /\ tx_sequence_' = tx_sequence_ + 1

\* Test seeding: the record is numbered with the counter as it is after the frame.
RecordedNext(seq, frame) == Append(wal, [seq |-> seq + 1, frame |-> frame])

\* WalWriter::append, with the sequence the frame got, where it returns true.
Recorded(seq, frame) == Append(wal, [seq |-> seq, frame |-> frame])

\* append() may return false, which send_data does not look at.
Logs(packet) ==
    \/ wal' = (IF config.wal THEN Recorded(packet.seq, packet.frame) ELSE wal) /\ UNCHANGED unlogged
    \/ config.wal /\ unlogged' = unlogged \cup {packet.seq} /\ UNCHANGED wal

\* The engine delays a frame inside the rule's window and lets it through outside of it.
Via == CASE ~config.delay \/ window = "before"   -> "direct"
         [] config.delay /\ window = "open"     -> "delayed"
         [] OTHER                               -> "late"

\* write(): the interface sends what it is given, as one datagram or message.
Write(packet) == Append(wire, packet)

\* A write that fails: UDP reports it, a connection is given up as well.
Broken == IF config.net = "conn"
          THEN [net EXCEPT !.ready = FALSE, !.failed = TRUE, !.fails = @ + 1]
          ELSE [net EXCEPT !.fails = @ + 1]

Writes(packet)     == wire' = Write(packet) /\ UNCHANGED <<lost, net>>
WriteFails(packet) == lost' = lost \cup {packet.frame.n} /\ net' = Broken /\ UNCHANGED wire

\* A frame is made and recorded, and goes to the engine or to the interface.
Send ==
    /\ Sendable
    /\ mgr' = Got(Checked(mgr))
    /\ tx_sequence_' = tx_sequence_ + 1
    /\ LET packet == [seq |-> tx_sequence_, frame |-> mgr'.current_frame_, via |-> Via]
       IN  /\ Logs(packet)
           /\ \/ /\ Via = "delayed" /\ delayed' = Append(delayed, packet)
                 /\ UNCHANGED <<wire, lost, net>>
              \/ Via # "delayed" /\ Writes(packet) /\ UNCHANGED delayed
              \/ Via # "delayed" /\ net.fails < config.fails /\ WriteFails(packet) /\ UNCHANGED delayed
    /\ UNCHANGED <<config, mpc, advertised, hist, window, worker, vanished, rx>>

\* fault_start_s and fault_duration_s: the rule's window opens and ends.
WindowMoves ==
    /\ config.delay /\ window # "after"
    /\ window' = IF window = "before" THEN "open" ELSE "after"
    /\ UNCHANGED <<config, mpc, advertised, mgr, hist, net, tx_sequence_, wal, wire, unlogged, delayed,
                   worker, lost, vanished, rx>>

\* A connection fails and is made, on threads of the interface.
NetFails ==
    /\ config.net = "conn" /\ net.ready /\ net.fails < config.fails /\ mpc # "terminated"
    /\ net' = Broken
    /\ UNCHANGED <<config, mpc, advertised, mgr, hist, tx, rx>>

NetConnects ==
    /\ config.net = "conn" /\ net.alive /\ ~net.ready /\ ~net.failed /\ mpc = "spin"
    /\ net' = [net EXCEPT !.ready = TRUE]
    /\ UNCHANGED <<config, mpc, advertised, mgr, hist, tx, rx>>

\* Test seeding: the interface is closed and not opened again.
HealthCloses ==
    /\ mpc = "spin" /\ net.failed
    /\ UNCHANGED <<config, mpc, advertised, mgr, hist, net, tx, rx>>

\* check_network_health: a failed interface is closed and opened again, if close() returns.
Health ==
    /\ mpc = "spin" /\ net.failed
    /\ net' = [net EXCEPT !.failed = FALSE]
    /\ UNCHANGED <<config, mpc, advertised, mgr, hist, tx, rx>>

\* close() of a connection joins the packet thread, which may have missed the queue's
\* notification (TcpInterface, CloseReturns): main never comes back.
CloseHangs ==
    /\ config.net = "conn"
    /\ mpc = "join" \/ (mpc = "spin" /\ net.failed)
    /\ mpc' = "stuck"
    /\ UNCHANGED <<config, advertised, mgr, hist, net, tx, rx>>

\* spin() returns: rclcpp::ok() is false from here on.  shutdown() stops io_context_.
Shutdown ==
    /\ mpc = "spin" /\ mpc' = "join"
    /\ io' = [io EXCEPT !.stopped = TRUE]
    /\ UNCHANGED <<config, advertised, mgr, hist, net, tx, publishers_, inners, shown>>

\* Test seeding: the io thread is not waited for.
CloseDetaches ==
    /\ mpc = "join" /\ mpc' = "clear"
    /\ UNCHANGED <<config, advertised, mgr, hist, net, tx, rx>>

\* close() joins the io thread and returns.
CloseJoins ==
    /\ mpc = "join" /\ io.pc = "off" /\ mpc' = "clear"
    /\ UNCHANGED <<config, advertised, mgr, hist, net, tx, rx>>

\* The interface, the managers, the timers and the publishers are let go.
Clear ==
    /\ mpc = "clear" /\ mpc' = "flush"
    /\ net' = [net EXCEPT !.alive = FALSE, !.ready = FALSE]
    /\ publishers_' = << >>
    /\ UNCHANGED <<config, advertised, mgr, hist, tx, io, inners, shown>>

\* Test seeding: flush() forgets what it takes.
FlushForgets ==
    /\ mpc = "flush" /\ delayed # << >>
    /\ delayed' = Tail(delayed)
    /\ UNCHANGED <<config, mpc, advertised, mgr, hist, net, window, tx_sequence_, wal, wire, unlogged,
                   worker, lost, vanished, rx>>

\* flush() hands what is delayed to the write callback, which finds no interface any more
\* and drops it; the engine counts it as forwarded.
Flush ==
    /\ mpc = "flush" /\ delayed # << >>
    /\ delayed' = Tail(delayed)
    /\ vanished' = vanished \cup {Head(delayed).frame.n}
    /\ UNCHANGED <<config, mpc, advertised, mgr, hist, net, window, tx_sequence_, wal, wire, unlogged,
                   worker, lost, rx>>

\* The engine's destructor joins the worker; the log is closed.
Destroy ==
    /\ mpc = "flush" /\ delayed = << >> /\ worker = << >> /\ mpc' = "done"
    /\ UNCHANGED <<config, advertised, mgr, hist, net, tx, rx>>

-----------------------------------------------------------------------------
(* The fault engine's worker                                               *)

\* A frame is due.
WorkerPops ==
    /\ delayed # << >> /\ worker = << >> /\ mpc \notin {"done", "terminated"}
    /\ worker' = <<Head(delayed)>> /\ delayed' = Tail(delayed)
    /\ UNCHANGED <<config, mpc, advertised, mgr, hist, net, window, tx_sequence_, wal, wire, unlogged,
                   lost, vanished, rx>>

\* close() has let the connection's socket go; it may have, while it runs.
SocketGone      == config.net = "conn" /\ mpc \in {"clear", "stuck"}
SocketMayBeGone == config.net = "conn" /\ (mpc \in {"join", "clear", "stuck"} \/ net.failed)

\* The engine's write callback: to the interface, if there is one, connected or not.
WorkerWrites ==
    /\ worker # << >> /\ worker' = << >> /\ mpc # "terminated"
    /\ \/ /\ ~net.alive /\ vanished' = vanished \cup {Head(worker).frame.n}
          /\ UNCHANGED <<wire, lost, net>>
       \/ net.alive /\ ~SocketGone /\ net.ready /\ Writes(Head(worker)) /\ UNCHANGED vanished
       \/ /\ net.alive /\ ~SocketGone /\ (net.ready => net.fails < config.fails)
          /\ WriteFails(Head(worker)) /\ UNCHANGED vanished
    /\ UNCHANGED <<config, mpc, advertised, mgr, hist, window, tx_sequence_, wal, unlogged, delayed, rx>>

\* write() goes through *socket_, which nothing keeps for the worker: a null pointer.
WorkerCrashes ==
    /\ worker # << >> /\ net.alive /\ SocketMayBeGone /\ mpc # "terminated"
    /\ mpc' = "terminated"
    /\ UNCHANGED <<config, advertised, mgr, hist, net, tx, rx>>

-----------------------------------------------------------------------------
(* The io thread: UdpInterface::receive and receive_data                   *)

Arrivable == io.pc = "run" /\ io.armed /\ ~io.stopped /\ io.arrivals < config.arrivals

\* receive() with no bytes, which is also how asio reports most errors: armed again.
Empty ==
    /\ Arrivable
    /\ io' = [io EXCEPT !.arrivals = @ + 1]
    /\ UNCHANGED <<config, mpc, advertised, mgr, hist, net, tx, publishers_, inners, shown>>

\* receive() with bytes and an error, which is reported: no receive is armed any more.
ReceiveFails ==
    /\ Arrivable
    /\ io' = [io EXCEPT !.armed = FALSE, !.deaf = TRUE, !.arrivals = @ + 1]
    /\ UNCHANGED <<config, mpc, advertised, mgr, hist, net, tx, publishers_, inners, shown>>

\* receive() with bytes: receive_data is called.
Arrive ==
    /\ Arrivable
    /\ \E d \in Datagrams \cup {Damaged} :
           io' = [io EXCEPT !.pc = "callback", !.armed = FALSE, !.data = d, !.arrivals = @ + 1]
    /\ UNCHANGED <<config, mpc, advertised, mgr, hist, net, tx, publishers_, inners, shown>>

\* Test seeding: the scan for the type starts on the topic's terminator.
ParseHeaderShort(h) ==
    LET te  == IF Contains(h, 0) THEN SelectInSeq(h, LAMBDA x : x = 0) - 1 ELSE Len(h)
    IN  IF Len(h) < 4 \/ te >= Len(h) - 1 THEN Nothing
        ELSE [topic |-> SubSeq(h, 1, te), type |-> <<h[te + 2]>>, payload |-> << >>]

\* parse_header: two bounded scans; the topic is set even if the type has no end.
ParseHeader(h) ==
    LET topicEnd == IF Contains(h, 0) THEN SelectInSeq(h, LAMBDA x : x = 0) - 1 ELSE Len(h)
        rest     == SubSeq(h, topicEnd + 2, Len(h))
        typeEnd  == SelectInSeq(rest, LAMBDA x : x = 0) - 1
    IN  CASE Len(h) < 4 \/ topicEnd >= Len(h) - 1 -> Nothing
          [] Len(h) >= 4 /\ topicEnd < Len(h) - 1 /\ ~Contains(rest, 0) ->
                [Nothing EXCEPT !.topic = SubSeq(h, 1, topicEnd)]
          [] OTHER -> [topic |-> SubSeq(h, 1, topicEnd), type |-> SubSeq(rest, 1, typeEnd),
                       payload |-> << >>]

\* create_header: topic and type, each with its terminator.
CreateHeader(topic, type) == topic \o <<0>> \o type \o <<0>>

\* receive_data returns and start_receive() arms the next receive.
Rearmed == [io EXCEPT !.pc = "run", !.armed = TRUE]

\* receive_data does nothing once rclcpp::ok() is false.
ReceiveChecks ==
    /\ io.pc = "callback"
    /\ io' = IF mpc = "spin" THEN [io EXCEPT !.pc = "decode"] ELSE Rearmed
    /\ UNCHANGED <<config, mpc, advertised, mgr, hist, net, tx, publishers_, inners, shown>>

\* The inner message names a topic and a type.
Wellformed(d) == d # Damaged /\ ParseHeader(d).topic # << >> /\ ParseHeader(d).type # << >>

\* The topic's first message makes the publisher, with its type.
WithPublisher(p) ==
    [t \in DOMAIN publishers_ \cup {p.topic} |->
        IF t \in DOMAIN publishers_ THEN publishers_[t] ELSE p.type]

\* Frame checks, zstd and header; a message that passes finds or makes a publisher.
ReceiveData ==
    /\ io.pc = "decode"
    /\ inners' = Append(inners, io.data)
    /\ IF Wellformed(io.data)
       THEN /\ publishers_' = WithPublisher(ParseHeader(io.data))
            /\ io' = [io EXCEPT !.pc = "publish"] /\ UNCHANGED shown
       ELSE /\ shown' = [inner |-> io.data, result |-> Nothing]
            /\ io' = Rearmed /\ UNCHANGED publishers_
    /\ UNCHANGED <<config, mpc, advertised, mgr, hist, net, tx>>

\* create_generic_publisher throws (a type nobody has a library for; a context shut down
\* meanwhile) and nothing on the io thread catches it.
ReceiveThrows ==
    /\ io.pc = "decode" /\ Wellformed(io.data)
    /\ ParseHeader(io.data).topic \notin DOMAIN publishers_
    /\ mpc' = "terminated" /\ io' = [io EXCEPT !.pc = "off"]
    /\ UNCHANGED <<config, advertised, mgr, hist, net, tx, publishers_, inners, shown>>

\* The rest of the message goes out on the topic's publisher, if rclcpp::ok() still holds.
Publish ==
    /\ io.pc = "publish" /\ io' = Rearmed
    /\ LET p == ParseHeader(io.data)
           n == Len(CreateHeader(p.topic, p.type))
       IN  shown' = IF mpc # "spin" THEN shown
                    ELSE [inner  |-> io.data,
                          result |-> [topic |-> p.topic, type |-> publishers_[p.topic],
                                      payload |-> SubSeq(io.data, n + 1, Len(io.data))]]
    /\ UNCHANGED <<config, mpc, advertised, mgr, hist, net, tx, publishers_, inners>>

\* io_context::run() returns: it is stopped, or has nothing left to wait for.
IoReturns ==
    /\ io.pc = "run" /\ (io.stopped \/ ~io.armed)
    /\ io' = [io EXCEPT !.pc = "off"]
    /\ UNCHANGED <<config, mpc, advertised, mgr, hist, net, tx, publishers_, inners, shown>>

-----------------------------------------------------------------------------
SendTimer == SendNothing \/ CompressFails \/ EncodeFails \/ Send
Main      == Initialize \/ CloseJoins \/ Clear \/ Flush \/ Destroy
Worker    == WorkerPops \/ WorkerWrites \/ WorkerCrashes
Io        == ReceiveChecks \/ ReceiveData \/ ReceiveThrows \/ Publish \/ IoReturns

Next ==
    \/ Main \/ Shutdown \/ SendTimer \/ Health \/ Message \/ TfMessage \/ Advertise
    \/ NetFails \/ NetConnects \/ CloseHangs \/ WindowMoves \/ Worker
    \/ Empty \/ ReceiveFails \/ Arrive \/ Io

Spec == Init /\ [][Next]_vars

\* The executor serves its timers; the threads run; a peer that can be connected to
\* is there.  Messages, datagrams, failures and the end of spin() are owed by nobody.
FairSpec == /\ Spec
            /\ WF_vars(Main) /\ WF_vars(SendTimer) /\ WF_vars(Health)
            /\ WF_vars(NetConnects) /\ WF_vars(Worker) /\ WF_vars(Io)

-----------------------------------------------------------------------------
(* Properties                                                              *)

\* Types; the ring holds no more than it can, and the counters are its own.
TypeOK ==
    /\ config \in Configs /\ advertised \in BOOLEAN
    /\ mpc \in {"init", "spin", "join", "clear", "flush", "done", "stuck", "terminated"}
    /\ window \in {"before", "open", "after"}
    /\ Len(mgr.ring) <= Capacity /\ mgr.enqueued >= Len(mgr.ring)
    /\ mgr.captured \in 0 .. config.msgs
    /\ heard \in 0 .. config.msgs /\ known \in [Edges -> 0 .. config.msgs]
    /\ tx_sequence_ \in Nat /\ io.pc \in {"off", "run", "callback", "decode", "publish"}

\* A manager that says it has data gives a frame: what the comment in send_data counts
\* on, also for a topic that only resends.
HasDataGivesFrame == HasData(mgr) => Got(mgr).current_frame_ # NoFrame

\* The frames the manager has handed to send_data.
Taken == {f \in 1 .. mgr.captured : f \notin mgr.dropped /\ ~\E i \in DOMAIN mgr.ring : mgr.ring[i].n = f}

FramesOf(packets) == {packets[i].frame.n : i \in DOMAIN packets}

\* No captured frame goes missing but one way: it was dropped on a full ring, waits in the
\* ring or in the engine, was lost for a reason the code reports, or is on the wire.  The
\* one way out is a delay rule: what the engine still has when shutdown() has taken the
\* interface is dropped without a word and counted as forwarded.
FramesAccounted ==
    /\ Taken = FramesOf(wire) \cup FramesOf(delayed) \cup FramesOf(worker) \cup lost \cup vanished
    /\ vanished # {} => config.delay /\ ~net.alive /\ mpc \in {"flush", "done"}

\* The topic's frames go out in the order of capture, each once and under increasing
\* sequence numbers; the last one goes out again only where stale data is asked for.  One
\* exception: what is sent after the end of a delay window may overtake frames that were
\* delayed inside it.
SentInCaptureOrder ==
    \A i, j \in DOMAIN wire : i < j =>
        \/ /\ wire[i].seq < wire[j].seq
           /\ wire[i].frame.n < wire[j].frame.n \/ (config.stale /\ wire[i].frame = wire[j].frame)
        \/ wire[i].via = "late" /\ wire[j].via = "delayed"

\* Everything on the wire is in the replay log, under the number and with the data it was
\* sent with, unless append() returned false for just that frame, and then the log has
\* nothing under its number; the log is in the order of the numbers.
WireIsRecorded ==
    config.wal =>
        /\ \A i \in DOMAIN wire :
              \/ wire[i].seq \in unlogged
              \/ \E k \in DOMAIN wal : wal[k].seq = wire[i].seq /\ wal[k].frame = wire[i].frame
        /\ \A k \in DOMAIN wal : wal[k].seq \notin unlogged
        /\ \A k, l \in DOMAIN wal : k < l => wal[k].seq < wal[l].seq

\* The TF list and its index agree, and it never holds a transform and its reverse, if
\* that is another one.
TfConsistent ==
    /\ mgr.tf_id_ \in [Edges -> Nat]
    /\ \A i \in DOMAIN mgr.tfs_ : mgr.tf_id_[mgr.tfs_[i].id] = i
    /\ \A id \in Edges : mgr.tf_id_[id] # 0 =>
          /\ mgr.tfs_[mgr.tf_id_[id]].id = id
          /\ Reverse(id) # id => mgr.tf_id_[Reverse(id)] = 0

\* The TF list holds, since the last reset, every transform that passed the patterns,
\* with its latest value: no update of a message is missed, however messages repeat
\* and mix transforms.
TfListComplete ==
    {<<mgr.tfs_[i].id, mgr.tfs_[i].n>> : i \in DOMAIN mgr.tfs_}
        = {<<id, known[id]>> : id \in {e \in Edges : known[e] # 0}}

\* s reads: a topic, '\\0' at i, a type, '\\0' at j, with neither name empty.
Framed(s, i, j) ==
    /\ 1 < i /\ i + 1 < j /\ s[i] = 0 /\ s[j] = 0
    /\ \A k \in 1 .. j - 1 : k # i => s[k] # 0

\* s is a message on the topic.
IsOn(s, topic) == \E i, j \in DOMAIN s : Framed(s, i, j) /\ topic = SubSeq(s, 1, i - 1)

\* The first inner message on the topic names the type.
FirstTypeOn(topic, type) ==
    \E m \in DOMAIN inners :
        /\ \A k \in 1 .. m - 1 : ~IsOn(inners[k], topic)
        /\ \E i, j \in DOMAIN inners[m] :
              /\ Framed(inners[m], i, j)
              /\ topic = SubSeq(inners[m], 1, i - 1) /\ type = SubSeq(inners[m], i + 1, j - 1)

\* receive_data publishes a message exactly if it reads topic, '\\0', type, '\\0' and
\* payload, and then on that topic and with that payload.  Its type is the one the
\* topic's first message named, whatever the message itself says.
PublishesWhatWasFramed ==
    LET r == shown.result
        s == shown.inner
    IN  IF r = Nothing
        THEN ~\E i, j \in DOMAIN s : Framed(s, i, j)
        ELSE /\ \E i, j \in DOMAIN s :
                  /\ Framed(s, i, j) /\ r.topic = SubSeq(s, 1, i - 1)
                  /\ s = CreateHeader(r.topic, SubSeq(s, i + 1, j - 1)) \o r.payload
             /\ FirstTypeOn(r.topic, r.type)

\* The UDP interface always has a receive armed, or is about to arm it, while its thread
\* runs: no datagram makes it deaf, only an error that comes with bytes does.
StaysArmed == io.pc = "run" => io.armed \/ io.deaf

\* receive_data is never at work on publishers that shutdown() has cleared.
NoCallbackAfterClear == mpc \in {"clear", "flush", "done"} => io.pc = "off"

\* A topic that has a publisher is subscribed to, and again after each reset of the TF
\* list.
GetsSubscribed == (mpc = "spin" /\ advertised) ~> (mgr.subscriber \/ mpc # "spin")

\* What is in the ring goes out, over lost connections too, while the node runs: until
\* shutdown, an end of the process, or a close() of the failed connection that hangs.
RingDrains == (mgr.ring # << >>) ~> (mgr.ring = << >> \/ mpc # "spin")

\* shutdown() comes to its end, whatever the io thread and the worker are at, unless the
\* close() of a connection hangs or one of the two ends the process.
ShutdownEnds == (mpc = "join") ~> \/ mpc \in {"done", "terminated"}
                                  \/ mpc = "stuck" /\ config.net = "conn"

\* What one part of the node takes for granted of another: send_data a frame from a
\* manager that has data, the interface a receive in progress, shutdown() that no
\* callback is left.
Inv == TypeOK /\ HasDataGivesFrame /\ StaysArmed /\ NoCallbackAfterClear

\* The TF list is the set of transforms heard since its last reset, indexed rightly.
TfListRight == TfConsistent /\ TfListComplete

\* The node gets on: it subscribes, its ring drains and its shutdown ends.
Progress == GetsSubscribed /\ RingDrains /\ ShutdownEnds
=============================================================================
