# Verification of the AV HIL validation platform

TLA+ specifications of the concurrent and fault-tolerant core of the platform:
the path of a sensor frame from a ROS 2 callback through a lock-free ring, the
frame codec, the fault engine and a network interface (UDP, TCP or io_uring) to
the peer, the write-ahead log it is recorded in, and the scenario runner that
launches publishers, measures streams and judges them. TLC checks every module on
small instances, and TLAPS proves for every value of their parameters the safety
properties that the passing runs check, all but what overwrite-oldest keeps. Paths below are
relative to the repository.

## The system and its parts

| Part | State | Operations | Modelled in |
|---|---|---|---|
| SPSC ring and backpressure policies (`include/sensorforge/core/spsc_ring.hpp`, `backpressure_policy.hpp`) | `head_`, `tail_`, `buffer_` | `try_push`, `try_pop`, `force_push_overwrite`, `apply_policy` | `SpscRing`, `StreamFifo`, `CoreProofs` |
| Subscription managers (`src/subscription_manager.cpp`, `_tf.cpp`) | subscriber, ring, counters, current frame; TF list and index | `check_subscription`, `callback`, `tf2_callback`, `has_data`, `get_data` | `Bridge`, `BridgeProofs`; the ring's two threads in `SpscRing` |
| Seqlock (`include/sensorforge/core/seqlock.hpp`) | `seq_`, `data_` | `store`, `load` | `Seqlock`, `CoreProofs` |
| Frame protocol (`src/protocol/frame_codec.cpp`) | per-stream history | `encode_frame`, `decode_header`, `FrameDecoder::decode` | `FrameLink`, `LinkProofs` |
| Network bridge node (`src/network_bridge.cpp`) | `tx_sequence_`, publishers, interface, engine, log | `initialize`, `send_data`, `receive_data`, `check_network_health`, `shutdown` | `Bridge`, `BridgeProofs`; its link in `FrameLink` |
| UDP interface (`src/network_interfaces/udp_interface.cpp`) | the armed receive, io thread | `open`, `close`, `receive`, `write` | `Bridge`; loss and reordering in `FrameLink` |
| Fault engine (`faults/fault_engine.cpp`) | delay queue, held frame, token bucket, restart edges, statistics | `process`, `worker_loop`, `flush`, destructor | `FaultEngine`, `FaultEngineProofs` |
| TCP interface and byte queue (`src/network_interfaces/tcp_interface.cpp`, `thrift_stream_queue.hpp`) | flags, socket, queue, three threads; framing state | `open`, `close`, `write`, handlers, `receive_thread` | `TcpInterface`, `TcpInterfaceProofs` (threads), `TcpWire`, `LinkProofs` (bytes) |
| TCP reassembler (`include/sensorforge/transport/tcp_reassembler.hpp`) | state, length, payload | `feed`, `reset` | `TcpWire`, `LinkProofs` |
| io_uring interface (`src/network_interfaces/iouring_interface.cpp`) | flags, two pools of slots, submission and completion queue | `open`, `close`, `write`, `arm_recv`, `completion_loop` | `IoUring`, `IoUringProofs` |
| Write-ahead log (`src/replay/`) | segment files, offset, index | `append`, `flush`, `close`, `load`, `replay` | `Wal`, `WalProofs` |
| Scenario runner (`scenario/scenario_runner.cpp`, `scenario_main.cpp`) | children, metrics, engines, CAN reader, exporter | `start`, `record`, `can_reader_loop`, `finish`, destructor | `Scenario`, `ScenarioProofs` |
| Stream metrics and assertions (`scenario/metrics.hpp`, `assertion.cpp`), aggregation of parallel runs (`namespace_manager.hpp`, `parallel_runner.cpp`) | latencies, counts, arrival window | `record`, `emit`, `evaluate_all`, `aggregate` | `StreamMetrics`, `ScenarioProofs` |
| Prometheus exporter (`metrics/prometheus_exporter.cpp`) | `running_`, listening socket, thread | `start`, `stop`, `serve_loop` | `Scenario` |
| Sensor publishers (`sensors/`) | sequence counters | `on_tick` | a message per tick in `Scenario`; the contents are left out |
| CRC32C, YAML parsing, reports, regression gate, dashboard, benchmarks | | | not modelled |

How they interact. The bridge's `main` spins one executor thread. On it the
subscription callback pushes frames into the ring, the send timer pops them,
encodes them with one sequence counter and the wall clock, appends them to the
log and hands them to the fault engine, whose worker thread writes the delayed
ones; both threads end in the interface's `write()`. The interface has an io
thread for socket handlers and a packet thread that reassembles messages and
calls `receive_data`, which decodes and publishes. A health timer on the executor
closes and reopens a failed interface. The scenario runner launches the publishers
as processes, through `ros2 run`, takes their messages on its executor, and CAN frames on a reader
thread, through fault engines of its own into the stream metrics; an exporter
thread serves them while they are gathered; `finish()` stops the reader and the
children, flushes the engines and evaluates the assertions.

What is hard here: two threads on unlocked memory (ring, seqlock); wake-ups that
can be missed or come unasked (delay worker, byte queue); handlers that outlive their
connection;
datagrams lost, repeated and out of order, from senders that restart; processes
that die with unwritten buffers; buffers reused while the kernel still reads them;
statistics without a lock; and orders of shutdown. `PROJECT.json` lists
these hazards line by line with the properties that watch them.

## Modules

**StreamFifo** is what a stream promises: a bounded FIFO whose producer learns of
deliveries with delay, and which drops a new frame only when full as far as the
producer knows, and only under a policy that may drop.

**SpscRing** has one step per access to shared memory: the load of the other
thread's index (`TryPushRoom`, `TryPushFull`, `PopEmpty`, `PopNonEmpty`), the copy
into or out of a slot (`WriteSlot`, `ReadSlot`), the release store of an index
(`Publish`, `Release`), and the load and the store of the eviction (`EvictLoad`,
`EvictStore`). An acquire load may return any value not older than the last one
that thread saw (`Loads`). The policy and whether both callbacks share a thread
are configuration chosen in `Init`. `Callback` and `Publish` include the counters
of `SubscriptionManager::callback`. Under overwrite-oldest (`Evicting`) loads return
the latest store, since two threads store `tail_` there: fewer behaviours than the C++
memory model allows.

**Seqlock** carries its own memory model: every location keeps all its stores,
threads have views, fences and release stores attach views to stores. The steps
are the operations of `store()` and `load()`, byte by byte. Readers store nothing,
so one reader stands for all.

**FrameLink** is one direction of the bridge over a datagram network: the frames
sent are a set from which `Receive` takes any, any number of times. CRCs are
abstracted to a flag that damage clears. `ClockMoves` lets the wall clock go either
way, and `setBack` remembers whether it has gone back. A reconnection resets
nothing of the decoder, so it is no step of this model.

**FaultEngine** has the owner (`process`, `flush`, destructor) and the worker. A
step is a critical section of `mtx_`, a call of the write callback or a
notification; the write and its count in `emit()` are one step. `Process(s)` splits
into one action per outcome, in the order of the code's tests. Probabilities are
nondeterminism; a frame has size one; an engine has one bandwidth rule at most (in
the code several would draw on one bucket in turn); the scenario time is the tick.
At the start of a flush `linkUp` may become false, which is the bridge's
`shutdown()`, or stay true, which is the scenario runner's `finish()`. `calls` and
`restarts` remember which frame came when, for `HookFires`.

**TcpInterface** has the executor (`open`, `close`, a failing `write`), the io
thread and the packet thread. `io_context_` is a queue of completed handlers that
survives `stop()` and `restart()`. A unit of the byte stream is a whole message.
`wait()` in `readBytes` may end unnotified (`SpuriousWake`), and what it then takes
from an empty queue ends the process (`"emptyFront"`). The accept handler and
`start_receive` test `socket_` and use it in two steps each (`HandleAccept`,
`AcceptUsesSocket`; `StartReceive`, `BeginRead`), between which `close()` may reset it
(`"nullSocket"`); `remote_endpoint()` may throw, and a set-up error calls `exit(1)`
(`"exited"`). All three end the behaviour.

**Wal** has files of cells: two of header, the payload, one of CRC. `append` lets
any prefix of the pending cells reach the file, so a crash may cut anywhere. A
failed write keeps or loses the stream's remainder, nondeterministically, and
leaves the stream bad until the next segment, as the unchecked `ofstream` does.
The other ways to fail are actions of their own: no file at `open()` (`OpenFails`),
a payload above `kMaxRecordPayload` (`AppendRefuses`), no file at a rollover
(`AppendUnopened`: the log takes nothing more in this life), and a flush or close that
loses what was taken without a word (`FlushFails`).
`Scan` is the loop of `load()` with its byte-by-byte resynchronisation; record and
index sorts are separate, as in the code. Pacing of replay is left out.

**TcpWire** is the byte stream between two `TcpInterface`s: `write()` as three pieces
that two threads may mix, the byte queue that survives a reconnection, and both
parsers of the repository on the same bytes, each byte by byte: the packet thread
and `TcpReassembler`. A byte is a digit below `Base`, a length has 2 of them; either
side may be little- or big-endian. `Reference` parses a whole sequence at once.
`WireAssumption` has the messages differ, so that one delivered can be told from
another, and their lengths fit one digit.

**IoUring** has the submission queue as two steps of a thread (`GetSqe` reads the
tail, `TakeSqe` writes it back), since liburing has no lock; what the kernel does
with a slot it reads or fills later; the executor, the engine's worker and the
completion thread. `close()` is four steps. An oversized datagram is dropped before it
touches any state: a stuttering step.

**Bridge** composes one topic of the node: subscription manager (plain or TF), ring
as a bounded queue, send and health timers, log, delay rule of the fault engine,
interface, io thread with `receive_data`, and the steps of `shutdown()`. On the
executor a callback is one step. `TfTakes` is one round of the loop in
`tf2_callback`, folded over the message; `known` keeps, as history, what has been
heard of each transform by a definition that looks at whole messages. A frame that
fails the frame checks or zstd is `Damaged`; other datagrams are sequences of
characters of which 0 is the terminator, and `ParseHeader` is the scan of the code.
The delay rule has a window: a packet remembers (`Via`) whether it went out directly,
was delayed, or went out directly after the window had ended. `append()` may return
false (`Logs`), which is remembered in `unlogged`. `publishers_` has the type each
topic's publisher was made with. What may go wrong is in the model where the claims
are: frames that `flush()` drops without a word (`vanished`, apart from the reported
`lost`), the `close()` of a connection that hangs (`CloseHangs`, as the `TcpClose` run
shows), the engine's worker on a socket that is gone (`WorkerCrashes`), a publisher that
cannot be made (`ReceiveThrows`), and a UDP error that comes with bytes, after which
nothing is received any more (`ReceiveFails`).

**StreamMetrics** has the arithmetic of a run as operators on whole ticks and exact
fractions; `Aggregate` counts the runs and assertions that the code's loop adds up.
**Scenario** is a run: main with its executor, the CAN reader, the
worker of the stream's engine, the exporter and its clients, the publisher's
wrapper. A tick has one message at most; it is read then or later, and `Read` gives it
the latency and the arrival of the moment it is read. `EngineDrops`, `EngineHolds` and
`EnginePasses` are `FaultEngine::process` under any of its kinds of rule that matter here:
drop, corrupt (the latency or the arrival becomes `Garbage`), reorder, duplicate, delay.
A thread in `StreamMetrics::record` is there for a while (`Busy`); where another meets it
`raced` remembers so, `Records` may lose the element, the count or both (`spoilt`), and
the process may die (`Killed`, which is also SIGPIPE in the exporter). The child is
`ros2 run`: messages go on after it has exited (`TickMessage`). `PrometheusExporter::stop`
is three steps. `gone` has the members the destructor is through with, in the order of
their declaration reversed.

The names of `Seqlock` and `TcpWire` that other modules have too carry a prefix
(`SeqlockSpec`, `WireSpec`), for their proofs share a module with those of another
part: the ring, and the frame link. `MCLink` checks the two transports in one run.

`MC*` modules hold the instances. Operators marked "Test seeding" are faulty
variants of the operator that follows them, used to see that each property can
fail; no specification refers to them.

The properties of a run are few, and the larger ones are conjunctions of named
parts, each with its own comment: `Inv` of a module joins its type invariant with
what its parts take for granted of each other, `Progress` and `EndsCleanly` join
what must eventually happen. A proof can take up the parts one by one. Facts that
are proved for every value of the constants and that no other part needs in a run
(`TypeOK` of the ring, the seqlock and the link, `FifoNoLoss`, `NeverDropLossless`,
`HistoryIsGenuine`) are left to the theorems.

## Runs

| Run | What it checks |
|---|---|
| `SpscRing` | All policies, on one thread and on two, stale loads: no two threads in one slot, exact counters and refinement of `StreamFifo` while nobody evicts; overwrite-oldest on one thread keeps exactly the freshest frames; stored frames are delivered; each callback returns, unless it blocks on its own thread. |
| `SeqlockLoad` | No torn read, a validated read is the published version, and the reader catches up. |
| `Link` | UDP: every topic is published in send order, whatever the wire does to the frames. TCP: both parsers agree with the reference on every stream, also after stray bytes, mixed writes and a reconnection; one writer on hosts of one byte order is understood, and every frame arrives. |
| `FaultRules` | Every frame is accounted for, no lost wake-up, delayed frames are written, the destructor returns and nothing is written after it; at most one restart in the window of each restart rule, and one since the stream's last frame under no rule; the budget of a bandwidth rule; a held frame is overtaken only by frames that come when no reorder rule is active. |
| `TcpThreads` | All roles: a wait that was notified has a byte or a finished stream, a socket goes away under a handler only while `close()` is under way, no callback after `close()`, a lost peer is noticed; receive-only bridges: socket when ready, `failed_` only for the present connection, messages in order and once. |
| `TcpClose` | Violation: `close()` can hang. |
| `TcpSpurious` | Violation: a read does not block if its wait ends unnotified, but takes the front of an empty queue. |
| `WalLog` | A crash loses only a tail; all intact records are recovered, skipped bytes counted exactly, segments within their size, index entries address their records, replay complete and in order, segments of a writer's own life only grow; through failed opens, writes and flushes and refused payloads. |
| `IoUringPool` | While one thread uses the ring: receive slots stay armed, datagrams are delivered once and in order; what is sent is what was written while the pool is not overrun; `close()` returns and the completion thread never uses a ring that is gone. |
| `BridgeNode` | Captured frames are accounted for, and vanish unreported only where a delay rule still has them at shutdown; they are sent in order, but for what overtakes an ended delay window; what is sent is recorded under its number, or `append()` has said no; a manager with data gives a frame; the TF list is consistent and complete through resets; a message is published as framed, with the type of its topic's first message; the UDP receive stays armed but after an error with bytes; no callback meets cleared publishers; topics get subscribed, the ring drains, `shutdown()` ends, unless the `close()` of a connection hangs or the process dies. |
| `ScenarioRun` | Percentiles have their rank; drop rate and CAN gaps are exact; who may share statistics; the verdict misses only what a reorder rule holds, a delay rule's worker has in hand, or two threads have torn; no child, socket or thread is left and no socket is closed twice; `finish()` returns, and the destructor unless a client of the exporter is silent for ever. |
| `ExporterStop` | Violation: `stop()` of the exporter waits for a client that says nothing. |

Bounds. The ring has 4 slots, so 3 frames fill it, and 6 captures make both
indices wrap around a full ring. The seqlock has 3 bytes and 2 stores: three
versions can be mixed in every way. The link has 2 topics, 3 sends, 1 restart and
1 damaged frame, enough for a late frame of an earlier life to meet two newer
ones; over TCP, bytes of 4 values and 2 or 3 frames, one of which looks like a marker
and one of which is empty, after up to 2 stray bytes, with one reconnection; lengths
reach the limit of 2 and exceed it. The fault engine has 3 frames over 3 ticks of
sending and 5 of time. One rule set has delays of 1 and 2, so that a later frame can be due
before an earlier one while the worker sleeps, with duplication and reordering; one has
every rule that drops or corrupts, on two streams; one has restart windows with a quiet
tick between them, with another rule between them and adjoining, and a reorder window that
ends with a frame held. The TCP interface is opened 3 times with 3
messages: what one connection leaves behind can meet the next and the one after;
the violations need 2 and 1. The log has 3 records of 3 or 4 cells in segments of 7,
2 lives and 1 fault (a damaged cell, a call that fails or a refused payload), so
that rollover happens with and without a remainder and damage can hit every cell.
`IoUring` has pools of 2 and up to 4 datagrams, so that each slot is
used twice, and is opened twice. `Bridge` has a ring of 2 and up to 4 messages, so
that it fills, 3 coordinate frames with messages that reverse each other or
themselves, and all datagrams of up to 5 characters, the shortest that hold two
names and a payload; two of them can name one topic with different types. `Scenario`
has 3 or 4 ticks, one value that damaged numbers read as, one client of the exporter and
CAN numbers modulo 3, so that they wrap. Configurations that exercise different parts are
separate, which keeps their product out of the state space.
Unbounded counters are bounded only in the guards of the actions that raise them.
All runs but `SpscRing`, `SeqlockLoad` and `FaultRules` allow deadlock: senders come to the
end of what they send, an interface may be closed for good or hang in `close()`, a recorder
may be stopped, a node or a run comes to its end.

Fairness is stated apart from the behaviour (`FairSpec`, which the runs check; `Spec`,
which the theorems are about, has none). Threads that can take a step take one eventually
(weak fairness of each thread's steps): the operating system schedules them. For the
ring, a store of an index becomes visible in finite time, as C++ asks of implementations
(weak fairness of `TryPushRoom`, strong of `PopNonEmpty`: the consumer's loads keep coming
back); under overwrite-oldest nothing is assumed of the consumer, so the callback returns even
if it stops for good. The seqlock's reader sees the latest `seq_` again and again, for the same
reason. In `FaultEngine` time passes. In `Bridge` the executor serves its timers, which ROS
fires periodically, and a peer is there to be connected to. In `TcpInterface`, `TcpWire`,
`IoUring` and `Scenario` only threads are fair; `MCLink` states the fairness of `TcpWire` for
its part. Nothing obliges a sensor to publish, a peer to connect, send or leave, a wait to end
unnotified, a client of the exporter to speak or to go away, or an owner to call `process()` or
to shut down.

## Where the code and its comments disagree

With a run:

- `TcpClose`: `shutdown()` of the byte queue between `is_shutdown()` and `wait()` is
  missed, since `readBytes` does not look at `finish` before it waits
  (`thrift_stream_queue.hpp:165`).
- `TcpSpurious`: the same `wait()` has no predicate, so a read whose wait ends unnotified
  takes the front of an empty queue instead of blocking.
- `ExporterStop`: `recv()` has no time limit (`prometheus_exporter.cpp:92`) and `stop()`
  closes only the listening socket, so a silent client keeps `stop()` in its join.

Seen while modelling, without a run of their own; most are present in the models,
where they are the reason for a condition in a property.

Ring and managers:

- `kNeverDropBlock` on one thread waits for itself (`rclcpp::spin` in `main`;
  `subscription_manager.hpp:195` speaks of two threads). It is latent: every manager of
  the bridge is of type `kControl`, which drops.
- With two threads `force_push_overwrite` can fail to store (`ForcedPushFails`; the
  comment says "Returns true always"), and its store to `tail_` can undo the
  consumer's.
- `is_stale()` has no caller: a static TF topic is not sent again unless
  `publish_stale_data` is set. A TF message that holds a transform and its reverse
  resets the list every time it arrives.

Bridge:

- The bridge's `shutdown()` drops its interface before it flushes, so frames that are still
  delayed are written nowhere and counted as forwarded (`network_bridge.cpp:61` and 128).
- Frames sent after the end of a delay window overtake those still delayed.
- The result of `append()` is not looked at (`network_bridge.cpp:474`): a frame may be on
  the wire and not in the log.
- The engine's worker tests and uses `network_interface_` while `shutdown()` resets it, and
  a write of the worker can meet a connection whose `close()` has reset the socket: a null
  pointer (`WorkerCrashes`).
- A topic's publisher keeps the type of its first message, so a later message of another
  type goes out as that; and an exception of `create_generic_publisher` ends the process
  (`network_bridge.cpp:378` to 401).
- `receive_data` decodes all topics under stream key 0, though `frame_codec.hpp:69`
  says one key per topic: a late frame of one topic is rejected because of a newer
  frame of another. Nothing calls `reset()` on reconnection, as
  `frame_codec.hpp:79` suggests.
- Frames are stamped with the system clock, which may be set back; after a restart
  of the sender `PublishedInSendOrder` needs that it was not (`Orderly`).

Interfaces:

- After a UDP error that comes with bytes no receive is armed any more
  (`udp_interface.cpp:177` to 179); `UdpInterface::has_failed()` is always false, so nobody
  reopens it, and `close()` leaves its sockets open, so nobody could.
- The TCP accept handler and `start_receive()` use `*socket_` after a test, while
  `close()` may reset it (`SocketGoneOnlyInClose` says that only this can happen);
  `remote_endpoint()` may throw out of the handler.
- On a sending TCP bridge the cancelled read of a closed connection can run after
  `open()` has restarted `io_context_` and set `failed_` on the new connection; its handler
  can start a second read there, and both share `receive_buffer_`. That is why
  `ReadyHasSocket` and `DeliveredInOrder` are about receive-only bridges.
- The TCP sender writes the length in host order and the packet thread swaps it
  back: understood only between hosts of one byte order, as a comment there says.
  `tcp_reassembler.hpp` takes the length as big-endian and bounds it, so the two
  parsers differ on what `write()` sends from a little-endian host.
- Two threads in `TcpInterface::write()` can mix the pieces of their messages.
- The io_uring submission queue is shared by up to three threads without a lock; an
  entry can be lost or written by two, and `arm_recv` then leaves a slot unarmed. A
  write of the engine's worker can reach the ring after `close()`. Send slots are
  reused by rotation, complete or not.

Fault engine:

- The restart edge is cleared only by a frame for which no rule at all is active
  (`fault_engine.cpp:73` to 78; the comment says "no active restart rule"). A restart window
  that is reached without such a frame gets no restart, against "once at window start"
  (`fault_engine.hpp:15`); `HookFires` says exactly when it does.
- A frame held when its reorder window ends is never sent nor counted
  (`fault_engine.cpp:145`, "it goes out after the next"), and `flush()` does not release
  it. `HeldNotOvertaken` says which frames may pass it, `VerdictComplete` that a scenario's
  verdict misses it.
- `flush()` can return while the worker holds a popped frame, so `finish()` reads
  metrics without it.

Log:

- A second recording into a directory truncates its first segment, against "Open
  ... for appending" (`wal_writer.hpp:28`).
- A file that cannot be opened at a rollover silences the log for the rest of its life, and a
  failed flush, at a rollover or in `close()`, loses records for which `append()` has returned
  true.

Scenario runner:

- SIGINT and SIGKILL reach the wrapper `ros2 run` only (`scenario_runner.cpp:205` to 214);
  a publisher whose wrapper is killed may survive the run.
- With a delay rule the engine's worker and the executor are in `StreamMetrics::record`
  without a lock, and the exporter's refresh reads a CAN stream's metrics while the
  reader records: records may be torn, counts lost, the heap spoilt.
- `send()` in the exporter to a client that has reset its connection raises SIGPIPE,
  which nobody handles (`prometheus_exporter.cpp:122`): the process dies. `listen_fd_`, which
  `stop()` changes while `serve_loop` reads it, is a plain `int`.
- Faults on a `can` stream have no effect; late, doubled and damaged arrivals move the
  ends of the window and so the drop rate; losses after the last message are not in the
  drop rate; parallel runs share `vcan0` and see each other's sequence numbers, and runs
  of one scenario write one report; the error path of the CAN set-up races with the
  `shutdown()` of its descriptor.

## Proofs

`CoreProofs`, on the ring, for every capacity, number of frames, threading and set of
policies: type correctness, `NoSlotRace`, `FifoNoLoss`, `CountersAccount`,
`NeverDropLossless`, and that the ring implements `StreamFifo`, each of streams whose
producer does not evict (`~Evicting`), which is part of the properties themselves.
The inductive invariant, of such streams, is `TypeOK`, `Control` (what each thread knows at its
step), `Order` (around the array the indices come as tailSeen, tail_, headSeen,
head_ and span less than it) and `Window` (the slots from `tail_` to `head_` hold the
accepted, undelivered frames in order), with `Counted` for the counters. `Order` is
what makes stale loads harmless: they only make the ring look fuller or emptier.

`CoreProofs`, on the seqlock, for every object size and number of stores: type correctness,
`NoTornRead`, `UnchangedMeansPublished`. The invariant relates what a view contains
of the bytes to what it contains of `seq_`: a store to a byte carries the odd
value written before it, and an even value carries all bytes of its version.

`LinkProofs`, on the frame link, for every set of topics and every bound: type correctness,
`HistoryIsGenuine`, `PublishedInSendOrder`. Sequences order the frames of a life of
the sender, timestamps order the lives while the clock is not set back (`Past`,
`Ordered`), and nothing published is newer than the frame in the decoder's history
(`History`), so a frame that passes both checks is not older than any published.

`LinkProofs`, on the bytes of TCP, for every size of a byte, marker, length limit, set
of links and messages, and any number of lost connections: `ParsesAsReference` and
`DeliversWhatWasSent`. What a parser has done with the bytes so far is stated about all
their continuations (`Continues`): however the stream goes on, the reference finds in it
what the parser has put out, and then what it finds from one place on; and what the
parser holds are the bytes from that place (`Pending`). So each byte needs the reference
to be unfolded once at most, at that place. `WireIInv` says this of the packet thread for
what it has taken from the queue (`ReadSoFar`) and of the reassembler for all of the
connection (`FedSoFar`). `OrderlyInv` adds the writer's side for one writer: the bytes of
this connection with those still to be written hold the messages from some k to the last
begun, with no marker after them (`Written`), and the connections before delivered
earlier ones (`OnceInOrder`). A frame that looks like a marker inside is no harm, as the
reference steps over a message as a whole.

`FaultEngineProofs`, for every number of frames and every finite rule set with one
bandwidth rule at most whose delays end within the modelled time: `Inv` (every frame
and every copy in one place), `NoLostWakeup`, `RulesKept` and `NoWriteAfterDestroyed`. The
invariant adds what each thread may be at (`Control`), which dispatches `process()` can
have left (`Shape`: that is what makes the counters add up between two critical
sections), that queue ids are fresh (`Queued`), that frames are numbered as they come
(`Numbered`), that a restart is remembered while its window lasts, and only while every
frame of the stream has had some rule active since (`Edges`), and that what passed plus what
is in the bucket never exceeds the refills (`Bucket`). `HookOncePerWindow` and
`BudgetRespected` are about each rule by itself; `HookFires` is about the sequence of calls.

`TcpInterfaceProofs`, for any bridges and any number of connections and messages:
`Inv`, `DeliveredInOrder`, `NoCallbackAfterClose`. The last, `NotifiedHasByte` and
`SocketGoneOnlyInClose` hold of all roles, with waits that end unnotified at any time.
For a bridge that only receives the argument is `OneOperation`: one operation
of `io_context_` is under way or completed at most, with a handler between two of its
steps counted in, and none once the interface has failed, so nothing of a connection meets
the next; on it rest `PeerKnown` (what flags and handlers say of the peer) and `Line` (the
messages in callback, packet thread, byte queue, buffer and socket are in the order sent).

`IoUringProofs`, for pools of any size that fit the submission queue: `Inv`,
`Receives`, `SentIntact`. `Control` has it that the completion thread runs only on a ring
that exists. While one thread submits at a time (`Alone`), `QueueAlone` says that it
finds the queue empty and its entry where it put it; from it follow that each receive
slot is in one place (`SlotsStayArmed`), that completed buffers keep their bytes
(`Arrivals`), and that a slot of a send in flight holds its bytes or those of a later
turn of the rotation (`Departures`).

`BridgeProofs`, for every configuration, capacity of the ring, transform and datagram
set: `Inv`, `FramesAccounted`, `SentInCaptureOrder`, `WireIsRecorded`,
`PublishesWhatWasFramed`. The invariant follows a frame: `RingOk` (the ring is in order
of capture, after the frame handed out last), `Line` (wire, worker and delay queue are
one ordered line, before the next sequence number, where a late packet may stand before a
delayed one), `Logged` (the log has all of it but what `append()` refused), `Ledger` (every
frame handed out is in that line, lost or vanished), `NetOk` (nothing vanishes while the
interface is there). `PublishersOk` has each publisher with the type of its topic's first
message. That the scan for two terminators gives back the two names needs no induction:
the first terminator is the least index with a zero, and a least index exists in every
non-empty set of naturals.
`TfListRight`, for messages of any length: `TfOk` says that list and index agree, and
`TakenOk` the same of the list after the first i transforms of a message, with what has
been heard up to there (`KnownUpTo`) or the list given up after a clash (`Clashes`).

`ScenarioProofs`, for every set of configurations, any assertions and verdicts of other
runs, every duration, every modulus of the CAN numbers: `Inv`, `StatsUnshared`,
`VerdictComplete`. The invariant says that the reader has ended and its socket is closed
once it is joined, and that an open socket can be found by `stop_can_reader` until
then (`ReaderOk`); that no child is left when the engine is flushed (`ChildOk`); what is
destroyed at each step (`EndOk`, `ExporterOk`); that every message taken in, and every
copy, is recorded, torn, held, delayed, or with main, the worker or the reader (`Count`);
that each of these places is filled only by its rule (`RulesOk`), which with `ReaderOk`
tells who can meet whom at the statistics; and that counter and list are those of the
messages recorded unless one was torn (`StatsOk`).
`MetricsExact`, whose drop rate is that of one message a tick, rests on `Figures`: where
each message is recorded once, as it is read, messages come in the order of their ticks
and of their arrivals, so that the window is that of the first and the last one
(`LineOk`), and the gaps counted are those between neighbours (`GapsOk`).
That a sorted place has its rank is counted: the permutation that sorts sends the places
up to k to values not above the k-th, and an injection keeps cardinalities. Two CAN
numbers one apart modulo the limit come from ticks that differ by one, or by more than
the limit.

`WalProofs`, for any number and size of records, lives, faults and any clock: `Inv` and
`OwnSegmentsGrow` of the writer, `RecoversExactly` of `load()`, `ReplaysLog` of `replay()`.
`WriterInv` describes the files: cells are those of records appended (`CellsAppended`,
`CellsPlaced`), offsets and index follow what has been written even after a failed write
(`Running`, `IndexBehind`, `IndexComplete`), and in the first life records lie in the order
of their appending (`FirstLifeOrder`), which is what makes index and records agree. The
steps that only spoil the ends of files (`Spoils`: refused payloads, failed opens at a
rollover, failed flushes) preserve it all together.
That the scan finds exactly the intact records from a place on is `Finds`, shown from the
end of the file backwards: its resynchronisation skips a cell only where no record
decodes, and two intact records never overlap. The stable sort is a permutation by
rank (`Permutes`), so `SortedRecords` and the counts of `Accounted` hold of what `load()`
returns (`ReaderOk`), for any files.

The library's induction theorems cannot be used with these provers, since they take
the induction hypothesis as an operator. What a recursive function computes (the scan of
the log, the loop over a TF message, `feed`, the reference parser) is proved here
by the least counterexample instead: the places where the claim fails are a set of
naturals, and a least element of it contradicts one unfolding. That the function exists at
all is proved in the same way, place by place.

Only model-checked: all liveness properties (`Progress`, `EndsCleanly` but for its
`NoWriteAfterDestroyed`, `FailureNoticed`, `EveryFrameArrives` and those of the ring and
the seqlock: the prover handles neither fairness nor ENABLED), and what overwrite-oldest
keeps on one thread (`KeepsFreshest`; the ring's theorems are about streams where only the
consumer stores `tail_`).

Three properties were corrected because a proof of them failed. `SegmentsBounded` named
the record that a segment above its size holds by its last cell, which may be the one
that damage has hit. `TfListRight` said that no transform is next to its reverse, which one from a
coordinate frame to itself always is. `WireOrderly` held of a link without a writer.

## Not modelled

CRC32C at the level of bits (damage is assumed to be detected), YAML parsing,
report and dashboard layout, the contents of synthetic sensor messages, the
regression gate (one pass of comparisons), benchmark, stress and fuzz drivers; the
command lines, ports and namespaces of the runners. The CAN reader's `shutdown()` of
its socket only shortens a read that times out anyway. Set-up errors of the UDP
interface end the process. `Bridge` has the delay rule of the engine only; what the
others do to a frame is `FaultEngine`'s, and what a lost, doubled or damaged one does at the
receiver is `FrameLink`'s. `NoCallbackAfterClear` of the UDP interface is
`NoCallbackAfterClose` of `TcpInterface` for TCP. `Scenario` has one rule of a kind at most,
and takes a damaged latency to be a number: a NaN would have no place in a sorted list. A
descriptor that another `open()` gets between `close(listen_fd_)` and the exporter's
`accept()` is left out. Reject counters of the decoder are written and never read by the
program.

## Plan

Left to prove: what overwrite-oldest keeps on one thread, where no load is stale; and
that one direction of `Bridge` implements `FrameLink`, so that the order of publishing
proved there holds of the node's own sequence numbers.
