------------------------------ MODULE Scenario ------------------------------
(***************************************************************************)
(* One run of the scenario runner (scenario/scenario_runner.cpp, called by *)
(* scenario_main.cpp or parallel_runner.cpp): it launches a publisher,     *)
(* measures a stream, and finish() turns the measurements into a verdict.  *)
(*                                                                         *)
(* Threads: main, whose executor runs the subscription and the 1 Hz        *)
(* refresh; the reader of a CAN stream; the worker of the stream's fault   *)
(* engine; the Prometheus exporter.  The publisher is another process,     *)
(* launched by a wrapper, `ros2 run`, which is the runner's child.  A tick *)
(* is the period of the stream: it has at most one message, which bears    *)
(* the tick and is read at once or later.  There is no lock in             *)
(* StreamMetrics::record: what two threads do there is torn.               *)
(***************************************************************************)
EXTENDS StreamMetrics

CONSTANTS Configs,     \* records [stream, duration, rules, exporter, parallel, busUp, child, asserts, others]
          Garbage,     \* numbers a damaged latency or arrival reads as
          SeqLimit,    \* 2^16 in the code: CAN sequence numbers are taken modulo it
          MaxClients   \* bound: clients of the exporter

Rules == {"drop", "corrupt", "reorder", "duplicate", "delay"}

ASSUME ScenarioAssumption ==
    /\ SeqLimit \in Nat \ {0} /\ Garbage \subseteq Int /\ MaxClients \in Nat
    /\ \A c \in Configs : /\ c.stream \in {"topic", "can"} /\ c.rules \subseteq Rules /\ c.duration \in Nat \ {0}
                          /\ {c.exporter, c.parallel, c.busUp} \subseteq BOOLEAN
                          /\ c.child \in {"obeys", "ignores"} /\ c.others \in Seq(Seq(BOOLEAN))

VARIABLES
    config, now,
    mpc,             \* main: "start", "spin", the steps of finish() and of the destructor;
                     \* "killed" if the process has died of a signal
    child,           \* the wrapper: "none", "alive", "zombie", "reaped"
    m, got,          \* the statistics; history: messages recorded
    raced, spoilt,   \* history: two threads were at the statistics; messages torn there
    accepted,        \* history: messages the run took in, copies of the engine's too
    can, inbox,      \* the CAN reader; messages not read, by their ticks
    held, delayed,   \* the fault engine: the frame a reorder rule holds; its queue,
    todo, hand,      \* and what main and its worker are about to record
    exp, clients,    \* the exporter's thread; clients so far
    gone,            \* members destroyed
    verdict, code    \* of the assertions, as a sequence; of the process

stats   == <<m, got, raced, spoilt, accepted>>
engine  == <<held, delayed, todo, hand>>
server  == <<exp, clients>>
outcome == <<verdict, code>>
vars    == <<config, now, mpc, child, stats, can, inbox, engine, server, gone, outcome>>

\* A message of tick t that is read now: its latency and its arrival (record(), the
\* reader's loop).
Read(t) == [tick |-> t, latency |-> now - t, at |-> now]

Init ==
    /\ config \in Configs /\ now = 0
    /\ mpc = "start" /\ child = "none"
    /\ m = New /\ got = << >> /\ raced = FALSE /\ spoilt = 0 /\ accepted = 0
    /\ can = [pc |-> "off", fd |-> "none", can_fd_ |-> -1, stop |-> FALSE, prev_seq |-> -1, gap |-> FALSE,
              frame |-> Read(0)]
    /\ inbox = << >> /\ held = << >> /\ delayed = << >> /\ todo = << >> /\ hand = << >>
    /\ exp = [pc |-> "off", running |-> FALSE, listening |-> FALSE, client |-> "none"] /\ clients = 0
    /\ gone = {} /\ verdict = << >> /\ code = -1

\* A thread other than main is at the statistics.
Busy == can.pc = "record" \/ hand # << >>

\* record() of f, of which the list or the counter, or both, are lost if another thread
\* is in it too (clash).
Records(f, gap, clash) ==
    LET all == Record(m, f.latency, f.at, gap)
    IN  \/ m' = all /\ got' = Append(got, f) /\ UNCHANGED spoilt
        \/ /\ clash /\ spoilt' = spoilt + 1 /\ UNCHANGED got
           /\ \/ m' = [all EXCEPT !.latencies_ms_ = m.latencies_ms_]
              \/ m' = [all EXCEPT !.received_ = m.received_]
              \/ m' = [all EXCEPT !.latencies_ms_ = m.latencies_ms_, !.received_ = m.received_]

-----------------------------------------------------------------------------
(* start() and the time of the scenario                                    *)

\* spawn_publisher: a child, which is the wrapper, or an error in the log.
SpawnPublisher == child' \in {"alive", "none"}

\* start_can_reader, for a CAN stream.
StartCanReader == can' = [can EXCEPT !.pc = IF config.stream = "can" THEN "socket" ELSE "off"]

\* PrometheusExporter::start: it listens, if it gets its port, and has a thread then.
StartExporter ==
    \E up \in {config.exporter, FALSE} :
        exp' = [exp EXCEPT !.running = up, !.listening = up, !.pc = IF up THEN "poll" ELSE "off"]

\* start(): the statistics and the engine are there before what feeds them.
Start ==
    /\ mpc = "start" /\ mpc' = "spin"
    /\ SpawnPublisher /\ StartCanReader /\ StartExporter
    /\ UNCHANGED <<config, now, stats, inbox, engine, clients, gone, outcome>>

\* A tick without a message, or with one that is lost on the way.
TickNothing ==
    /\ mpc = "spin" /\ now < config.duration /\ now' = now + 1
    /\ UNCHANGED <<config, mpc, child, stats, can, inbox, engine, server, gone, outcome>>

\* A message of the publisher, which its wrapper may have left behind: of the topic, or a
\* frame on the bus that the reader is bound to.
TickMessage ==
    /\ mpc = "spin" /\ now < config.duration /\ now' = now + 1
    /\ child # "none" /\ (config.stream = "can" => can.pc \in {"loop", "read", "record"})
    /\ inbox' = Append(inbox, now')
    /\ UNCHANGED <<config, mpc, child, stats, can, engine, server, gone, outcome>>

\* Main's executor runs the subscription.
Subscription == mpc = "spin" /\ config.stream = "topic" /\ inbox # << >> /\ todo = << >>

\* FaultEngine::process drops the message.
EngineDrops ==
    /\ Subscription /\ "drop" \in config.rules /\ inbox' = Tail(inbox)
    /\ UNCHANGED <<config, now, mpc, child, stats, can, engine, server, gone, outcome>>

\* What the rules may make of f: flipped bits are in its latency or its arrival.
Payloads(f) ==
    LET noise == IF "corrupt" \in config.rules THEN Garbage ELSE {}
    IN  [tick : {f.tick}, latency : noise \cup {f.latency}, at : noise \cup {f.at}]

\* dispatch_or_delay of the messages of s.
Dispatch(s, active) ==
    IF "delay" \in active THEN delayed' = delayed \o s /\ UNCHANGED todo
    ELSE todo' = s /\ UNCHANGED delayed

\* It holds the message back, to be overtaken by the next.
EngineHolds ==
    /\ Subscription /\ "reorder" \in config.rules /\ held = << >>
    /\ \E p \in Payloads(Read(Head(inbox))) : held' = <<p>>
    /\ inbox' = Tail(inbox) /\ accepted' = accepted + 1
    /\ UNCHANGED <<config, now, mpc, child, m, got, raced, spoilt, can, delayed, todo, hand, server, gone, outcome>>

\* It lets it pass, before the one it held, or once or twice; without rules record() does.
EnginePasses ==
    /\ Subscription /\ inbox' = Tail(inbox)
    /\ \E active \in SUBSET config.rules : \E p \in Payloads(Read(Head(inbox))) :
          \/ /\ "reorder" \in active /\ held # << >>
             /\ Dispatch(<<p, Head(held)>>, active) /\ held' = << >> /\ accepted' = accepted + 1
          \/ /\ "reorder" \notin active /\ "duplicate" \in active
             /\ Dispatch(<<p, p>>, active) /\ accepted' = accepted + 2 /\ UNCHANGED held
          \/ /\ active \cap {"reorder", "duplicate"} = {}
             /\ Dispatch(<<p>>, active) /\ accepted' = accepted + 1 /\ UNCHANGED held
    /\ UNCHANGED <<config, now, mpc, child, m, got, raced, spoilt, can, hand, server, gone, outcome>>

\* record() on main, of the subscription or of flush().
MainRecords ==
    /\ mpc \in {"spin", "flush"} /\ todo # << >> /\ todo' = Tail(todo)
    /\ Records(Head(todo), FALSE, hand # << >>)
    /\ raced' = (raced \/ Busy)
    /\ UNCHANGED <<config, now, mpc, child, accepted, can, inbox, held, delayed, hand, server, gone, outcome>>

\* The 1 Hz refresh: update_registry reads the statistics.
UpdateRegistry ==
    /\ mpc = "spin" /\ todo = << >> /\ exp.pc # "off"
    /\ raced' = (raced \/ Busy)
    /\ UNCHANGED <<config, now, mpc, child, m, got, spoilt, accepted, can, inbox, engine, server, gone, outcome>>

\* The wrapper exits, by itself or of SIGINT; the publisher may outlive it.
ChildExits ==
    /\ child = "alive" /\ (mpc = "spin" \/ (mpc = "poll" /\ config.child = "obeys"))
    /\ child' = "zombie"
    /\ UNCHANGED <<config, now, mpc, stats, can, inbox, engine, server, gone, outcome>>

-----------------------------------------------------------------------------
(* finish()                                                                *)

\* The time is over, or rclcpp::ok() false: stop_can_reader raises its flag.  (Its
\* shutdown() of the socket only shortens a read that times out anyway.)
Finish ==
    /\ mpc = "spin" /\ todo = << >> /\ mpc' = "join"
    /\ can' = [can EXCEPT !.stop = TRUE]
    /\ UNCHANGED <<config, now, child, stats, inbox, engine, server, gone, outcome>>

\* Test seeding: a reader at its statistics is not waited for.
JoinReaderEarly ==
    /\ mpc = "join" /\ can.pc \in {"off", "done", "record"} /\ mpc' = "int"
    /\ can' = IF can.can_fd_ >= 0 THEN [can EXCEPT !.can_fd_ = -1, !.fd = "closed"] ELSE can
    /\ UNCHANGED <<config, now, child, stats, inbox, engine, server, gone, outcome>>

\* It joins the reader and closes the socket the reader left open.
JoinReader ==
    /\ mpc = "join" /\ can.pc \in {"off", "done"} /\ mpc' = "int"
    /\ can' = IF can.can_fd_ >= 0 THEN [can EXCEPT !.can_fd_ = -1, !.fd = "closed"] ELSE can
    /\ UNCHANGED <<config, now, child, stats, inbox, engine, server, gone, outcome>>

\* reap_children: SIGINT, if there are children.
Interrupt ==
    /\ mpc = "int" /\ mpc' = IF child = "none" THEN "flush" ELSE "poll"
    /\ UNCHANGED <<config, now, child, stats, can, inbox, engine, server, gone, outcome>>

\* waitpid() gets a child that has exited.
Reap ==
    /\ mpc = "poll" /\ child = "zombie"
    /\ child' = "reaped" /\ mpc' = "flush"
    /\ UNCHANGED <<config, now, stats, can, inbox, engine, server, gone, outcome>>

\* Test seeding: the grace period ends without SIGKILL.
KillNot ==
    /\ mpc = "poll" /\ child = "alive"
    /\ child' = child /\ mpc' = "flush"
    /\ UNCHANGED <<config, now, stats, can, inbox, engine, server, gone, outcome>>

\* Test seeding: a child that is asked to exit is waited for.
KillWaits ==
    /\ mpc = "poll" /\ child = "zombie"
    /\ child' = "reaped" /\ mpc' = "flush"
    /\ UNCHANGED <<config, now, stats, can, inbox, engine, server, gone, outcome>>

\* Three seconds later: SIGKILL and waitpid().
Kill ==
    /\ mpc = "poll" /\ child = "alive"
    /\ child' = "reaped" /\ mpc' = "flush"
    /\ UNCHANGED <<config, now, stats, can, inbox, engine, server, gone, outcome>>

\* Test seeding: delayed messages are thrown away.
FlushDrops ==
    /\ mpc = "flush" /\ todo = << >> /\ delayed # << >>
    /\ delayed' = Tail(delayed)
    /\ UNCHANGED <<config, now, mpc, child, stats, can, inbox, held, todo, hand, server, gone, outcome>>

\* The engine's flush() pops what is delayed, to record it; what is held stays.
Flush ==
    /\ mpc = "flush" /\ todo = << >> /\ delayed # << >>
    /\ delayed' = Tail(delayed) /\ todo' = <<Head(delayed)>>
    /\ UNCHANGED <<config, now, mpc, child, stats, can, inbox, held, hand, server, gone, outcome>>

\* emit(), evaluate_all(), counters and report; a parallel run adds up its scenarios,
\* a single one ends without destroying anything.
Judge ==
    /\ mpc = "flush" /\ todo = << >> /\ delayed = << >>
    /\ raced' = (raced \/ Busy)
    /\ verdict' = EvaluateAll(config.asserts, Emit(m, 1, config.duration))
    /\ code' = IF AllPassed(Aggregate(<<verdict'>> \o config.others)) THEN 0 ELSE 1
    /\ mpc' = IF config.parallel THEN "stop" ELSE "exit"
    /\ UNCHANGED <<config, now, child, m, got, spoilt, accepted, can, inbox, engine, server, gone>>

-----------------------------------------------------------------------------
(* ~ScenarioRunner: the members go in the reverse order of declaration     *)

\* PrometheusExporter::stop lowers the flag,
StopExporter ==
    /\ mpc = "stop" /\ mpc' = "unlisten"
    /\ exp' = [exp EXCEPT !.running = FALSE]
    /\ UNCHANGED <<config, now, child, stats, can, inbox, engine, clients, gone, outcome>>

\* closes the socket it listens on,
StopListening ==
    /\ mpc = "unlisten" /\ mpc' = "joinexp"
    /\ exp' = [exp EXCEPT !.listening = FALSE]
    /\ UNCHANGED <<config, now, child, stats, can, inbox, engine, clients, gone, outcome>>

\* and joins the thread.
JoinExporter ==
    /\ mpc = "joinexp" /\ exp.pc \in {"off", "done"}
    /\ mpc' = "engines" /\ gone' = gone \cup {"exporter", "registry"}
    /\ UNCHANGED <<config, now, child, stats, can, inbox, engine, server, outcome>>

\* The engine's destructor joins its worker.
DestroyEngines ==
    /\ mpc = "engines" /\ hand = << >>
    /\ mpc' = "metrics" /\ gone' = gone \cup {"engines"}
    /\ UNCHANGED <<config, now, child, stats, can, inbox, engine, server, outcome>>

DestroyMetrics ==
    /\ mpc = "metrics"
    /\ mpc' = "exit" /\ gone' = gone \cup {"metrics"}
    /\ UNCHANGED <<config, now, child, stats, can, inbox, engine, server, outcome>>

-----------------------------------------------------------------------------
(* can_reader_loop                                                         *)

CanOpens ==
    /\ can.pc = "socket"
    /\ \/ can' = [can EXCEPT !.pc = "setup", !.fd = "open", !.can_fd_ = 1]
       \/ can' = [can EXCEPT !.pc = "done"]
    /\ UNCHANGED <<config, now, mpc, child, stats, inbox, engine, server, gone, outcome>>

\* The interface is there and bound to, or the socket is closed.
CanSetup ==
    /\ can.pc = "setup"
    /\ can' = IF config.busUp THEN [can EXCEPT !.pc = "loop"]
              ELSE [can EXCEPT !.pc = "forget", !.fd = "closed"]
    /\ UNCHANGED <<config, now, mpc, child, stats, inbox, engine, server, gone, outcome>>

CanForgets ==
    /\ can.pc = "forget"
    /\ can' = [can EXCEPT !.pc = "done", !.can_fd_ = -1]
    /\ UNCHANGED <<config, now, mpc, child, stats, inbox, engine, server, gone, outcome>>

\* A sequence number that is not the next one.
IsGap(prev, seq) == prev >= 0 /\ seq # (prev + 1) % SeqLimit

\* The flag is looked at.
CanChecks ==
    /\ can.pc = "loop"
    /\ can' = [can EXCEPT !.pc = IF can.stop THEN "done" ELSE "read"]
    /\ UNCHANGED <<config, now, mpc, child, stats, inbox, engine, server, gone, outcome>>

\* read() times out.
CanTimesOut ==
    /\ can.pc = "read" /\ inbox = << >>
    /\ can' = [can EXCEPT !.pc = "loop"]
    /\ UNCHANGED <<config, now, mpc, child, stats, inbox, engine, server, gone, outcome>>

\* A frame is read and decoded; its arrival is the time of that.
CanReads ==
    /\ can.pc = "read" /\ inbox # << >>
    /\ inbox' = Tail(inbox) /\ accepted' = accepted + 1
    /\ LET seq == Head(inbox) % SeqLimit
       IN  can' = [can EXCEPT !.pc = "record", !.frame = Read(Head(inbox)), !.prev_seq = seq,
                              !.gap = IsGap(can.prev_seq, seq)]
    /\ UNCHANGED <<config, now, mpc, child, m, got, raced, spoilt, engine, server, gone, outcome>>

CanRecords ==
    /\ can.pc = "record" /\ can' = [can EXCEPT !.pc = "loop"]
    /\ Records(can.frame, can.gap, FALSE)
    /\ UNCHANGED <<config, now, mpc, child, raced, accepted, inbox, engine, server, gone, outcome>>

-----------------------------------------------------------------------------
(* The fault engine's worker                                               *)

WorkerPops ==
    /\ delayed # << >> /\ hand = << >> /\ "engines" \notin gone
    /\ hand' = <<Head(delayed)>> /\ delayed' = Tail(delayed)
    /\ UNCHANGED <<config, now, mpc, child, stats, can, inbox, held, todo, server, gone, outcome>>

WorkerRecords ==
    /\ hand # << >> /\ hand' = << >>
    /\ Records(Head(hand), FALSE, todo # << >>)
    /\ raced' = (raced \/ todo # << >>)
    /\ UNCHANGED <<config, now, mpc, child, accepted, can, inbox, held, delayed, todo, server, gone, outcome>>

-----------------------------------------------------------------------------
(* serve_loop, and a client                                                *)

\* running_ is looked at, and poll() returns for a client or times out.
ExpPolls ==
    /\ exp.pc = "poll" /\ (~exp.running \/ exp.client # "none")
    /\ exp' = [exp EXCEPT !.pc = IF exp.running THEN "accept" ELSE "done"]
    /\ UNCHANGED <<config, now, mpc, child, stats, can, inbox, engine, clients, gone, outcome>>

\* accept() gets the client, or fails on the closed socket.
ExpAccepts ==
    /\ exp.pc = "accept"
    /\ exp' = [exp EXCEPT !.pc = IF exp.listening THEN "recv" ELSE "poll"]
    /\ UNCHANGED <<config, now, mpc, child, stats, can, inbox, engine, clients, gone, outcome>>

\* recv() waits for the client's request or for its end, without a time limit.
ExpReceives ==
    /\ exp.pc = "recv" /\ exp.client \in {"spoke", "reset"}
    /\ exp' = [exp EXCEPT !.pc = "respond"]
    /\ UNCHANGED <<config, now, mpc, child, stats, can, inbox, engine, clients, gone, outcome>>

\* render(), send(), close().
ExpResponds ==
    /\ exp.pc = "respond"
    /\ exp' = [exp EXCEPT !.pc = "poll", !.client = "none"]
    /\ UNCHANGED <<config, now, mpc, child, stats, can, inbox, engine, clients, gone, outcome>>

ClientConnects ==
    /\ exp.listening /\ exp.client = "none" /\ clients < MaxClients
    /\ clients' = clients + 1 /\ exp' = [exp EXCEPT !.client = "silent"]
    /\ UNCHANGED <<config, now, mpc, child, stats, can, inbox, engine, gone, outcome>>

\* It sends its request or closes its end,
ClientSpeaks ==
    /\ exp.client = "silent" /\ exp' = [exp EXCEPT !.client = "spoke"]
    /\ UNCHANGED <<config, now, mpc, child, stats, can, inbox, engine, clients, gone, outcome>>

\* or resets the connection.
ClientResets ==
    /\ exp.client \in {"silent", "spoke"} /\ exp' = [exp EXCEPT !.client = "reset"]
    /\ UNCHANGED <<config, now, mpc, child, stats, can, inbox, engine, clients, gone, outcome>>

-----------------------------------------------------------------------------
(* The process dies                                                        *)

\* send() to a connection that was reset raises SIGPIPE, which nobody handles; two threads
\* in a std::vector may have spoilt the heap.
Killed ==
    /\ \/ exp.pc = "respond" /\ exp.client = "reset"
       \/ raced
    /\ mpc' = "killed"
    /\ UNCHANGED <<config, now, child, stats, can, inbox, engine, server, gone, outcome>>

-----------------------------------------------------------------------------
\* The process, or the part of it that is the runner, has not ended.
Running == mpc \notin {"exit", "killed"}

Main       == Start \/ EngineDrops \/ EngineHolds \/ EnginePasses \/ UpdateRegistry \/ Finish
FinishStep == MainRecords \/ JoinReader \/ Interrupt \/ Reap \/ Kill \/ Flush \/ Judge
Destroy    == StopExporter \/ StopListening \/ JoinExporter \/ DestroyEngines \/ DestroyMetrics
Reader     == Running /\ \/ CanOpens \/ CanSetup \/ CanForgets
                         \/ CanChecks \/ CanTimesOut \/ CanReads \/ CanRecords
Worker     == Running /\ (WorkerPops \/ WorkerRecords)
Exporter   == Running /\ (ExpPolls \/ ExpAccepts \/ ExpReceives \/ ExpResponds)
World      == TickNothing \/ TickMessage \/ ChildExits
Clients    == Running /\ (ClientConnects \/ ClientSpeaks \/ ClientResets)

Next ==
    \/ Main \/ FinishStep \/ Destroy \/ Reader \/ Worker \/ Exporter
    \/ World \/ Clients \/ (Running /\ Killed)

Spec == Init /\ [][Next]_vars

\* Threads run.  Nobody makes a client of the exporter speak or go away.
FairSpec == /\ Spec
            /\ WF_vars(FinishStep) /\ WF_vars(Destroy) /\ WF_vars(Reader)
            /\ WF_vars(Worker) /\ WF_vars(Exporter)

-----------------------------------------------------------------------------
(* Properties                                                              *)

\* Types; the counter and the list of latencies agree unless two threads were in record().
TypeOK ==
    /\ config \in Configs /\ now \in 0 .. config.duration /\ code \in {-1, 0, 1}
    /\ mpc \in {"start", "spin", "join", "int", "poll", "flush", "stop", "unlisten", "joinexp", "engines",
                "metrics", "exit", "killed"}
    /\ child \in {"none", "alive", "zombie", "reaped"}
    /\ spoilt = 0 => m.received_ = Len(m.latencies_ms_) /\ m.received_ = Len(got)
    /\ can.fd \in {"none", "open", "closed"} /\ can.prev_seq \in -1 .. SeqLimit - 1
    /\ gone \subseteq {"exporter", "registry", "engines", "metrics"}

\* A percentile is the value at its rank: as many values lie at or below it, and no more
\* below it, as its position says; so p50, p99 and p999 never cross.
PctHasItsRank ==
    LET s == m.latencies_ms_
        n == Len(s)
        Below(v)  == Cardinality({i \in DOMAIN s : s[i] < v})
        AtMost(v) == Cardinality({i \in DOMAIN s : s[i] <= v})
    IN  /\ n > 0 => \A p \in {500, 990, 999} :
               /\ 1000 * Below(Pct(m, p)) <= p * (n - 1)
               /\ 1000 * AtMost(Pct(m, p)) > p * (n - 1)
        /\ Pct(m, 500) <= Pct(m, 990) /\ Pct(m, 990) <= Pct(m, 999)

\* What the drop rate of messages recorded once, as they are read, stands for: of the
\* time from the first arrival to the last, the messages that are missing between the two,
\* and the ticks by which the last was read later after its sending than the first.
DropRateExact ==
    LET first  == got[1]
        last   == got[Len(got)]
        window == last.at - first.at
        missed == {t \in first.tick .. last.tick : \A i \in DOMAIN got : got[i].tick # t}
        lost   == Cardinality(missed) + last.latency - first.latency
        rate   == DropRate(m, 1, config.duration)
    IN  (config.stream = "can" \/ config.rules \subseteq {"drop"}) /\ Len(got) > 1 /\ window > 0 =>
            rate.n * window = 100 * (IF lost > 0 THEN lost ELSE 0) * rate.d

\* A CAN gap is counted exactly where frames are missing between two frames read, over
\* the wrap of the sequence number too, unless SeqLimit frames or more went by.
GapsExact ==
    LET jumps == {i \in 1 .. Len(got) - 1 : got[i + 1].tick - got[i].tick > 1}
    IN  config.stream = "can" /\ (\A i \in jumps : got[i + 1].tick - got[i].tick <= SeqLimit) =>
            m.sequence_gaps_ = Cardinality(jumps)

\* Two threads are never at the statistics at once, unless a delay rule lets the
\* engine's worker record, or the exporter's refresh reads those of a CAN stream.
StatsUnshared == raced => "delay" \in config.rules \/ (config.stream = "can" /\ config.exporter)

\* The verdict is that of all messages taken in, and of each copy of one, but for these: the
\* one a reorder rule holds, which flush() leaves; with a delay rule, the one the
\* worker has in hand and those that were torn.
VerdictComplete ==
    code >= 0 => /\ Len(got) + Len(held) + Len(hand) + spoilt = accepted
                 /\ Len(held) <= (IF "reorder" \in config.rules THEN 1 ELSE 0)
                 /\ Len(hand) <= (IF "delay" \in config.rules THEN 1 ELSE 0)
                 /\ spoilt > 0 => "delay" \in config.rules

\* A run leaves no child, not even a zombie, and no socket of its reader behind.  The
\* child is the wrapper `ros2 run`.
LeavesNothing == code >= 0 => child \notin {"alive", "zombie"} /\ can.fd # "open"

\* What stop_can_reader closes, once the reader has ended, the reader has not closed.
ClosesOnce == can.pc \in {"off", "done"} /\ can.can_fd_ >= 0 => can.fd = "open"

\* No thread works on a member that is gone: the engine's worker on the statistics, the
\* exporter on the registry.
MembersOutliveThreads ==
    /\ "metrics" \in gone => hand = << >> /\ can.pc # "record"
    /\ "registry" \in gone => exp.pc \in {"off", "done"}

\* finish() returns, whatever the publisher, the bus and the delay queue do, if the process
\* lives.
FinishReturns == mpc = "join" ~> code >= 0 \/ mpc = "killed"

\* The exporter's thread is in recv() with a client that says nothing.
Waits == exp.pc = "recv" /\ exp.client = "silent"

\* The runner can be destroyed, unless a client of the exporter is silent for ever.
DestructorReturns == mpc = "stop" ~> mpc \in {"exit", "killed"} \/ []Waits

\* The exporter's stop() returns (prometheus_exporter.cpp:75 to 77).
StopReturns == mpc = "stop" ~> mpc \notin {"stop", "unlisten", "joinexp"}

\* A runner cleans up after itself: children, sockets, and threads before the members
\* they use.
Inv == TypeOK /\ LeavesNothing /\ ClosesOnce /\ MembersOutliveThreads

\* The three figures of a stream are those of the messages it really had.
MetricsExact == PctHasItsRank /\ DropRateExact /\ GapsExact

\* A run that is told to finish does, and its runner can be destroyed.
Progress == FinishReturns /\ DestructorReturns
=============================================================================
