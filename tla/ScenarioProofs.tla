--------------------------- MODULE ScenarioProofs ---------------------------
(***************************************************************************)
(* Proofs about Scenario for every set of configurations, any assertions   *)
(* and results of other runs, every duration and number of clients.        *)
(***************************************************************************)
EXTENDS Scenario, SequenceTheorems, FiniteSetTheorems, TLAPS

-----------------------------------------------------------------------------
(* The inductive invariant                                                 *)

Frames == [tick : Nat, latency : Int, at : Int]

CanFields    == {"pc", "fd", "can_fd_", "stop", "prev_seq", "gap", "frame"}
ExpFields    == {"pc", "running", "listening", "client"}
MetricFields == {"latencies_ms_", "received_", "sequence_gaps_", "has_arrival_", "first_arrival_s_",
                 "last_arrival_s_"}

Ending == {"stop", "unlisten", "joinexp", "engines", "metrics", "exit"}

Typed ==
    /\ config \in Configs /\ now \in 0 .. config.duration /\ code \in {-1, 0, 1}
    /\ mpc \in {"start", "spin", "join", "int", "poll", "flush", "killed"} \cup Ending
    /\ child \in {"none", "alive", "zombie", "reaped"}
    /\ gone \subseteq {"exporter", "registry", "engines", "metrics"}

\* The CAN reader's record.
CanTyped(c) ==
    /\ c = [x \in CanFields |-> c[x]]
    /\ c.pc \in {"off", "socket", "setup", "forget", "loop", "read", "record", "done"}
    /\ c.fd \in {"none", "open", "closed"} /\ c.can_fd_ \in {-1, 1}
    /\ c.prev_seq \in -1 .. SeqLimit - 1 /\ c.frame \in Frames

\* The exporter's record.
ExpTyped(e) ==
    /\ e = [x \in ExpFields |-> e[x]]
    /\ e.pc \in {"off", "poll", "accept", "recv", "respond", "done"}

\* Nothing, or one message.
OneAtMost(s) == s = << >> \/ (s = <<Head(s)>> /\ Head(s) \in Frames)

\* Messages on their way to the statistics.
Queues == /\ inbox \in Seq(Nat) /\ delayed \in Seq(Frames) /\ todo \in Seq(Frames)
          /\ OneAtMost(held) /\ OneAtMost(hand)

\* The reader runs for a CAN stream only and has ended once it is joined; an open socket
\* is one that stop_can_reader can still find, and what it finds is open.
ReaderOk ==
    /\ CanTyped(can)
    /\ can.pc # "off" => config.stream = "can" /\ mpc # "start"
    /\ mpc \notin {"start", "spin", "join", "killed"} \/ code >= 0 => can.pc \in {"off", "done"} /\ can.fd # "open"
    /\ can.fd = "open" => can.can_fd_ = 1 /\ can.pc # "forget"
    /\ can.can_fd_ = 1 => can.fd = "open" \/ can.pc = "forget"

ChildOk == mpc = "flush" \/ code >= 0 => child \in {"none", "reaped"}

\* The exporter's thread exists only if one is configured, and ends before the registry.
ExporterOk ==
    /\ ExpTyped(exp) /\ (mpc = "start" => exp.pc = "off")
    /\ exp.pc # "off" => config.exporter
    /\ "registry" \in gone => exp.pc \in {"off", "done"}

\* What has been destroyed at each step; the engine has nothing left after the verdict.
EndOk ==
    /\ mpc \in Ending => code >= 0
    /\ code >= 0 => mpc \in Ending \cup {"killed"} /\ delayed = << >>
    /\ todo # << >> => mpc \in {"spin", "flush", "killed"} /\ ~(code >= 0)
    /\ gone # {} => mpc \in {"engines", "metrics", "exit", "killed"} /\ code >= 0
    /\ "engines" \in gone => hand = << >> /\ mpc \in {"metrics", "exit", "killed"}
    /\ "metrics" \in gone \/ mpc = "metrics" => "engines" \in gone

\* The parts of the engine that only a rule fills.
RulesOk ==
    /\ "delay" \notin config.rules => delayed = << >> /\ hand = << >> /\ spoilt = 0
    /\ "reorder" \notin config.rules => held = << >>
    /\ config.stream = "can" => todo = << >> /\ held = << >> /\ delayed = << >> /\ hand = << >> /\ spoilt = 0

AtReader == IF can.pc = "record" THEN 1 ELSE 0

\* Every message taken in is recorded, torn or on its way.
Count ==
    /\ got \in Seq(Frames) /\ accepted \in Nat /\ spoilt \in Nat
    /\ Len(got) + spoilt + Len(held) + Len(delayed) + Len(todo) + Len(hand) + AtReader = accepted

\* The statistics s, of k messages if none was torn.
StatsOf(s, torn, k) ==
    /\ s = [x \in MetricFields |-> s[x]]
    /\ s.latencies_ms_ \in Seq(Int) /\ s.received_ \in Nat
    /\ ~torn => s.received_ = Len(s.latencies_ms_) /\ s.received_ = k

StatsOk == StatsOf(m, spoilt # 0, Len(got))

\* The inductive invariant.
IInv == /\ Typed /\ Queues /\ ReaderOk /\ ChildOk /\ ExporterOk /\ EndOk /\ RulesOk
        /\ Count /\ StatsOk /\ StatsUnshared

-----------------------------------------------------------------------------
(* Statistics                                                              *)

LEMMA RecordStats ==
    ASSUME NEW s, NEW k \in Nat, NEW torn \in BOOLEAN, StatsOf(s, torn, k), NEW l \in Int, NEW a, NEW g
    PROVE  /\ StatsOf(Record(s, l, a, g), torn, k + 1)
           /\ Record(s, l, a, g).latencies_ms_ = Append(s.latencies_ms_, l)
           /\ Record(s, l, a, g).received_ = s.received_ + 1
<1> DEFINE q == IF g THEN s.sequence_gaps_ + 1 ELSE s.sequence_gaps_
           b == IF s.has_arrival_ THEN s.first_arrival_s_ ELSE a
           e == Append(s.latencies_ms_, l)
           n == s.received_ + 1
           r == [s EXCEPT !.latencies_ms_ = e, !.received_ = n, !.sequence_gaps_ = q,
                          !.has_arrival_ = TRUE, !.first_arrival_s_ = b, !.last_arrival_s_ = a]
<1>1. Record(s, l, a, g) = r
  BY DEF Record, StatsOf, MetricFields
<1>2. e \in Seq(Int) /\ Len(e) = Len(s.latencies_ms_) + 1 /\ n \in Nat /\ (~torn => n = k + 1 /\ n = Len(e))
  BY DEF StatsOf
<1>3. r = [x \in MetricFields |-> r[x]] /\ r.latencies_ms_ = e /\ r.received_ = n
  <2> HIDE DEF q, b, e, n
  <2> QED BY DEF StatsOf, MetricFields
<1> HIDE DEF r, e, n
<1>4. StatsOf(r, torn, k + 1)
  BY <1>2, <1>3 DEF StatsOf
<1> QED BY <1>1, <1>3, <1>4 DEF e, n

\* Statistics of which the list or the counter is another's.
LEMMA TornStats ==
    ASSUME NEW s, NEW k, NEW torn, StatsOf(s, torn, k), NEW l \in Seq(Int), NEW n \in Nat, NEW k2
    PROVE  /\ StatsOf([s EXCEPT !.latencies_ms_ = l], TRUE, k2)
           /\ StatsOf([s EXCEPT !.received_ = n], TRUE, k2)
           /\ StatsOf([s EXCEPT !.latencies_ms_ = l, !.received_ = n], TRUE, k2)
<1>1. s = [x \in MetricFields |-> s[x]] /\ s.latencies_ms_ \in Seq(Int) /\ s.received_ \in Nat
  BY DEF StatsOf
<1>2. StatsOf([s EXCEPT !.latencies_ms_ = l], TRUE, k2)
  BY <1>1 DEF StatsOf, MetricFields
<1>3. StatsOf([s EXCEPT !.received_ = n], TRUE, k2)
  BY <1>1 DEF StatsOf, MetricFields
<1>4. StatsOf([s EXCEPT !.latencies_ms_ = l, !.received_ = n], TRUE, k2)
  BY <1>1 DEF StatsOf, MetricFields
<1> QED BY <1>2, <1>3, <1>4

LEMMA ConfigOk ==
    ASSUME NEW c \in Configs
    PROVE  /\ c.stream \in {"topic", "can"} /\ c.rules \subseteq Rules /\ c.exporter \in BOOLEAN
           /\ c.duration \in Nat \ {0}
BY ScenarioAssumption

LEMMA ReadFrame == ASSUME IInv, NEW t \in Nat PROVE Read(t) \in Frames /\ Read(t).tick = t
<1>1. now \in Int
  BY ConfigOk DEF IInv, Typed
<1> QED BY <1>1 DEF Read, Frames

LEMMA PayloadFrames ==
    ASSUME NEW f \in Frames, NEW p \in Payloads(f) PROVE p \in Frames /\ p.tick = f.tick
<1>1. Garbage \subseteq Int
  BY ScenarioAssumption
<1> QED BY <1>1 DEF Payloads, Frames

-----------------------------------------------------------------------------
(* What the invariant says                                                 *)

LEMMA IInvInv == IInv => Inv
<1> SUFFICES ASSUME IInv PROVE Inv
  OBVIOUS
<1>1. TypeOK
  BY DEF IInv, Typed, ReaderOk, CanTyped, StatsOk, StatsOf, TypeOK, Ending
<1>2. LeavesNothing /\ ClosesOnce
  BY DEF IInv, ChildOk, ReaderOk, CanTyped, LeavesNothing, ClosesOnce
<1>3. MembersOutliveThreads
  BY DEF IInv, EndOk, ExporterOk, ReaderOk, MembersOutliveThreads
<1> QED BY <1>1, <1>2, <1>3 DEF Inv

LEMMA IInvVerdict == IInv => VerdictComplete
<1> SUFFICES ASSUME IInv, code >= 0 PROVE VerdictComplete
  BY DEF VerdictComplete
<1>1. delayed = << >> /\ todo = << >> /\ can.pc # "record"
  BY DEF IInv, EndOk, ReaderOk
<1>2. Len(held) \in 0 .. 1 /\ Len(hand) \in 0 .. 1
  BY DEF IInv, Queues, OneAtMost
<1>3. Len(got) + spoilt + Len(held) + Len(hand) = accepted /\ Len(got) \in Nat /\ spoilt \in Nat
  BY <1>1, <1>2 DEF IInv, Count, AtReader
<1>4. /\ Len(held) <= (IF "reorder" \in config.rules THEN 1 ELSE 0)
      /\ Len(hand) <= (IF "delay" \in config.rules THEN 1 ELSE 0)
      /\ spoilt > 0 => "delay" \in config.rules
  <2>1. RulesOk /\ (held = << >> => Len(held) = 0) /\ (hand = << >> => Len(hand) = 0)
    BY DEF IInv
  <2>2. Len(held) <= (IF "reorder" \in config.rules THEN 1 ELSE 0)
    BY <1>2, <2>1 DEF RulesOk
  <2>3. Len(hand) <= (IF "delay" \in config.rules THEN 1 ELSE 0)
    <3>1. "delay" \notin config.rules => Len(hand) = 0
      BY <2>1 DEF RulesOk
    <3>2. PICK h \in 0 .. 1 : h = Len(hand)
      BY <1>2
    <3> QED BY <3>1, <3>2
  <2>4. spoilt > 0 => "delay" \in config.rules
    BY <2>1 DEF RulesOk
  <2> QED BY <2>2, <2>3, <2>4
<1>5. Len(got) + Len(held) + Len(hand) + spoilt = accepted
  BY <1>2, <1>3
<1> QED BY <1>4, <1>5 DEF VerdictComplete

LEMMA InitIInv == Init => IInv
<1> SUFFICES ASSUME Init PROVE IInv
  OBVIOUS
<1> USE DEF Init
<1>1. Typed
  BY ConfigOk DEF Typed
<1>2. Queues /\ Count
  BY DEF Queues, Count, OneAtMost, AtReader
<1>3. ReaderOk
  <2>1. SeqLimit \in Nat \ {0}
    BY ScenarioAssumption
  <2>2. Read(0) \in Frames
    BY DEF Read, Frames
  <2> QED BY <2>1, <2>2 DEF ReaderOk, CanTyped, CanFields
<1>4. ExporterOk
  BY DEF ExporterOk, ExpTyped, ExpFields
<1>5. ChildOk /\ EndOk /\ RulesOk
  BY DEF ChildOk, EndOk, RulesOk, Ending
<1>6. StatsOk
  BY DEF StatsOk, StatsOf, New, MetricFields
<1>7. StatsUnshared
  BY DEF StatsUnshared
<1> QED BY <1>1, <1>2, <1>3, <1>4, <1>5, <1>6, <1>7 DEF IInv

-----------------------------------------------------------------------------
(* Steps that leave a part of the state alone                              *)

LEMMA KeepCount ==
    ASSUME IInv, UNCHANGED <<got, spoilt, accepted, held, delayed, todo, hand>>,
           (can'.pc = "record") <=> (can.pc = "record")
    PROVE  Count'
<1>1. AtReader' = AtReader
  BY DEF AtReader
<1> QED BY <1>1 DEF IInv, Count

LEMMA KeepStats == ASSUME IInv, UNCHANGED <<m, got, spoilt>> PROVE StatsOk'
BY DEF IInv, StatsOk, StatsOf

LEMMA KeepRules == ASSUME IInv, UNCHANGED <<config, spoilt, held, delayed, todo, hand>> PROVE RulesOk'
BY DEF IInv, RulesOk

LEMMA KeepUnshared == ASSUME IInv, UNCHANGED <<config, raced>> PROVE StatsUnshared'
BY DEF IInv, StatsUnshared

\* Nothing recorded or queued.
LEMMA KeepFigures ==
    ASSUME IInv, UNCHANGED <<config, m, got, raced, spoilt, accepted, held, delayed, todo, hand>>,
           (can'.pc = "record") <=> (can.pc = "record")
    PROVE  RulesOk' /\ Count' /\ StatsOk' /\ StatsUnshared'
BY KeepCount, KeepStats, KeepRules, KeepUnshared

LEMMA KeepControl ==
    ASSUME IInv, UNCHANGED <<config, now, mpc, child, gone, code>>
    PROVE  Typed' /\ ChildOk'
BY DEF IInv, Typed, ChildOk

LEMMA KeepReader ==
    ASSUME IInv, UNCHANGED <<config, mpc, can, code>>
    PROVE  ReaderOk'
BY DEF IInv, ReaderOk, CanTyped

LEMMA KeepExporter ==
    ASSUME IInv, UNCHANGED <<config, mpc, exp, gone>>
    PROVE  ExporterOk'
BY DEF IInv, ExporterOk, ExpTyped

LEMMA KeepQueues ==
    ASSUME IInv, UNCHANGED <<inbox, held, delayed, todo, hand>>
    PROVE  Queues'
BY DEF IInv, Queues, OneAtMost

LEMMA KeepEnd ==
    ASSUME IInv, UNCHANGED <<code, mpc, delayed, todo, gone, hand>>
    PROVE  EndOk'
BY DEF IInv, EndOk

-----------------------------------------------------------------------------
(* The reader and the exporter                                             *)

LEMMA ReaderStep ==
    ASSUME IInv, Running, CanOpens \/ CanSetup \/ CanForgets \/ CanChecks \/ CanTimesOut
    PROVE  IInv'
<1>1. /\ UNCHANGED <<config, now, mpc, child, m, got, raced, spoilt, accepted, inbox, held, delayed, todo, hand,
                     exp, clients, gone, verdict, code>>
  BY DEF CanOpens, CanSetup, CanForgets, CanChecks, CanTimesOut, stats, engine, server, outcome
<1>2. CanTyped(can) /\ can.pc # "off" /\ can.pc # "record" /\ config.stream = "can"
  BY DEF IInv, ReaderOk, CanOpens, CanSetup, CanForgets, CanChecks, CanTimesOut
<1>3. /\ CanTyped(can)' /\ can'.pc \notin {"off", "record"}
      /\ can'.fd = "open" => can'.can_fd_ = 1 /\ can'.pc # "forget"
      /\ can'.can_fd_ = 1 => can'.fd = "open" \/ can'.pc = "forget"
  <2>0. /\ can.fd = "open" => can.can_fd_ = 1 /\ can.pc # "forget"
        /\ can.can_fd_ = 1 => can.fd = "open" \/ can.pc = "forget"
    BY DEF IInv, ReaderOk
  <2>1. CASE CanOpens
    BY <1>2, <2>0, <2>1 DEF CanOpens, CanTyped, CanFields
  <2>2. CASE CanSetup
    BY <1>2, <2>0, <2>2 DEF CanSetup, CanTyped, CanFields
  <2>3. CASE CanForgets
    <3>1. can'.fd = can.fd /\ can'.can_fd_ = -1 /\ can'.pc = "done" /\ can.pc = "forget"
      BY <1>2, <2>3 DEF CanForgets, CanTyped, CanFields
    <3>2. CanTyped(can)'
      BY <1>2, <2>3 DEF CanForgets, CanTyped, CanFields
    <3> QED BY <2>0, <3>1, <3>2
  <2>4. CASE CanChecks
    BY <1>2, <2>0, <2>4 DEF CanChecks, CanTyped, CanFields
  <2>5. CASE CanTimesOut
    BY <1>2, <2>0, <2>5 DEF CanTimesOut, CanTyped, CanFields
  <2> QED BY <2>1, <2>2, <2>3, <2>4, <2>5
<1>4. can.pc # "done"
  BY DEF CanOpens, CanSetup, CanForgets, CanChecks, CanTimesOut
<1>5. mpc \in {"spin", "join"} /\ ~(code >= 0)
  BY <1>2, <1>4 DEF IInv, ReaderOk, Running
<1>6. ReaderOk'
  BY <1>1, <1>2, <1>3, <1>5 DEF ReaderOk
<1> QED BY <1>1, <1>2, <1>3, <1>6, KeepFigures, KeepControl, KeepExporter, KeepQueues, KeepEnd DEF IInv

LEMMA ExporterStep ==
    ASSUME IInv, Exporter \/ Clients
    PROVE  IInv'
<1>1. /\ UNCHANGED <<config, now, mpc, child, m, got, raced, spoilt, accepted, can, inbox, held, delayed, todo,
                     hand, gone, verdict, code>>
  BY DEF Exporter, ExpPolls, ExpAccepts, ExpReceives, ExpResponds, Clients, ClientConnects, ClientSpeaks,
         ClientResets, stats, engine, outcome
<1>2. ExpTyped(exp)
  BY DEF IInv, ExporterOk
<1>3. ExpTyped(exp)' /\ (exp.pc \in {"off", "done"} => exp'.pc = exp.pc) /\ (exp'.pc # "off" => exp.pc # "off")
  BY <1>2 DEF ExpTyped, ExpFields, Exporter, ExpPolls, ExpAccepts, ExpReceives, ExpResponds,
              Clients, ClientConnects, ClientSpeaks, ClientResets
<1>4. ExporterOk'
  BY <1>1, <1>3 DEF IInv, ExporterOk
<1> QED BY <1>1, <1>4, KeepFigures, KeepControl, KeepReader, KeepQueues, KeepEnd DEF IInv

-----------------------------------------------------------------------------
(* Main                                                                    *)

LEMMA StartStep == ASSUME IInv, Start PROVE IInv'
<1>1. /\ mpc = "start" /\ mpc' = "spin" /\ child' \in {"alive", "none"} /\ StartCanReader /\ StartExporter
      /\ UNCHANGED <<config, now, m, got, raced, spoilt, accepted, inbox, held, delayed, todo, hand, gone,
                     verdict, code>>
  BY DEF Start, SpawnPublisher, stats, engine, outcome
<1>0. ~(code >= 0) /\ gone = {} /\ todo = << >>
  BY <1>1 DEF IInv, EndOk, Ending
<1>2. ReaderOk' /\ can'.pc # "record"
  <2>1. /\ CanTyped(can)' /\ can'.pc \in {"off", "socket"} /\ can'.fd = can.fd /\ can'.can_fd_ = can.can_fd_
        /\ can'.pc = "socket" => config.stream = "can"
    BY <1>1 DEF IInv, ReaderOk, StartCanReader, CanTyped, CanFields
  <2>2. can.pc = "off"
    BY <1>1 DEF IInv, ReaderOk
  <2> QED BY <1>0, <1>1, <2>1, <2>2 DEF IInv, ReaderOk
<1>3. ExporterOk'
  <2> PICK up \in {config.exporter, FALSE} :
          exp' = [exp EXCEPT !.running = up, !.listening = up, !.pc = IF up THEN "poll" ELSE "off"]
    BY <1>1 DEF StartExporter
  <2>1. ExpTyped(exp)' /\ (exp'.pc # "off" => config.exporter)
    BY <1>1 DEF IInv, ExporterOk, ExpTyped, ExpFields
  <2> QED BY <1>0, <1>1, <2>1 DEF ExporterOk
<1>4. Typed' /\ ChildOk' /\ EndOk'
  BY <1>0, <1>1 DEF IInv, Typed, ChildOk, EndOk, Ending
<1>5. can.pc # "record"
  BY <1>1 DEF IInv, ReaderOk
<1> QED BY <1>1, <1>2, <1>3, <1>4, <1>5, KeepFigures, KeepQueues DEF IInv

LEMMA TickStep == ASSUME IInv, World PROVE IInv'
<1>1. /\ UNCHANGED <<config, mpc, m, got, raced, spoilt, accepted, can, held, delayed, todo, hand, exp, gone,
                     verdict, code>>
      /\ mpc \in {"spin", "poll"}
  BY DEF World, TickNothing, TickMessage, ChildExits, stats, engine, server, outcome
<1>0. ~(code >= 0)
  BY <1>1 DEF IInv, EndOk, Ending
<1>2. now \in 0 .. config.duration /\ config.duration \in Nat
  BY ConfigOk DEF IInv, Typed
<1>3. now' \in 0 .. config.duration /\ child' \in {child, "zombie"}
  BY <1>2 DEF World, TickNothing, TickMessage, ChildExits
<1>4. Typed' /\ ChildOk'
  BY <1>0, <1>1, <1>3 DEF IInv, Typed, ChildOk
<1>5. Queues'
  <2>1. inbox' \in Seq(Nat)
    <3>1. inbox' = Append(inbox, now') \/ inbox' = inbox
      BY DEF World, TickNothing, TickMessage, ChildExits
    <3>2. now' \in Nat /\ inbox \in Seq(Nat)
      BY <1>2, <1>3 DEF IInv, Queues
    <3> QED BY <3>1, <3>2
  <2> QED BY <1>1, <2>1 DEF IInv, Queues, OneAtMost
<1> QED BY <1>1, <1>4, <1>5, KeepFigures, KeepReader, KeepExporter, KeepEnd DEF IInv

LEMMA ReaderStopStep == ASSUME IInv, Finish \/ JoinReader PROVE IInv'
<1>1. /\ UNCHANGED <<config, now, child, m, got, raced, spoilt, accepted, inbox, held, delayed, todo, hand, exp,
                     gone, verdict, code>>
      /\ mpc \in {"spin", "join"} /\ mpc' \in {"join", "int"} /\ todo = << >>
  BY DEF Finish, JoinReader, stats, engine, server, outcome, IInv, EndOk
<1>0. ~(code >= 0) /\ gone = {}
  BY <1>1 DEF IInv, EndOk, Ending
<1>2. CanTyped(can)' /\ can'.pc = can.pc
  BY DEF IInv, ReaderOk, CanTyped, CanFields, Finish, JoinReader
<1>3. ReaderOk'
  <2>1. CASE Finish
    <3>1. can'.fd = can.fd /\ can'.can_fd_ = can.can_fd_ /\ mpc' = "join" /\ mpc = "spin"
      BY <2>1 DEF Finish, IInv, ReaderOk, CanTyped, CanFields
    <3> QED BY <1>0, <1>1, <1>2, <3>1 DEF IInv, ReaderOk
  <2>2. CASE JoinReader
    <3>1. can.pc \in {"off", "done"} /\ mpc = "join" /\ mpc' = "int"
      BY <2>2 DEF JoinReader
    <3>2. can'.fd # "open" /\ can'.can_fd_ # 1
      BY <2>2 DEF JoinReader, IInv, ReaderOk, CanTyped, CanFields
    <3> QED BY <1>1, <1>2, <3>1, <3>2 DEF IInv, ReaderOk
  <2> QED BY <2>1, <2>2
<1>4. Typed' /\ ChildOk' /\ EndOk' /\ ExporterOk'
  BY <1>0, <1>1 DEF IInv, Typed, ChildOk, EndOk, Ending, ExporterOk, ExpTyped
<1> QED BY <1>1, <1>2, <1>3, <1>4, KeepFigures, KeepQueues DEF IInv

LEMMA ReapStep == ASSUME IInv, Interrupt \/ Reap \/ Kill PROVE IInv'
<1>1. /\ UNCHANGED <<config, now, m, got, raced, spoilt, accepted, can, inbox, held, delayed, todo, hand, exp, gone,
                     verdict, code>>
      /\ mpc \in {"int", "poll"} /\ mpc' \in {"poll", "flush"}
      /\ mpc' = "flush" => child' \in {"none", "reaped"}
      /\ child' \in {child, "reaped"}
  BY DEF Interrupt, Reap, Kill, stats, engine, server, outcome
<1>0. ~(code >= 0) /\ todo = << >> /\ gone = {}
  BY <1>1 DEF IInv, EndOk, Ending
<1>2. Typed' /\ ChildOk' /\ EndOk'
  BY <1>0, <1>1 DEF IInv, Typed, ChildOk, EndOk, Ending
<1>3. ExporterOk' /\ ReaderOk'
  BY <1>1 DEF IInv, ExporterOk, ExpTyped, ReaderOk, CanTyped
<1> QED BY <1>1, <1>2, <1>3, KeepFigures, KeepQueues DEF IInv

LEMMA DestroyStep == ASSUME IInv, Destroy PROVE IInv'
<1> USE DEF Destroy, StopExporter, StopListening, JoinExporter, DestroyEngines, DestroyMetrics
<1>1. /\ UNCHANGED <<config, now, child, m, got, raced, spoilt, accepted, can, inbox, held, delayed, todo, hand,
                     verdict, code>>
      /\ mpc \in Ending /\ mpc' \in Ending \ {"stop"}
  BY DEF stats, engine, server, outcome, Ending
<1>0. code >= 0
  BY <1>1 DEF IInv, EndOk
<1>2. gone' \subseteq {"exporter", "registry", "engines", "metrics"}
  BY DEF IInv, Typed
<1>3. Typed' /\ ChildOk' /\ ReaderOk'
  BY <1>0, <1>1, <1>2 DEF IInv, Typed, ChildOk, Ending, ReaderOk, CanTyped
<1>4. ExporterOk'
  <2>1. ExpTyped(exp)' /\ exp'.pc = exp.pc
    BY DEF IInv, ExporterOk, ExpTyped, ExpFields, server
  <2>2. "registry" \in gone' => "registry" \in gone \/ exp.pc \in {"off", "done"}
    OBVIOUS
  <2> QED BY <1>1, <2>1, <2>2 DEF IInv, ExporterOk, Ending
<1>5. EndOk'
  BY <1>0, <1>1 DEF IInv, EndOk, Ending
<1> QED BY <1>1, <1>3, <1>4, <1>5, KeepFigures, KeepQueues DEF IInv

\* A process that is killed leaves everything as it is.
LEMMA KilledStep == ASSUME IInv, Killed, Running PROVE IInv'
<1>1. /\ UNCHANGED <<config, now, child, m, got, raced, spoilt, accepted, can, inbox, held, delayed, todo, hand,
                     exp, gone, verdict, code>>
      /\ mpc' = "killed"
  BY DEF Killed, stats, engine, server, outcome
<1>2. Typed' /\ ChildOk' /\ ExporterOk'
  BY <1>1 DEF IInv, Typed, ChildOk, ExporterOk, ExpTyped
<1>3. ReaderOk' /\ EndOk'
  BY <1>1 DEF IInv, ReaderOk, CanTyped, EndOk, Ending
<1> QED BY <1>1, <1>2, <1>3, KeepFigures, KeepQueues DEF IInv

-----------------------------------------------------------------------------
(* Recording and judging                                                   *)

\* How a step changes the terms of Count: a to the history of messages, or to those torn;
\* c, d, b and h to held, queue, main and worker; r at the reader; n messages more.
Moves(a, b, c, d, h, r, n) ==
    /\ got' \in Seq(Frames) /\ spoilt' \in Nat /\ Len(got') + spoilt' = Len(got) + spoilt + a
    /\ Len(todo') = Len(todo) + b /\ Len(held') = Len(held) + c /\ Len(delayed') = Len(delayed) + d
    /\ Len(hand') = Len(hand) + h /\ AtReader' = AtReader + r
    /\ accepted' = accepted + n /\ a + b + c + d + h + r = n

LEMMA Terms ==
    ASSUME IInv
    PROVE  /\ Len(got) \in Nat /\ spoilt \in Nat /\ Len(held) \in Nat /\ Len(delayed) \in Nat
           /\ Len(todo) \in Nat /\ Len(hand) \in Nat /\ AtReader \in Nat /\ accepted \in Nat
           /\ Len(got) + spoilt + Len(held) + Len(delayed) + Len(todo) + Len(hand) + AtReader = accepted
<1>1. Len(held) \in Nat /\ Len(hand) \in Nat
  BY DEF IInv, Queues, OneAtMost
<1> QED BY <1>1 DEF IInv, Queues, Count, AtReader

LEMMA Sums ==
    ASSUME NEW g \in Int, NEW s \in Int, NEW x \in Int, NEW y \in Int, NEW z \in Int, NEW w \in Int, NEW v \in Int,
           NEW t \in Int, NEW p \in Int, NEW a \in Int, NEW b \in Int, NEW c \in Int, NEW d \in Int, NEW h \in Int,
           NEW r \in Int, NEW n \in Int,
           g + s + x + y + z + w + v = t, p = g + s + a, a + b + c + d + h + r = n
    PROVE  p + (x + c) + (y + d) + (z + b) + (w + h) + (v + r) = t + n
OBVIOUS

\* A message that moves is still counted.
LEMMA CountMoves ==
    ASSUME IInv, NEW a \in Int, NEW b \in Int, NEW c \in Int, NEW d \in Int, NEW h \in Int, NEW r \in Int,
           NEW n \in Nat, Moves(a, b, c, d, h, r, n)
    PROVE  Count'
<1>1. PICK g \in Nat, s \in Nat, x \in Nat, y \in Nat, z \in Nat, w \in Nat, v \in Nat, t \in Nat :
        /\ g = Len(got) /\ s = spoilt /\ x = Len(held) /\ y = Len(delayed) /\ z = Len(todo) /\ w = Len(hand)
        /\ v = AtReader /\ t = accepted /\ g + s + x + y + z + w + v = t
  BY Terms, ZenonT(30)
<1>2. PICK g2 \in Nat, s2 \in Nat : g2 = Len(got') /\ s2 = spoilt' /\ g2 + s2 = g + s + a /\ got' \in Seq(Frames)
  <2>1. Len(got') \in Nat
    BY DEF Moves
  <2> QED BY <1>1, <2>1 DEF Moves
<1>3. /\ Len(held') = x + c /\ Len(delayed') = y + d /\ Len(todo') = z + b /\ Len(hand') = w + h
      /\ AtReader' = v + r /\ accepted' = t + n /\ a + b + c + d + h + r = n
  BY <1>1 DEF Moves
<1>4. g2 + s2 + (x + c) + (y + d) + (z + b) + (w + h) + (v + r) = t + n /\ t + n \in Nat
  <2>1. g + s + x + y + z + w + v = t /\ g2 + s2 = g + s + a /\ a + b + c + d + h + r = n
    BY <1>1, <1>2, <1>3
  <2>2. (g2 + s2) + (x + c) + (y + d) + (z + b) + (w + h) + (v + r) = t + n
    BY <2>1, Sums
  <2> QED BY <2>2
<1> QED BY <1>2, <1>3, <1>4 DEF Count

\* One message more in the statistics, or torn; only where two threads clash.
LEMMA RecordsOne ==
    ASSUME IInv, NEW f \in Frames, NEW gap, NEW clash, Records(f, gap, clash)
    PROVE  /\ StatsOk' /\ got' \in Seq(Frames) /\ spoilt' \in Nat
           /\ Len(got') + spoilt' = Len(got) + spoilt + 1
           /\ spoilt' # spoilt => clash
<1> DEFINE all == Record(m, f.latency, f.at, gap)
<1>1. PICK k \in Nat : k = Len(got)
  BY Terms
<1>2. spoilt \in Nat /\ got \in Seq(Frames) /\ StatsOf(m, spoilt # 0, k) /\ f.latency \in Int /\ (spoilt # 0) \in BOOLEAN
  BY <1>1 DEF IInv, Count, StatsOk, Frames
<1>3. StatsOf(all, spoilt # 0, k + 1)
  BY <1>1, <1>2, RecordStats
<1> HIDE DEF all
<1>4. CASE m' = all /\ got' = Append(got, f) /\ UNCHANGED spoilt
  <2>1. got' \in Seq(Frames) /\ Len(got') = k + 1
    BY <1>1, <1>2, <1>4
  <2>2. StatsOk'
    BY <1>3, <1>4, <2>1 DEF StatsOk
  <2> QED BY <1>1, <1>2, <1>4, <2>1, <2>2
<1>5. CASE /\ clash /\ spoilt' = spoilt + 1 /\ UNCHANGED got
           /\ \/ m' = [all EXCEPT !.latencies_ms_ = m.latencies_ms_]
              \/ m' = [all EXCEPT !.received_ = m.received_]
              \/ m' = [all EXCEPT !.latencies_ms_ = m.latencies_ms_, !.received_ = m.received_]
  <2>1. m.latencies_ms_ \in Seq(Int) /\ m.received_ \in Nat
    BY <1>2 DEF StatsOf
  <2>2. StatsOf(m', TRUE, k)
    <3> DEFINE l == m.latencies_ms_
               n == m.received_
    <3>1. /\ StatsOf([all EXCEPT !.latencies_ms_ = l], TRUE, k)
          /\ StatsOf([all EXCEPT !.received_ = n], TRUE, k)
          /\ StatsOf([all EXCEPT !.latencies_ms_ = l, !.received_ = n], TRUE, k)
      <4>1. l \in Seq(Int) /\ n \in Nat
        BY <2>1
      <4> HIDE DEF l, n
      <4> QED BY <1>3, <4>1, TornStats
    <3>2. CASE m' = [all EXCEPT !.latencies_ms_ = l]
      BY <3>1, <3>2
    <3>3. CASE m' = [all EXCEPT !.received_ = n]
      BY <3>1, <3>3
    <3>4. CASE m' = [all EXCEPT !.latencies_ms_ = l, !.received_ = n]
      BY <3>1, <3>4
    <3> QED BY <1>5, <3>2, <3>3, <3>4
  <2>3. spoilt' # 0 /\ spoilt' \in Nat /\ Len(got') + spoilt' = Len(got) + spoilt + 1
    BY <1>1, <1>2, <1>5
  <2>4. StatsOk'
    BY <2>2, <2>3 DEF StatsOk, StatsOf
  <2> QED BY <1>2, <1>5, <2>3, <2>4
<1> QED BY <1>4, <1>5 DEF Records, all

\* Whoever else is at the statistics is the reader of a CAN stream, not yet joined, or
\* the worker of a delay rule.
LEMMA BusyMeans ==
    ASSUME IInv, Busy
    PROVE  "delay" \in config.rules \/ (config.stream = "can" /\ mpc \in {"spin", "join", "killed"})
BY DEF IInv, Busy, RulesOk, ReaderOk

\* The subscription hands a message to the engine.
LEMMA DropStep == ASSUME IInv, EngineDrops PROVE IInv'
<1>1. /\ UNCHANGED <<config, now, mpc, child, m, got, raced, spoilt, accepted, can, held, delayed, todo, hand,
                     exp, clients, gone, verdict, code>>
      /\ inbox # << >> /\ inbox' = Tail(inbox)
  BY DEF EngineDrops, Subscription, stats, engine, server, outcome
<1>2. Queues'
  <2>1. inbox' \in Seq(Nat)
    BY <1>1 DEF IInv, Queues
  <2> QED BY <1>1, <2>1 DEF IInv, Queues, OneAtMost
<1> QED BY <1>1, <1>2, KeepFigures, KeepControl, KeepReader, KeepExporter, KeepEnd DEF IInv

LEMMA HoldStep == ASSUME IInv, EngineHolds PROVE IInv'
<1>1. /\ UNCHANGED <<config, now, mpc, child, m, got, raced, spoilt, can, delayed, todo, hand, exp, clients, gone,
                     verdict, code>>
      /\ inbox # << >> /\ inbox' = Tail(inbox) /\ accepted' = accepted + 1
      /\ config.stream = "topic" /\ "reorder" \in config.rules /\ held = << >>
  BY DEF EngineHolds, Subscription, server, outcome
<1>2. PICK p \in Payloads(Read(Head(inbox))) : held' = <<p>>
  BY DEF EngineHolds
<1>3. inbox' \in Seq(Nat) /\ Head(inbox) \in Nat
  BY <1>1 DEF IInv, Queues
<1>4. p \in Frames
  BY <1>2, <1>3, ReadFrame, PayloadFrames
<1>5. Queues' /\ Len(held) = 0 /\ Len(held') = 1
  <2>1. Head(held') = p
    BY <1>2
  <2> QED BY <1>1, <1>2, <1>3, <1>4, <2>1 DEF IInv, Queues, OneAtMost
<1>6. Count'
  <2>1. AtReader' = AtReader
    BY <1>1 DEF AtReader
  <2>2. got \in Seq(Frames)
    BY DEF IInv, Count
  <2>3. Moves(0, 0, 1, 0, 0, 0, 1)
    BY <1>1, <1>5, <2>1, <2>2, Terms DEF Moves
  <2> QED BY <2>3, CountMoves
<1>7. RulesOk'
  BY <1>1 DEF IInv, RulesOk
<1> QED BY <1>1, <1>5, <1>6, <1>7, KeepStats, KeepUnshared, KeepControl, KeepReader, KeepExporter, KeepEnd DEF IInv

\* What is left of a message, and what overtakes it, goes to main or to the queue.
LEMMA Dispatched ==
    ASSUME IInv, NEW s \in Seq(Frames), NEW active \in SUBSET config.rules, Dispatch(s, active), todo = << >>
    PROVE  /\ delayed' \in Seq(Frames) /\ todo' \in Seq(Frames)
           /\ \/ /\ "delay" \in config.rules /\ todo' = << >> /\ Len(todo') = 0
                 /\ Len(delayed') = Len(delayed) + Len(s)
              \/ delayed' = delayed /\ Len(todo') = Len(s)
<1>1. delayed \in Seq(Frames)
  BY DEF IInv, Queues
<1>2. CASE "delay" \in active
  <2>1. delayed' = delayed \o s /\ todo' = << >>
    BY <1>2 DEF Dispatch
  <2> QED BY <1>1, <1>2, <2>1
<1>3. CASE "delay" \notin active
  <2>1. todo' = s /\ delayed' = delayed
    BY <1>3 DEF Dispatch
  <2> QED BY <1>1, <2>1
<1> QED BY <1>2, <1>3

LEMMA PassStep == ASSUME IInv, EnginePasses PROVE IInv'
<1>1. /\ UNCHANGED <<config, now, mpc, child, m, got, raced, spoilt, can, hand, exp, clients, gone, verdict, code>>
      /\ inbox # << >> /\ inbox' = Tail(inbox) /\ todo = << >> /\ mpc = "spin" /\ config.stream = "topic"
  BY DEF EnginePasses, Subscription, server, outcome
<1>2. inbox' \in Seq(Nat) /\ Head(inbox) \in Nat
  BY <1>1 DEF IInv, Queues
<1>3. PICK active \in SUBSET config.rules, p \in Payloads(Read(Head(inbox))) :
          \/ /\ "reorder" \in active /\ held # << >>
             /\ Dispatch(<<p, Head(held)>>, active) /\ held' = << >> /\ accepted' = accepted + 1
          \/ /\ "reorder" \notin active /\ "duplicate" \in active
             /\ Dispatch(<<p, p>>, active) /\ accepted' = accepted + 2 /\ UNCHANGED held
          \/ /\ active \cap {"reorder", "duplicate"} = {}
             /\ Dispatch(<<p>>, active) /\ accepted' = accepted + 1 /\ UNCHANGED held
  BY DEF EnginePasses
<1>4. p \in Frames
  BY <1>2, ReadFrame, PayloadFrames
<1>5. PICK s \in Seq(Frames), c \in {0, -1}, n \in Nat :
        /\ Dispatch(s, active) /\ Len(held') = Len(held) + c /\ accepted' = accepted + n /\ Len(s) + c = n
        /\ held' \in {held, << >>}
  <2>1. CASE /\ held # << >>
             /\ Dispatch(<<p, Head(held)>>, active) /\ held' = << >> /\ accepted' = accepted + 1
    <3>1. Head(held) \in Frames /\ Len(held) = 1
      BY <2>1 DEF IInv, Queues, OneAtMost
    <3>2. <<p, Head(held)>> \in Seq(Frames) /\ Len(<<p, Head(held)>>) = 2
      BY <1>4, <3>1
    <3>3. Len(held') = Len(held) + -1 /\ Len(<<p, Head(held)>>) + -1 = 1
      BY <2>1, <3>1, <3>2
    <3> QED BY <2>1, <3>2, <3>3, Zenon
  <2>2. CASE Dispatch(<<p, p>>, active) /\ accepted' = accepted + 2 /\ UNCHANGED held
    <3>1. <<p, p>> \in Seq(Frames) /\ Len(<<p, p>>) = 2
      BY <1>4
    <3>2. Len(held') = Len(held) + 0 /\ Len(<<p, p>>) + 0 = 2
      BY <2>2, <3>1, Terms, SMTT(60)
    <3> QED BY <2>2, <3>1, <3>2, Zenon
  <2>3. CASE Dispatch(<<p>>, active) /\ accepted' = accepted + 1 /\ UNCHANGED held
    <3>1. <<p>> \in Seq(Frames) /\ Len(<<p>>) = 1
      BY <1>4
    <3>2. Len(held') = Len(held) + 0 /\ Len(<<p>>) + 0 = 1
      BY <2>3, <3>1, Terms
    <3> QED BY <2>3, <3>1, <3>2, Zenon
  <2> QED BY <1>3, <2>1, <2>2, <2>3
<1>6. /\ delayed' \in Seq(Frames) /\ todo' \in Seq(Frames)
      /\ \/ /\ "delay" \in config.rules /\ todo' = << >> /\ Len(todo') = 0
            /\ Len(delayed') = Len(delayed) + Len(s)
         \/ delayed' = delayed /\ Len(todo') = Len(s)
  BY <1>1, <1>5, Dispatched
<1>7. Queues'
  BY <1>1, <1>2, <1>5, <1>6 DEF IInv, Queues, OneAtMost
<1>8. Count'
  <2>1. AtReader' = AtReader /\ Len(todo) = 0 /\ Len(s) \in Nat
    BY <1>1 DEF AtReader
  <2>2. got \in Seq(Frames)
    BY DEF IInv, Count
  <2>3. Moves(0, Len(s), c, 0, 0, 0, n) \/ Moves(0, 0, c, Len(s), 0, 0, n)
    <3>1. /\ got' \in Seq(Frames) /\ spoilt' \in Nat /\ Len(got') + spoilt' = Len(got) + spoilt + 0
          /\ Len(hand') = Len(hand) + 0 /\ AtReader' = AtReader + 0 /\ Len(held') = Len(held) + c
          /\ accepted' = accepted + n
      <4>1. got' = got /\ spoilt' = spoilt /\ Len(hand') = Len(hand)
        BY <1>1
      <4>2. Len(got) + spoilt \in Nat /\ Len(hand) \in Nat /\ AtReader \in Nat /\ spoilt \in Nat
        BY Terms, SMTT(30), SMTT(30)
      <4> QED BY <1>5, <2>1, <2>2, <4>1, <4>2
    <3>2. 0 + Len(s) + c + 0 + 0 + 0 = n /\ 0 + 0 + c + Len(s) + 0 + 0 = n
      BY <1>5, <2>1
    <3>3. CASE Len(todo') = 0 /\ Len(delayed') = Len(delayed) + Len(s)
      <4>1. Len(todo') = Len(todo) + 0
        BY <2>1, <3>3
      <4> QED BY <3>1, <3>2, <3>3, <4>1 DEF Moves
    <3>4. CASE delayed' = delayed /\ Len(todo') = Len(s)
      <4>1. Len(todo') = Len(todo) + Len(s) /\ Len(delayed') = Len(delayed) + 0
        BY <2>1, <3>4, Terms
      <4> QED BY <3>1, <3>2, <4>1 DEF Moves
    <3> QED BY <1>6, <3>3, <3>4
  <2> QED BY <2>1, <2>3, CountMoves, SMTT(30)
<1>9. RulesOk' /\ EndOk'
  <2>1. ~(code >= 0)
    BY <1>1 DEF IInv, EndOk, Ending
  <2> QED BY <1>1, <1>5, <1>6, <2>1 DEF IInv, RulesOk, EndOk, Ending
<1> QED BY <1>1, <1>7, <1>8, <1>9, KeepStats, KeepUnshared, KeepControl, KeepReader, KeepExporter DEF IInv

LEMMA MainRecordsStep == ASSUME IInv, MainRecords PROVE IInv'
<1>1. /\ UNCHANGED <<config, now, mpc, child, accepted, can, inbox, held, delayed, hand, exp, clients, gone, verdict,
                     code>>
      /\ todo # << >> /\ todo' = Tail(todo) /\ Records(Head(todo), FALSE, hand # << >>)
      /\ raced' = (raced \/ Busy)
  BY DEF MainRecords, server, outcome
<1>2. todo \in Seq(Frames) /\ Head(todo) \in Frames /\ todo' \in Seq(Frames) /\ Len(todo') = Len(todo) - 1
  BY <1>1 DEF IInv, Queues
<1>3. /\ StatsOk' /\ got' \in Seq(Frames) /\ spoilt' \in Nat /\ Len(got') + spoilt' = Len(got) + spoilt + 1
      /\ spoilt' # spoilt => hand # << >>
  BY <1>1, <1>2, RecordsOne
<1>4. Count'
  <2>1. AtReader' = AtReader
    BY <1>1 DEF AtReader
  <2>2. Moves(1, -1, 0, 0, 0, 0, 0)
    <3>1. /\ Len(todo') = Len(todo) + -1 /\ Len(held') = Len(held) + 0 /\ Len(delayed') = Len(delayed) + 0
          /\ Len(hand') = Len(hand) + 0 /\ AtReader' = AtReader + 0 /\ accepted' = accepted + 0
      BY <1>1, <1>2, <2>1, Terms, SMTT(30)
    <3>2. 1 + -1 + 0 + 0 + 0 + 0 = 0
      OBVIOUS
    <3> QED BY <1>3, <3>1, <3>2 DEF Moves
  <2> QED BY <2>2, CountMoves
<1>5. config.stream # "can"
  BY <1>1 DEF IInv, RulesOk
<1>6. StatsUnshared'
  BY <1>1, <1>5, BusyMeans DEF IInv, StatsUnshared
<1>7. RulesOk'
  BY <1>1, <1>3, <1>5 DEF IInv, RulesOk
<1>8. Queues' /\ EndOk'
  BY <1>1, <1>2 DEF IInv, Queues, OneAtMost, EndOk
<1> QED BY <1>1, <1>3, <1>4, <1>6, <1>7, <1>8, KeepControl, KeepReader, KeepExporter DEF IInv

LEMMA UpdateRegistryStep == ASSUME IInv, UpdateRegistry PROVE IInv'
<1>1. /\ UNCHANGED <<config, now, mpc, child, m, got, spoilt, accepted, can, inbox, held, delayed, todo, hand, exp,
                     clients, gone, verdict, code>>
      /\ mpc = "spin" /\ exp.pc # "off" /\ raced' = (raced \/ Busy)
  BY DEF UpdateRegistry, engine, server, outcome
<1>2. StatsUnshared'
  BY <1>1, BusyMeans DEF IInv, StatsUnshared, ExporterOk
<1> QED BY <1>1, <1>2, KeepStats, KeepRules, KeepCount, KeepControl, KeepReader, KeepExporter, KeepQueues, KeepEnd
        DEF IInv

LEMMA FlushStep == ASSUME IInv, Flush PROVE IInv'
<1>1. /\ UNCHANGED <<config, now, mpc, child, m, got, raced, spoilt, accepted, can, inbox, held, hand, exp, clients,
                     gone, verdict, code>>
      /\ mpc = "flush" /\ todo = << >> /\ delayed # << >> /\ delayed' = Tail(delayed)
      /\ todo' = <<Head(delayed)>>
  BY DEF Flush, stats, server, outcome
<1>2. /\ delayed \in Seq(Frames) /\ Head(delayed) \in Frames /\ delayed' \in Seq(Frames)
      /\ Len(delayed') = Len(delayed) - 1 /\ Len(todo) = 0 /\ Len(todo') = 1 /\ todo' \in Seq(Frames)
  BY <1>1 DEF IInv, Queues
<1>3. Count'
  <2>1. AtReader' = AtReader /\ got \in Seq(Frames)
    BY <1>1 DEF AtReader, IInv, Count
  <2>2. Moves(0, 1, 0, -1, 0, 0, 0)
    BY <1>1, <1>2, <2>1, Terms DEF Moves
  <2> QED BY <2>2, CountMoves
<1>4. Queues'
  BY <1>1, <1>2 DEF IInv, Queues, OneAtMost
<1>5. RulesOk' /\ EndOk'
  <2>1. ~(code >= 0) /\ config.stream # "can" /\ "delay" \in config.rules
    BY <1>1 DEF IInv, EndOk, Ending, RulesOk
  <2> QED BY <1>1, <2>1 DEF IInv, RulesOk, EndOk, Ending
<1> QED BY <1>1, <1>3, <1>4, <1>5, KeepStats, KeepUnshared, KeepControl, KeepReader, KeepExporter DEF IInv

LEMMA JudgeStep == ASSUME IInv, Judge PROVE IInv'
<1>1. /\ UNCHANGED <<config, now, child, m, got, spoilt, accepted, can, inbox, held, delayed, todo, hand, exp,
                     clients, gone>>
      /\ mpc = "flush" /\ todo = << >> /\ delayed = << >> /\ raced' = (raced \/ Busy) /\ mpc' \in {"stop", "exit"}
      /\ code' \in {0, 1}
  BY DEF Judge, engine, server
<1>2. StatsUnshared'
  BY <1>1, BusyMeans DEF IInv, StatsUnshared
<1>3. Typed' /\ ChildOk'
  BY <1>1 DEF IInv, Typed, ChildOk, Ending
<1>4. ReaderOk'
  BY <1>1 DEF IInv, ReaderOk, CanTyped
<1>5. ExporterOk' /\ EndOk'
  BY <1>1 DEF IInv, ExporterOk, ExpTyped, EndOk, Ending
<1> QED BY <1>1, <1>2, <1>3, <1>4, <1>5, KeepStats, KeepRules, KeepCount, KeepQueues DEF IInv

-----------------------------------------------------------------------------
(* What the reader and the worker take and record                          *)

LEMMA CanReadsStep == ASSUME IInv, Running, CanReads PROVE IInv'
<1> DEFINE seq == Head(inbox) % SeqLimit
           gap == IsGap(can.prev_seq, seq)
           f   == Read(Head(inbox))
<1>1. /\ UNCHANGED <<config, now, mpc, child, m, got, raced, spoilt, held, delayed, todo, hand, exp, clients, gone,
                     verdict, code>>
      /\ can.pc = "read" /\ inbox # << >> /\ inbox' = Tail(inbox) /\ accepted' = accepted + 1
      /\ can' = [can EXCEPT !.pc = "record", !.frame = f, !.prev_seq = seq, !.gap = gap]
  BY DEF CanReads, engine, server, outcome
<1>2. Head(inbox) \in Nat /\ inbox' \in Seq(Nat)
  BY <1>1 DEF IInv, Queues
<1>3. seq \in -1 .. SeqLimit - 1 /\ f \in Frames
  <2>1. SeqLimit \in Nat \ {0}
    BY ScenarioAssumption
  <2> QED BY <1>2, <2>1, ReadFrame
<1> HIDE DEF seq, gap, f
<1>4. config.stream = "can" /\ mpc \in {"spin", "join"} /\ ~(code >= 0)
  BY <1>1 DEF IInv, ReaderOk, Running
<1>5. CanTyped(can)' /\ can'.pc = "record" /\ can'.fd = can.fd /\ can'.can_fd_ = can.can_fd_
  <2>1. CanTyped(can)
    BY DEF IInv, ReaderOk
  <2> QED BY <1>1, <1>2, <1>3, <2>1 DEF CanTyped, CanFields
<1>6. ReaderOk'
  BY <1>1, <1>4, <1>5 DEF IInv, ReaderOk
<1>7. Queues'
  BY <1>1, <1>2 DEF IInv, Queues, OneAtMost
<1>8. Count'
  <2>1. AtReader = 0 /\ AtReader' = 1 /\ got \in Seq(Frames)
    BY <1>1, <1>5 DEF AtReader, IInv, Count
  <2>2. Moves(0, 0, 0, 0, 0, 1, 1)
    BY <1>1, <2>1, Terms DEF Moves
  <2> QED BY <2>2, CountMoves
<1> QED BY <1>1, <1>6, <1>7, <1>8, KeepStats, KeepRules, KeepUnshared, KeepControl, KeepExporter, KeepEnd DEF IInv

LEMMA CanRecordsStep == ASSUME IInv, Running, CanRecords PROVE IInv'
<1>1. /\ UNCHANGED <<config, now, mpc, child, raced, accepted, inbox, held, delayed, todo, hand, exp, clients, gone,
                     verdict, code>>
      /\ can.pc = "record" /\ Records(can.frame, can.gap, FALSE) /\ can' = [can EXCEPT !.pc = "loop"]
  BY DEF CanRecords, engine, server, outcome
<1>2. CanTyped(can) /\ can.frame \in Frames /\ config.stream = "can" /\ mpc \in {"spin", "join"} /\ ~(code >= 0)
  BY <1>1 DEF IInv, ReaderOk, CanTyped, Running
<1>3. /\ StatsOk' /\ got' \in Seq(Frames) /\ spoilt' \in Nat /\ Len(got') + spoilt' = Len(got) + spoilt + 1
      /\ spoilt' = spoilt
  BY <1>1, <1>2, RecordsOne
<1>4. CanTyped(can)' /\ can'.pc = "loop" /\ can'.fd = can.fd /\ can'.can_fd_ = can.can_fd_
  BY <1>1, <1>2 DEF CanTyped, CanFields
<1>5. ReaderOk'
  BY <1>1, <1>2, <1>4 DEF IInv, ReaderOk
<1>6. Count'
  <2>1. AtReader = 1 /\ AtReader' = 0
    BY <1>1, <1>4 DEF AtReader
  <2>2. Moves(1, 0, 0, 0, 0, -1, 0)
    BY <1>1, <1>3, <2>1, Terms DEF Moves
  <2> QED BY <2>2, CountMoves
<1> QED BY <1>1, <1>3, <1>5, <1>6, KeepRules, KeepUnshared, KeepControl, KeepExporter, KeepQueues, KeepEnd DEF IInv

LEMMA WorkerPopsStep == ASSUME IInv, Running, WorkerPops PROVE IInv'
<1>1. /\ UNCHANGED <<config, now, mpc, child, m, got, raced, spoilt, accepted, can, inbox, held, todo, exp, clients,
                     gone, verdict, code>>
      /\ delayed # << >> /\ hand = << >> /\ "engines" \notin gone
      /\ hand' = <<Head(delayed)>> /\ delayed' = Tail(delayed)
  BY DEF WorkerPops, stats, server, outcome
<1>2. /\ delayed \in Seq(Frames) /\ Head(delayed) \in Frames /\ delayed' \in Seq(Frames)
      /\ Len(delayed') = Len(delayed) - 1
  BY <1>1 DEF IInv, Queues
<1>3. hand' # << >> /\ Head(hand') = Head(delayed) /\ Len(hand) = 0 /\ Len(hand') = 1
  BY <1>1
<1>4. Queues'
  BY <1>1, <1>2, <1>3 DEF IInv, Queues, OneAtMost
<1>5. "delay" \in config.rules /\ config.stream # "can" /\ ~(code >= 0)
  BY <1>1 DEF IInv, RulesOk, EndOk
<1>6. RulesOk' /\ EndOk'
  BY <1>1, <1>5 DEF IInv, RulesOk, EndOk
<1>7. Count'
  <2>1. AtReader' = AtReader /\ got \in Seq(Frames)
    BY <1>1 DEF AtReader, IInv, Count
  <2>2. Moves(0, 0, 0, -1, 1, 0, 0)
    BY <1>1, <1>2, <1>3, <2>1, Terms DEF Moves
  <2> QED BY <2>2, CountMoves
<1> QED BY <1>1, <1>4, <1>6, <1>7, KeepStats, KeepUnshared, KeepControl, KeepReader, KeepExporter DEF IInv

LEMMA WorkerRecordsStep == ASSUME IInv, Running, WorkerRecords PROVE IInv'
<1>1. /\ UNCHANGED <<config, now, mpc, child, accepted, can, inbox, held, delayed, todo, exp, clients, gone, verdict,
                     code>>
      /\ hand # << >> /\ hand' = << >> /\ Records(Head(hand), FALSE, todo # << >>)
      /\ raced' = (raced \/ todo # << >>)
  BY DEF WorkerRecords, server, outcome
<1>2. Head(hand) \in Frames /\ Len(hand) = 1 /\ Len(hand') = 0
  BY <1>1 DEF IInv, Queues, OneAtMost
<1>3. /\ StatsOk' /\ got' \in Seq(Frames) /\ spoilt' \in Nat /\ Len(got') + spoilt' = Len(got) + spoilt + 1
  BY <1>1, <1>2, RecordsOne
<1>4. Count'
  <2>1. AtReader' = AtReader
    BY <1>1 DEF AtReader
  <2>2. Moves(1, 0, 0, 0, -1, 0, 0)
    <3>1. /\ Len(todo') = Len(todo) + 0 /\ Len(held') = Len(held) + 0 /\ Len(delayed') = Len(delayed) + 0
          /\ Len(hand') = Len(hand) + -1 /\ AtReader' = AtReader + 0 /\ accepted' = accepted + 0
      BY <1>1, <1>2, <2>1, Terms
    <3>2. 1 + 0 + 0 + 0 + -1 + 0 = 0
      OBVIOUS
    <3> QED BY <1>3, <3>1, <3>2 DEF Moves
  <2> QED BY <2>2, CountMoves
<1>5. "delay" \in config.rules /\ config.stream # "can"
  BY <1>1 DEF IInv, RulesOk
<1>6. RulesOk' /\ StatsUnshared'
  BY <1>1, <1>5 DEF IInv, RulesOk, StatsUnshared
<1>7. Queues' /\ EndOk'
  BY <1>1 DEF IInv, Queues, OneAtMost, EndOk
<1> QED BY <1>1, <1>3, <1>4, <1>6, <1>7, KeepControl, KeepReader, KeepExporter DEF IInv

-----------------------------------------------------------------------------
(* The theorems                                                            *)

LEMMA NextIInv == IInv /\ [Next]_vars => IInv'
<1> SUFFICES ASSUME IInv, [Next]_vars PROVE IInv'
  OBVIOUS
<1>1. CASE Start
  BY <1>1, StartStep
<1>2. CASE World
  BY <1>2, TickStep
<1>3. CASE EngineDrops \/ EngineHolds \/ EnginePasses
  BY <1>3, DropStep, HoldStep, PassStep
<1>4. CASE UpdateRegistry
  BY <1>4, UpdateRegistryStep
<1>5. CASE Finish \/ JoinReader
  BY <1>5, ReaderStopStep
<1>6. CASE Interrupt \/ Reap \/ Kill
  BY <1>6, ReapStep
<1>7. CASE MainRecords \/ Flush
  BY <1>7, MainRecordsStep, FlushStep
<1>8. CASE Judge
  BY <1>8, JudgeStep
<1>9. CASE Destroy
  BY <1>9, DestroyStep
<1>10. CASE Running /\ (CanOpens \/ CanSetup \/ CanForgets \/ CanChecks \/ CanTimesOut)
  BY <1>10, ReaderStep
<1>11. CASE Running /\ (CanReads \/ CanRecords)
  BY <1>11, CanReadsStep, CanRecordsStep
<1>12. CASE Running /\ (WorkerPops \/ WorkerRecords)
  BY <1>12, WorkerPopsStep, WorkerRecordsStep
<1>13. CASE Exporter \/ Clients
  BY <1>13, ExporterStep
<1>14. CASE Running /\ Killed
  BY <1>14, KilledStep
<1>15. CASE UNCHANGED vars
  <2>1. UNCHANGED <<config, now, mpc, child, m, got, raced, spoilt, accepted, can, inbox, held, delayed, todo, hand,
                    exp, gone, verdict, code>>
    BY <1>15 DEF vars, stats, engine, server, outcome
  <2> QED BY <2>1, KeepFigures, KeepControl, KeepReader, KeepExporter, KeepQueues, KeepEnd DEF IInv
<1> QED
  BY <1>1, <1>2, <1>3, <1>4, <1>5, <1>6, <1>7, <1>8, <1>9, <1>10, <1>11, <1>12, <1>13, <1>14, <1>15
  DEF Next, Main, FinishStep, Reader, Worker

\* The inductive invariant holds of every run.
LEMMA SpecIInv == Spec => []IInv
BY InitIInv, NextIInv, PTL DEF Spec

\* finish() and ~ScenarioRunner leave no child (the wrapper `ros2 run`), zombie or CAN socket
\* behind and close no socket twice, and no thread that uses a member of the runner
\* outlives it, however the threads interleave.
THEOREM ScenarioInv == Spec => []Inv
BY SpecIInv, IInvInv, PTL

\* StreamMetrics, which has no lock, is used by two threads at once only under a delay
\* rule, or where the 1 Hz refresh reads the statistics of a CAN stream.
THEOREM ScenarioStatsUnshared == Spec => []StatsUnshared
<1>1. IInv => StatsUnshared
  BY DEF IInv
<1> QED BY <1>1, SpecIInv, PTL

\* When there is an exit code, every message taken in, and every copy the engine made, is
\* in the statistics, but for the one a reorder rule still holds and, under a delay rule,
\* the one its worker has in hand and those torn by two threads in record() at once.
THEOREM ScenarioVerdictComplete == Spec => []VerdictComplete
BY SpecIInv, IInvVerdict, PTL

-----------------------------------------------------------------------------
(* The figures of a stream                                                 *)

\* Messages are recorded once, as they are read.
Direct == config.stream = "can" \/ config.rules \subseteq {"drop"}

Ticks(s) == [i \in 1 .. Len(s) |-> s[i].tick]

\* A message has been read and is not recorded yet.
Pending == IF can.pc = "record" THEN <<can.frame>> ELSE todo

RisingTo(s, t) == /\ \A i \in 1 .. Len(s) : s[i] \in 1 .. t
                  /\ \A i, j \in 1 .. Len(s) : i < j => s[i] < s[j]

Follows(s, u) == \A i \in 1 .. Len(s), j \in 1 .. Len(u) : s[i] < u[j]

\* Messages are recorded (g), read (p) and waiting (s) in the order of their ticks, up to t.
InLine(g, p, s, t) == /\ RisingTo(g, t) /\ RisingTo(p, t) /\ RisingTo(s, t)
                      /\ Follows(g, p) /\ Follows(g, s) /\ Follows(p, s)

\* A message that no rule has damaged.
Sound(f) == f.latency = f.at - f.tick

\* The statistics s know when the first and the last message of g came.
ArrivalsOk(s, g) ==
    /\ Len(g) = 0 => s.has_arrival_ = FALSE
    /\ Len(g) > 0 => s.has_arrival_ = TRUE /\ s.first_arrival_s_ = g[1].at /\ s.last_arrival_s_ = g[Len(g)].at

LineOk == Direct => /\ todo = << >> \/ todo = <<Head(todo)>>
                    /\ InLine(Ticks(got), Ticks(Pending), inbox, now)
                    /\ \A i \in 1 .. Len(got) : Sound(got[i])
                    /\ \A i \in 1 .. Len(Pending) : Sound(Pending[i])
                    /\ ArrivalsOk(m, got)

GapAt(a, b) == IsGap(a % SeqLimit, b % SeqLimit)
GapsOf(g) == {i \in 1 .. Len(g) - 1 : GapAt(g[i], g[i + 1])}

\* Gaps counted so far; what the reader compares the next sequence number with.
GapsOk ==
    config.stream = "can" =>
        /\ m.sequence_gaps_ = Cardinality(GapsOf(Ticks(got)))
        /\ can.pc # "record" => can.prev_seq = IF Len(got) = 0 THEN -1 ELSE Ticks(got)[Len(got)] % SeqLimit
        /\ can.pc = "record" => /\ can.prev_seq = can.frame.tick % SeqLimit
                                /\ can.gap = (Len(got) > 0 /\ GapAt(Ticks(got)[Len(got)], can.frame.tick))

Figures == LineOk /\ GapsOk

-----------------------------------------------------------------------------
(* Percentiles                                                             *)

LEMMA CountUpTo == ASSUME NEW n \in Nat PROVE IsFiniteSet(1 .. n) /\ Cardinality(1 .. n) = n
<1>1. n \in Int /\ 1 \in Int
  OBVIOUS
<1>2. IsFiniteSet(1 .. n) /\ Cardinality(1 .. n) = IF 1 > n THEN 0 ELSE n - 1 + 1
  BY <1>1, FS_Interval
<1> QED BY <1>2

LEMMA NoMoreThan ==
    ASSUME NEW S, IsFiniteSet(S), NEW T, IsFiniteSet(T), NEW f \in [S -> T],
           \A x, y \in S : f[x] = f[y] => x = y
    PROVE  Cardinality(S) <= Cardinality(T)
<1>1. Cardinality(S) \in Nat /\ Cardinality(T) \in Nat
  BY FS_CardinalityType
<1>2. ~(Cardinality(T) < Cardinality(S))
  BY FS_PigeonHole
<1> QED BY <1>1, <1>2

\* The places of s whose values come before that of place i.
Before(s, i) == {j \in 1 .. Len(s) : s[j] < s[i] \/ (s[j] = s[i] /\ j < i)}
Rank(s, i)   == 1 + Cardinality(Before(s, i))

LEMMA RankFacts ==
    ASSUME NEW s \in Seq(Int), NEW n \in Nat, n = Len(s)
    PROVE  /\ \A i \in 1 .. n : Rank(s, i) \in 1 .. n
           /\ \A i, j \in 1 .. n : i \in Before(s, j) => Rank(s, i) < Rank(s, j)
           /\ \A i, j \in 1 .. n : Rank(s, i) = Rank(s, j) => i = j
           /\ \A k \in 1 .. n : \E i \in 1 .. n : Rank(s, i) = k
<1>0. IsFiniteSet(1 .. n) /\ Cardinality(1 .. n) = n /\ \A i \in 1 .. n : s[i] \in Int
  BY CountUpTo
<1>1. ASSUME NEW i \in 1 .. n
      PROVE  /\ IsFiniteSet(Before(s, i)) /\ Cardinality(Before(s, i)) \in Nat /\ i \notin Before(s, i)
             /\ Before(s, i) \subseteq 1 .. n
             /\ Cardinality(Before(s, i) \cup {i}) = Cardinality(Before(s, i)) + 1
  <2>1. Before(s, i) \subseteq 1 .. n /\ i \notin Before(s, i)
    BY <1>0 DEF Before
  <2>2. IsFiniteSet(Before(s, i)) /\ Cardinality(Before(s, i)) \in Nat
    BY <1>0, <2>1, FS_Subset, FS_CardinalityType
  <2> QED BY <2>1, <2>2, FS_AddElement
<1>2. ASSUME NEW i \in 1 .. n PROVE Rank(s, i) \in 1 .. n
  <2>1. Before(s, i) \cup {i} \subseteq 1 .. n
    BY <1>1
  <2>2. Cardinality(Before(s, i) \cup {i}) <= n
    BY <1>0, <2>1, FS_Subset
  <2>3. PICK c \in Nat : c = Cardinality(Before(s, i)) /\ c + 1 <= n
    BY <1>1, <2>2
  <2>4. Rank(s, i) = 1 + c
    BY <2>3 DEF Rank
  <2> QED BY <2>3, <2>4
<1>3. ASSUME NEW i \in 1 .. n, NEW j \in 1 .. n, i \in Before(s, j) PROVE Rank(s, i) < Rank(s, j)
  <2>1. Before(s, i) \cup {i} \subseteq Before(s, j)
    <3>1. PICK a \in Int, b \in Int : a = s[i] /\ b = s[j]
      BY <1>0
    <3>2. a < b \/ (a = b /\ i < j)
      BY <1>3, <3>1 DEF Before
    <3>3. ASSUME NEW x \in Before(s, i) PROVE x \in Before(s, j)
      <4>1. PICK c \in Int : c = s[x] /\ x \in 1 .. n /\ (c < a \/ (c = a /\ x < i))
        BY <1>0, <3>1 DEF Before
      <4>2. c < b \/ (c = b /\ x < j)
        BY <3>2, <4>1
      <4> QED BY <3>1, <4>1, <4>2 DEF Before
    <3> QED BY <1>3, <3>3
  <2>2. Cardinality(Before(s, i) \cup {i}) <= Cardinality(Before(s, j))
    BY <1>1, <2>1, FS_Subset
  <2>3. PICK c \in Nat, d \in Nat : c = Cardinality(Before(s, i)) /\ d = Cardinality(Before(s, j)) /\ c + 1 <= d
    <3>1. PICK c \in Nat : c = Cardinality(Before(s, i)) /\ Cardinality(Before(s, i) \cup {i}) = c + 1
      BY <1>1
    <3>2. PICK d \in Nat : d = Cardinality(Before(s, j))
      BY <1>1
    <3> QED BY <2>2, <3>1, <3>2
  <2>4. Rank(s, i) = 1 + c /\ Rank(s, j) = 1 + d
    BY <2>3 DEF Rank
  <2> QED BY <2>3, <2>4
<1>4. ASSUME NEW i \in 1 .. n, NEW j \in 1 .. n, Rank(s, i) = Rank(s, j) PROVE i = j
  <2>1. SUFFICES ASSUME i # j PROVE FALSE
    OBVIOUS
  <2>2. i \in Before(s, j) \/ j \in Before(s, i)
    <3>1. PICK a \in Int, b \in Int : a = s[i] /\ b = s[j]
      BY <1>0
    <3>2. a < b \/ b < a \/ (a = b /\ i < j) \/ (a = b /\ j < i)
      BY <2>1
    <3> QED BY <3>1, <3>2 DEF Before
  <2>3. Rank(s, i) < Rank(s, j) \/ Rank(s, j) < Rank(s, i)
    BY <1>3, <2>2
  <2>4. PICK a \in Nat : a = Rank(s, i) /\ a = Rank(s, j)
    BY <1>2, <1>4
  <2> QED BY <2>3, <2>4
<1>5. ASSUME NEW k \in 1 .. n PROVE \E i \in 1 .. n : Rank(s, i) = k
  <2>1. SUFFICES ASSUME \A i \in 1 .. n : Rank(s, i) # k PROVE FALSE
    OBVIOUS
  <2> DEFINE T == (1 .. n) \ {k}
             f == [i \in 1 .. n |-> Rank(s, i)]
  <2>3. IsFiniteSet(T) /\ Cardinality(T) = n - 1
    BY <1>0, FS_RemoveElement, ZenonT(60)
  <2>4. f \in [1 .. n -> T]
    BY <1>2, <2>1
  <2>5. \A x, y \in 1 .. n : f[x] = f[y] => x = y
    BY <1>4
  <2>6. Cardinality(1 .. n) <= Cardinality(T)
    <3> HIDE DEF f, T
    <3> QED BY <1>0, <2>3, <2>4, <2>5, NoMoreThan
  <2> QED BY <1>0, <2>3, <2>6
<1> QED BY <1>2, <1>3, <1>4, <1>5

\* p puts the values of s in order.
Sorts(p, s) ==
    /\ p \in [1 .. Len(s) -> 1 .. Len(s)]
    /\ \A i \in 1 .. Len(s) : \E k \in 1 .. Len(s) : p[k] = i
    /\ \A k, l \in 1 .. Len(s) : k < l => s[p[k]] <= s[p[l]]

LEMMA SortOrderSorts == ASSUME NEW s \in Seq(Int) PROVE Sorts(SortOrder(s), s)
<1>1. PICK n \in Nat : n = Len(s) /\ DOMAIN s = 1 .. n
  OBVIOUS
<1>2. /\ \A i \in 1 .. n : Rank(s, i) \in 1 .. n
      /\ \A i, j \in 1 .. n : i \in Before(s, j) => Rank(s, i) < Rank(s, j)
      /\ \A i, j \in 1 .. n : Rank(s, i) = Rank(s, j) => i = j
      /\ \A k \in 1 .. n : \E i \in 1 .. n : Rank(s, i) = k
  BY <1>1, RankFacts
<1> DEFINE p == [k \in 1 .. n |-> CHOOSE i \in 1 .. n : Rank(s, i) = k]
<1>3. ASSUME NEW k \in 1 .. n PROVE p[k] \in 1 .. n /\ Rank(s, p[k]) = k
  <2>1. p[k] = CHOOSE i \in 1 .. n : Rank(s, i) = k
    OBVIOUS
  <2>2. (CHOOSE i \in 1 .. n : Rank(s, i) = k) \in 1 .. n /\ Rank(s, CHOOSE i \in 1 .. n : Rank(s, i) = k) = k
    BY <1>2, Zenon
  <2> QED BY <2>1, <2>2
<1>4. p = [k \in 1 .. n |-> p[k]]
  OBVIOUS
<1> HIDE DEF p
<1>5. p \in [1 .. n -> 1 .. n]
  BY <1>3, <1>4
<1>6. ASSUME NEW i \in 1 .. n PROVE \E k \in 1 .. n : p[k] = i
  <2>1. PICK k \in 1 .. n : k = Rank(s, i)
    BY <1>2
  <2>2. PICK j \in 1 .. n : j = p[k] /\ Rank(s, j) = k
    BY <1>3
  <2>3. j = i
    BY <1>2, <2>1, <2>2
  <2> QED BY <2>2, <2>3
<1>7. ASSUME NEW k \in 1 .. n, NEW l \in 1 .. n, k < l PROVE s[p[k]] <= s[p[l]]
  <2>1. PICK a \in 1 .. n, b \in 1 .. n : a = p[k] /\ b = p[l] /\ Rank(s, a) = k /\ Rank(s, b) = l
    BY <1>3
  <2>2. b \notin Before(s, a)
    <3>1. b \in Before(s, a) => Rank(s, b) < Rank(s, a)
      BY <1>2
    <3> QED BY <1>7, <2>1, <3>1
  <2>3. PICK x \in Int, y \in Int : x = s[a] /\ y = s[b]
    BY <1>1
  <2>4. ~(y < x)
    BY <1>1, <2>2, <2>3 DEF Before
  <2>5. x <= y
    BY <2>4
  <2> QED BY <2>1, <2>3, <2>5
<1>8. \E q \in [1 .. n -> 1 .. n] : /\ \A i \in 1 .. n : \E k \in 1 .. n : q[k] = i
                                    /\ \A k, l \in 1 .. n : k < l => s[q[k]] <= s[q[l]]
  BY <1>5, <1>6, <1>7
<1>9. PICK q : q = SortOrder(s)
  OBVIOUS
<1>10. q = CHOOSE r \in [1 .. n -> 1 .. n] : /\ \A i \in 1 .. n : \E k \in 1 .. n : r[k] = i
                                             /\ \A k, l \in 1 .. n : k < l => s[r[k]] <= s[r[l]]
  BY <1>1, <1>9 DEF SortOrder
<1>11. /\ q \in [1 .. n -> 1 .. n] /\ \A i \in 1 .. n : \E k \in 1 .. n : q[k] = i
       /\ \A k, l \in 1 .. n : k < l => s[q[k]] <= s[q[l]]
  <2> DEFINE Q(r) == /\ \A i \in 1 .. n : \E k \in 1 .. n : r[k] = i
                     /\ \A k, l \in 1 .. n : k < l => s[r[k]] <= s[r[l]]
  <2>1. (\E r \in [1 .. n -> 1 .. n] : Q(r)) /\ q = CHOOSE r \in [1 .. n -> 1 .. n] : Q(r)
    BY <1>8, <1>10
  <2>2. q \in [1 .. n -> 1 .. n] /\ Q(q)
    <3> HIDE DEF Q
    <3> QED BY <2>1, Zenon
  <2> QED BY <2>2
<1> QED BY <1>1, <1>9, <1>11 DEF Sorts

\* The value at place k of the sorted values: fewer than k are smaller, k are no larger.
LEMMA ValueAtRank ==
    ASSUME NEW s \in Seq(Int), NEW k \in 1 .. Len(s), NEW v, v = s[SortOrder(s)[k]]
    PROVE  LET b == Cardinality({i \in DOMAIN s : s[i] < v})
               a == Cardinality({i \in DOMAIN s : s[i] <= v})
           IN  v \in Int /\ b \in Nat /\ a \in Nat /\ b <= k - 1 /\ k <= a
<1>1. PICK n \in Nat : n = Len(s) /\ DOMAIN s = 1 .. n
  OBVIOUS
<1>2. PICK p : p = SortOrder(s)
  OBVIOUS
<1>3. /\ p \in [1 .. n -> 1 .. n] /\ \A i \in 1 .. n : \E j \in 1 .. n : p[j] = i
      /\ \A j, l \in 1 .. n : j < l => s[p[j]] <= s[p[l]]
  BY <1>1, <1>2, SortOrderSorts DEF Sorts
<1>4. /\ \A i \in 1 .. n : s[i] \in Int /\ p[i] \in 1 .. n
      /\ IsFiniteSet(1 .. n) /\ Cardinality(1 .. n) = n /\ k \in 1 .. n /\ v = s[p[k]] /\ v \in Int
  <2>1. \A i \in 1 .. n : s[i] \in Int /\ p[i] \in 1 .. n
    <3>1. \A i \in 1 .. n : s[i] \in Int
      BY <1>1
    <3>2. \A i \in 1 .. n : p[i] \in 1 .. n
      BY <1>3
    <3> QED BY <3>1, <3>2, Zenon
  <2>2. IsFiniteSet(1 .. n) /\ Cardinality(1 .. n) = n
    BY CountUpTo
  <2>3. k \in 1 .. n /\ v = s[p[k]]
    BY <1>1, <1>2
  <2>4. PICK i \in 1 .. n : i = p[k]
    BY <2>1, <2>3
  <2>5. v \in Int
    BY <2>1, <2>3, <2>4
  <2> QED BY <2>1, <2>2, <2>3, <2>5
<1> DEFINE B == {i \in 1 .. n : s[i] < v}
           A == {i \in 1 .. n : s[i] <= v}
           at == [i \in 1 .. n |-> CHOOSE j \in 1 .. n : p[j] = i]
<1>5. ASSUME NEW i \in 1 .. n PROVE at[i] \in 1 .. n /\ p[at[i]] = i
  <2>1. (CHOOSE j \in 1 .. n : p[j] = i) \in 1 .. n /\ p[CHOOSE j \in 1 .. n : p[j] = i] = i
    BY <1>3, Zenon
  <2> QED BY <2>1
<1>6. IsFiniteSet(A) /\ IsFiniteSet(B) /\ Cardinality(A) \in Nat /\ Cardinality(B) \in Nat
  <2>1. A \subseteq 1 .. n /\ B \subseteq 1 .. n
    OBVIOUS
  <2> HIDE DEF A, B
  <2> QED BY <1>4, <2>1, FS_Subset, FS_CardinalityType
<1>7. IsFiniteSet(1 .. k - 1) /\ Cardinality(1 .. k - 1) = k - 1 /\ IsFiniteSet(1 .. k) /\ Cardinality(1 .. k) = k
  <2>1. k - 1 \in Nat /\ k \in Nat
    BY <1>4
  <2> QED BY <2>1, CountUpTo
<1> HIDE DEF at
<1>8. Cardinality(B) <= k - 1
  <2> DEFINE f == [i \in B |-> at[i]]
  <2>1. ASSUME NEW i \in B PROVE at[i] \in 1 .. k - 1
    <3>1. PICK j \in 1 .. n : j = at[i] /\ p[j] = i /\ i \in 1 .. n
      BY <1>5
    <3>2. PICK x \in Int : x = s[i] /\ x < v
      BY <1>4
    <3>3. ~(k < j) /\ j # k
      <4>1. k < j => s[p[k]] <= s[p[j]]
        BY <1>3, <1>4
      <4>2. k < j => v <= x
        BY <1>4, <3>1, <3>2, <4>1
      <4>3. ~(v <= x) /\ x # v
        BY <1>4, <3>2, SMTT(30)
      <4>4. j = k => x = v
        BY <1>4, <3>1, <3>2
      <4> QED BY <4>2, <4>3, <4>4
    <3>4. j \in 1 .. k - 1
      BY <1>4, <3>3
    <3> QED BY <3>1, <3>4
  <2>2. f \in [B -> 1 .. k - 1]
    BY <2>1
  <2>3. \A x, y \in B : f[x] = f[y] => x = y
    <3>1. \A x \in B : f[x] = at[x] /\ x \in 1 .. n
      OBVIOUS
    <3> HIDE DEF f, B
    <3> QED BY <1>5, <3>1
  <2> HIDE DEF f, B
  <2>4. Cardinality(B) <= Cardinality(1 .. k - 1)
    BY <1>6, <1>7, <2>2, <2>3, NoMoreThan
  <2> QED BY <1>7, <2>4
<1>9. \A x, y \in 1 .. n : p[x] = p[y] => x = y
  <2>1. SUFFICES ASSUME NEW x \in 1 .. n, NEW y \in 1 .. n, p[x] = p[y], x # y PROVE FALSE
    OBVIOUS
  <2> DEFINE T == (1 .. n) \ {y}
             f == [i \in 1 .. n |-> IF at[i] = y THEN x ELSE at[i]]
  <2>2. IsFiniteSet(T) /\ Cardinality(T) = n - 1
    <3>1. PICK S : S = 1 .. n
      OBVIOUS
    <3>2. IsFiniteSet(S) /\ Cardinality(S) = n /\ y \in S
      BY <1>4, <3>1
    <3>3. IsFiniteSet(S \ {y}) /\ Cardinality(S \ {y}) = n - 1
      BY <3>2, FS_RemoveElement
    <3> QED BY <3>1, <3>3
  <2>3. ASSUME NEW i \in 1 .. n PROVE f[i] \in T /\ p[f[i]] = i
    BY <1>5, <2>1
  <2>4. f \in [1 .. n -> T]
    BY <2>3
  <2>5. \A i, j \in 1 .. n : f[i] = f[j] => i = j
    <3> HIDE DEF f, T
    <3> QED BY <2>3
  <2> HIDE DEF f, T
  <2>6. Cardinality(1 .. n) <= Cardinality(T)
    BY <1>4, <2>2, <2>4, <2>5, NoMoreThan
  <2> QED BY <1>4, <2>2, <2>6
<1>10. k <= Cardinality(A)
  <2> DEFINE f == [j \in 1 .. k |-> p[j]]
  <2>1. ASSUME NEW j \in 1 .. k PROVE p[j] \in A
    <3>1. j \in 1 .. n /\ p[j] \in 1 .. n
      BY <1>4
    <3>2. PICK x \in Int : x = s[p[j]]
      BY <1>4, <3>1
    <3>3. j = k \/ j < k
      OBVIOUS
    <3>4. x <= v
      <4>1. j < k => s[p[j]] <= s[p[k]]
        BY <1>3, <1>4, <3>1
      <4>2. j < k => x <= v
        BY <1>4, <3>2, <4>1
      <4>3. j = k => x = v
        BY <1>4, <3>2
      <4> QED BY <1>4, <3>2, <3>3, <4>2, <4>3
    <3> QED BY <3>1, <3>2, <3>4
  <2>2. f \in [1 .. k -> A]
    BY <2>1
  <2>3. \A x, y \in 1 .. k : f[x] = f[y] => x = y
    <3>1. \A x \in 1 .. k : f[x] = p[x] /\ x \in 1 .. n
      BY <1>4
    <3> HIDE DEF f
    <3> QED BY <1>9, <3>1
  <2> HIDE DEF f, A
  <2>4. Cardinality(1 .. k) <= Cardinality(A)
    BY <1>6, <1>7, <2>2, <2>3, NoMoreThan
  <2> QED BY <1>7, <2>4
<1> QED BY <1>1, <1>4, <1>6, <1>8, <1>10

\* k is the place of a percentile among n sorted values.
AtPlace(p, n, k) ==
    /\ k = PctIndex(p, n) /\ k \in 1 .. n
    /\ 1000 * (k - 1) <= p * (n - 1) /\ 1000 * k > p * (n - 1)

LEMMA PctPlaces ==
    ASSUME NEW n \in Nat \ {0}
    PROVE  \E a, b, c \in 1 .. n :
              AtPlace(500, n, a) /\ AtPlace(990, n, b) /\ AtPlace(999, n, c) /\ a <= b /\ b <= c
<1>1. ASSUME NEW x \in Nat PROVE x \div 1000 \in Nat /\ 1000 * (x \div 1000) <= x /\ x < 1000 * (x \div 1000) + 1000
  OBVIOUS
<1>2. ASSUME NEW x \in Nat PROVE \E q \in Nat : q = x \div 1000 /\ 1000 * q <= x /\ x < 1000 * q + 1000
  BY <1>1
<1>3. PICK x \in Nat, y \in Nat, z \in Nat : x = 500 * (n - 1) /\ y = 990 * (n - 1) /\ z = 999 * (n - 1)
  OBVIOUS
<1>4. PICK a \in Nat : a = x \div 1000 /\ 1000 * a <= x /\ x < 1000 * a + 1000
  BY <1>2
<1>5. PICK b \in Nat : b = y \div 1000 /\ 1000 * b <= y /\ y < 1000 * b + 1000
  BY <1>2
<1>6. PICK c \in Nat : c = z \div 1000 /\ 1000 * c <= z /\ z < 1000 * c + 1000
  BY <1>2
<1>7. PctIndex(500, n) = 1 + a /\ PctIndex(990, n) = 1 + b /\ PctIndex(999, n) = 1 + c
  BY <1>3, <1>4, <1>5, <1>6 DEF PctIndex
<1>8. 1 + a \in 1 .. n /\ 1 + b \in 1 .. n /\ 1 + c \in 1 .. n /\ 1 + a <= 1 + b /\ 1 + b <= 1 + c
  BY <1>3, <1>4, <1>5, <1>6
<1>9. AtPlace(500, n, 1 + a)
  BY <1>3, <1>4, <1>7, <1>8 DEF AtPlace
<1>10. AtPlace(990, n, 1 + b)
  BY <1>3, <1>5, <1>7, <1>8 DEF AtPlace
<1>11. AtPlace(999, n, 1 + c)
  BY <1>3, <1>6, <1>7, <1>8 DEF AtPlace
<1> QED BY <1>8, <1>9, <1>10, <1>11

\* v is where the percentile p of the n values of s has to be.
Ranked(s, n, p, v) ==
    /\ 1000 * Cardinality({i \in DOMAIN s : s[i] < v}) <= p * (n - 1)
    /\ 1000 * Cardinality({i \in DOMAIN s : s[i] <= v}) > p * (n - 1)

SortedAt(s, k) == s[SortOrder(s)[k]]

LEMMA PctRank ==
    ASSUME NEW s \in Seq(Int), NEW n \in Nat, n = Len(s), NEW p \in Nat, NEW k \in 1 .. n,
           AtPlace(p, n, k), NEW v, v = SortedAt(s, k)
    PROVE  Ranked(s, n, p, v)
<1> DEFINE b == Cardinality({i \in DOMAIN s : s[i] < v})
           a == Cardinality({i \in DOMAIN s : s[i] <= v})
<1>1. k \in 1 .. Len(s)
  OBVIOUS
<1>2. b \in Nat /\ a \in Nat /\ b <= k - 1 /\ k <= a
  BY <1>1, ValueAtRank DEF SortedAt
<1> HIDE DEF a, b
<1>3. PICK x \in Int : x = p * (n - 1)
  OBVIOUS
<1>4. 1000 * (k - 1) <= x /\ 1000 * k > x
  BY <1>3 DEF AtPlace
<1>5. 1000 * b <= x /\ 1000 * a > x
  BY <1>2, <1>4
<1> QED BY <1>3, <1>5 DEF a, b, Ranked

LEMMA PctRight ==
    ASSUME NEW torn, NEW k, StatsOf(m, torn, k) PROVE PctHasItsRank
<1>1. PICK s \in Seq(Int) : s = m.latencies_ms_
  BY DEF StatsOf
<1>2. CASE s = << >>
  <2>1. \A p : Pct(m, p) = 0
    BY <1>1, <1>2 DEF Pct
  <2>2. Len(m.latencies_ms_) = 0
    BY <1>1, <1>2
  <2> QED BY <2>1, <2>2 DEF PctHasItsRank
<1>3. CASE s # << >>
  <2>1. PICK n \in Nat \ {0} : n = Len(s)
    BY <1>3
  <2>2. PICK a \in 1 .. n, b \in 1 .. n, c \in 1 .. n :
           AtPlace(500, n, a) /\ AtPlace(990, n, b) /\ AtPlace(999, n, c) /\ a <= b /\ b <= c
    BY PctPlaces, ZenonT(60)
  <2>3. ASSUME NEW p, NEW l, AtPlace(p, n, l) PROVE Pct(m, p) = SortedAt(s, l)
    <3>1. l = PctIndex(p, Len(s))
      BY <2>1, <2>3 DEF AtPlace
    <3>2. Pct(m, p) = s[SortOrder(s)[PctIndex(p, Len(s))]]
      BY <1>1, <1>3, Zenon DEF Pct
    <3> QED BY <3>1, <3>2, Zenon DEF SortedAt
  <2>4. Pct(m, 500) = SortedAt(s, a) /\ Pct(m, 990) = SortedAt(s, b) /\ Pct(m, 999) = SortedAt(s, c)
    BY <2>2, <2>3
  <2>5. ASSUME NEW p \in {500, 990, 999} PROVE Ranked(s, n, p, Pct(m, p))
    <3>1. PICK l \in 1 .. n : AtPlace(p, n, l)
      BY <2>2
    <3>2. PICK v : v = Pct(m, p) /\ v = SortedAt(s, l)
      BY <2>3, <3>1
    <3>3. p \in Nat /\ n \in Nat
      OBVIOUS
    <3>4. Ranked(s, n, p, v)
      BY <2>1, <3>1, <3>2, <3>3, PctRank
    <3> QED BY <3>2, <3>4
  <2>6. ASSUME NEW k1 \in 1 .. n, NEW k2 \in 1 .. n, k1 <= k2 PROVE SortedAt(s, k1) <= SortedAt(s, k2)
    <3>1. SortedAt(s, k1) \in Int
      BY <2>1, ValueAtRank DEF SortedAt
    <3>2. k1 = k2 \/ k1 < k2
      BY <2>6
    <3>3. k1 < k2 => SortedAt(s, k1) <= SortedAt(s, k2)
      BY <2>1, SortOrderSorts DEF Sorts, SortedAt
    <3> QED BY <3>1, <3>2, <3>3
  <2>7. Pct(m, 500) <= Pct(m, 990) /\ Pct(m, 990) <= Pct(m, 999)
    <3>1. SortedAt(s, a) <= SortedAt(s, b) /\ SortedAt(s, b) <= SortedAt(s, c)
      BY <2>2, <2>6
    <3> QED BY <2>4, <3>1
  <2>8. \A p \in {500, 990, 999} : Ranked(m.latencies_ms_, Len(m.latencies_ms_), p, Pct(m, p))
    BY <1>1, <2>1, <2>5
  <2>9. ASSUME NEW p \in {500, 990, 999}
        PROVE  LET t == m.latencies_ms_
               IN  /\ 1000 * Cardinality({i \in DOMAIN t : t[i] < Pct(m, p)}) <= p * (Len(t) - 1)
                   /\ 1000 * Cardinality({i \in DOMAIN t : t[i] <= Pct(m, p)}) > p * (Len(t) - 1)
    <3>1. Ranked(m.latencies_ms_, Len(m.latencies_ms_), p, Pct(m, p))
      BY <2>8
    <3> HIDE <2>9
    <3> QED BY <3>1 DEF Ranked
  <2> QED BY <2>7, <2>9 DEF PctHasItsRank
<1> QED BY <1>2, <1>3

-----------------------------------------------------------------------------
(* The drop rate and the gaps                                              *)

LEMMA TicksOf ==
    ASSUME NEW s \in Seq(Frames)
    PROVE  /\ Ticks(s) \in Seq(Nat) /\ Len(Ticks(s)) = Len(s)
           /\ \A i \in 1 .. Len(s) : Ticks(s)[i] = s[i].tick
<1>1. PICK n \in Nat : n = Len(s)
  OBVIOUS
<1>2. Ticks(s) = [i \in 1 .. n |-> s[i].tick]
  BY <1>1 DEF Ticks
<1>3. ASSUME NEW i \in 1 .. n PROVE s[i].tick \in Nat
  <2>1. s[i] \in Frames
    BY <1>1
  <2> QED BY <2>1 DEF Frames
<1> QED BY <1>1, <1>2, <1>3

\* The ticks from a to b that are not in g.
Missing(g, a, b) == {t \in a .. b : ~\E i \in 1 .. Len(g) : g[i] = t}

\* Of n rising ticks between a and b, b - a + 1 - n are missing.
LEMMA MissingTicks ==
    ASSUME NEW g \in Seq(Nat), NEW n \in Nat, n = Len(g), n > 1, NEW a \in Nat, a = g[1], NEW b \in Nat, b = g[n],
           \A i, j \in 1 .. n : i < j => g[i] < g[j]
    PROVE  /\ a < b
           /\ Cardinality(Missing(g, a, b)) \in Nat /\ Cardinality(Missing(g, a, b)) = b - a + 1 - n
<1>3. \A i \in 1 .. n : g[i] \in Nat
  OBVIOUS
<1>4. a < b
  <2>1. 1 \in 1 .. n /\ n \in 1 .. n /\ 1 < n
    OBVIOUS
  <2> QED BY <2>1
<1> DEFINE W == a .. b
           R == {t \in W : \E i \in 1 .. n : g[i] = t}
           M == {t \in W : ~\E i \in 1 .. n : g[i] = t}
           at == [t \in R |-> CHOOSE i \in 1 .. n : g[i] = t]
           f  == [i \in 1 .. n |-> g[i]]
<1>6. IsFiniteSet(W) /\ Cardinality(W) = b - a + 1 /\ IsFiniteSet(1 .. n) /\ Cardinality(1 .. n) = n
  <2>1. a \in Int /\ b \in Int /\ ~(a > b)
    BY <1>4
  <2> QED BY <2>1, FS_Interval, CountUpTo
<1>7. IsFiniteSet(R) /\ IsFiniteSet(M) /\ Cardinality(R) \in Nat /\ Cardinality(M) \in Nat
      /\ M = W \ R /\ W \cap R = R
  <2>1. R \subseteq W /\ M \subseteq W /\ M = W \ R /\ W \cap R = R
    OBVIOUS
  <2> HIDE DEF R, M, W
  <2> QED BY <1>6, <2>1, FS_Subset, FS_CardinalityType
<1>8. ASSUME NEW i \in 1 .. n PROVE g[i] \in R
  <2>1. PICK x \in Nat : x = g[i]
    BY <1>3
  <2>2. 1 \in 1 .. n /\ n \in 1 .. n /\ (i = 1 \/ 1 < i) /\ (i = n \/ i < n)
    OBVIOUS
  <2>3. a <= x
    <3>1. 1 < i => g[1] < g[i]
      BY <2>2
    <3> QED BY <1>4, <2>1, <2>2, <3>1
  <2>4. x <= b
    <3>1. i < n => g[i] < g[n]
      BY <2>2
    <3> QED BY <1>4, <2>1, <2>2, <3>1
  <2> QED BY <2>1, <2>3, <2>4
<1>9. Cardinality(R) = n
  <2>1. f \in [1 .. n -> R] /\ \A i \in 1 .. n : f[i] = g[i]
    BY <1>8
  <2>2. \A i, j \in 1 .. n : f[i] = f[j] => i = j
    <3> SUFFICES ASSUME NEW i \in 1 .. n, NEW j \in 1 .. n, g[i] = g[j], i # j PROVE FALSE
      BY <2>1
    <3>1. PICK x \in Nat : x = g[i] /\ x = g[j]
      BY <1>3
    <3>2. i < j \/ j < i
      OBVIOUS
    <3>3. x < x
      BY <3>1, <3>2
    <3> QED BY <3>3
  <2>3. ASSUME NEW t \in R PROVE at[t] \in 1 .. n /\ g[at[t]] = t
    <3>1. \E i \in 1 .. n : g[i] = t
      OBVIOUS
    <3>2. (CHOOSE i \in 1 .. n : g[i] = t) \in 1 .. n /\ g[CHOOSE i \in 1 .. n : g[i] = t] = t
      BY <3>1, Zenon
    <3> QED BY <3>2
  <2>4. at = [t \in R |-> at[t]]
    OBVIOUS
  <2> HIDE DEF f, at, R
  <2>5. at \in [R -> 1 .. n] /\ \A x, y \in R : at[x] = at[y] => x = y
    BY <2>3, <2>4
  <2>6. Cardinality(1 .. n) <= Cardinality(R)
    BY <1>6, <1>7, <2>1, <2>2, NoMoreThan
  <2>7. Cardinality(R) <= Cardinality(1 .. n)
    BY <1>6, <1>7, <2>5, NoMoreThan, SMTT(30)
  <2> QED BY <1>6, <1>7, <2>6, <2>7
<1>10. Cardinality(M) \in Nat /\ Cardinality(M) = b - a + 1 - n
  <2> HIDE DEF M, W, R
  <2>1. Cardinality(W \ R) = Cardinality(W) - Cardinality(W \cap R)
    BY <1>6, FS_Difference
  <2>2. Cardinality(M) = Cardinality(W) - Cardinality(R)
    BY <1>7, <2>1, Zenon
  <2>3. Cardinality(M) = b - a + 1 - n
    BY <1>6, <1>9, <2>2, SMTT(30)
  <2> QED BY <1>7, <2>3
<1>11. Missing(g, a, b) = M
  BY DEF Missing
<1> HIDE DEF M
<1> QED BY <1>4, <1>10, <1>11

LEMMA RateRight == ASSUME IInv, Figures PROVE DropRateExact
<1> DEFINE first  == got[1]
           last   == got[Len(got)]
           window == last.at - first.at
           missed == {t \in first.tick .. last.tick : \A i \in DOMAIN got : got[i].tick # t}
           lost   == Cardinality(missed) + last.latency - first.latency
           rate   == DropRate(m, 1, config.duration)
<1> SUFFICES ASSUME Direct, Len(got) > 1, window > 0
             PROVE  rate.n * window = 100 * (IF lost > 0 THEN lost ELSE 0) * rate.d
  BY DEF DropRateExact, Direct
<1>1. PICK n \in Nat : n = Len(got) /\ n > 1 /\ got \in Seq(Frames)
  BY DEF IInv, Count
<1>2. PICK g \in Seq(Nat) : g = Ticks(got) /\ Len(g) = n /\ \A i \in 1 .. n : g[i] = got[i].tick
  BY <1>1, TicksOf
<1>3. LineOk
  BY DEF Figures
<1>4. \A i, j \in 1 .. n : i < j => g[i] < g[j]
  BY <1>2, <1>3 DEF LineOk, InLine, RisingTo
<1>5. PICK a \in Nat, b \in Nat, x \in Int, y \in Int, p \in Int, q \in Int :
         /\ a = first.tick /\ b = last.tick /\ a = g[1] /\ b = g[n] /\ x = first.at /\ y = last.at
         /\ p = first.latency /\ q = last.latency /\ p = x - a /\ q = y - b
  <2>1. 1 \in 1 .. n /\ n \in 1 .. n
    BY <1>1
  <2>2. first \in Frames /\ last \in Frames /\ Sound(first) /\ Sound(last)
    BY <1>1, <1>3, <2>1 DEF LineOk
  <2>3. g[1] = first.tick /\ g[n] = last.tick
    BY <1>1, <1>2, <2>1
  <2> QED BY <2>2, <2>3 DEF Frames, Sound
<1>6. /\ m.has_arrival_ = TRUE /\ m.received_ = n /\ m.first_arrival_s_ = x /\ m.last_arrival_s_ = y
  <2>1. m.received_ = n
    <3>1. spoilt = 0
      BY DEF IInv, RulesOk, Direct
    <3> QED BY <1>1, <3>1 DEF IInv, StatsOk, StatsOf
  <2>2. m.has_arrival_ = TRUE /\ m.first_arrival_s_ = first.at /\ m.last_arrival_s_ = last.at
    <3>1. Len(got) > 0
      BY <1>1
    <3> QED BY <1>3, <3>1 DEF LineOk, ArrivalsOk
  <2> QED BY <1>5, <2>1, <2>2
<1>7. PICK c \in Nat : c = Cardinality(missed) /\ c = b - a + 1 - n
  <2>1. missed = Missing(g, a, b)
    <3>1. DOMAIN got = 1 .. n
      BY <1>1
    <3>2. \A t : (\A i \in DOMAIN got : got[i].tick # t) <=> ~\E i \in 1 .. n : g[i] = t
      BY <1>2, <3>1, Zenon
    <3> DEFINE P(t) == \A i \in DOMAIN got : got[i].tick # t
               Q(t) == ~\E i \in 1 .. n : g[i] = t
    <3>3. missed = {t \in a .. b : P(t)}
      BY <1>5
    <3>4. Missing(g, a, b) = {t \in a .. b : Q(t)}
      BY <1>2 DEF Missing
    <3>5. \A t : P(t) <=> Q(t)
      BY <3>2
    <3> HIDE DEF P, Q, missed
    <3> QED BY <3>3, <3>4, <3>5
  <2>2. Cardinality(Missing(g, a, b)) \in Nat /\ Cardinality(Missing(g, a, b)) = b - a + 1 - n
    <3>1. a = g[1] /\ b = g[n] /\ n = Len(g) /\ n > 1
      BY <1>1, <1>2, <1>5
    <3> QED BY <1>4, <3>1, MissingTicks, SMTT(60)
  <2> HIDE DEF missed
  <2> QED BY <2>1, <2>2
<1>8. PICK w \in Nat : w = y - x /\ w > 0 /\ w = window
  BY <1>5, SMTT(60)
<1>9. PICK l \in Int : l = lost /\ l = w - (n - 1)
  <2>1. lost = c + q - p
    BY <1>5, <1>7
  <2>2. c + q - p = w - (n - 1)
    <3>1. p = x - a /\ q = y - b /\ c = b - a + 1 - n /\ w = y - x
      BY <1>5, <1>7, <1>8
    <3> HIDE DEF lost, missed, window, first, last
    <3> QED BY <3>1
  <2> HIDE DEF lost
  <2> QED BY <2>1, <2>2
<1>10. rate = Share(w - (n - 1), w)
  <2>1. 1 * w = w /\ m.last_arrival_s_ - m.first_arrival_s_ = w /\ m.received_ >= 2
    BY <1>1, <1>6, <1>8
  <2> QED BY <1>6, <1>8, <2>1 DEF DropRate
<1> DEFINE k == IF l > 0 THEN l ELSE 0
<1>11. rate = [n |-> 100 * k, d |-> w]
  <2>1. ~(w <= 0)
    BY <1>8
  <2>2. Share(l, w) = [n |-> 100 * k, d |-> w]
    BY <2>1 DEF Share
  <2> QED BY <1>9, <1>10, <2>2
<1>12. PICK r \in Int : r = k
  OBVIOUS
<1> HIDE DEF rate, lost, window, k
<1>13. rate.n = 100 * r /\ rate.d = w
  BY <1>11, <1>12
<1>14. (IF lost > 0 THEN lost ELSE 0) = r
  BY <1>9, <1>12 DEF k
<1> QED BY <1>8, <1>13, <1>14

LEMMA SmallMultiple ==
    ASSUME NEW L \in Nat \ {0}, NEW k \in Int, NEW x \in Int, x = L * k, x < L, -L < x
    PROVE  x = 0
<1>1. k >= 1 => L * k >= L
  OBVIOUS
<1>2. k <= -1 => L * k <= -L
  OBVIOUS
<1>3. k = 0
  BY <1>1, <1>2
<1> QED BY <1>3

LEMMA ModulusForm ==
    ASSUME NEW L \in Nat \ {0}, NEW x \in Nat
    PROVE  x % L \in 0 .. L - 1 /\ \E q \in Int : x % L = x - L * q
<1>1. L \in Int /\ L > 0
  OBVIOUS
<1>2. x % L = x - L * (x \div L) /\ x \div L \in Int
  BY <1>1
<1>3. x % L \in 0 .. L - 1
  BY <1>1
<1> QED BY <1>2, <1>3

\* Sequence numbers tell the next frame from all but those SeqLimit later.
LEMMA GapMeans ==
    ASSUME NEW a \in Nat, NEW b \in Nat, a < b, b - a <= SeqLimit PROVE GapAt(a, b) <=> b - a > 1
<1>0. PICK L \in Nat \ {0} : L = SeqLimit
  BY ScenarioAssumption
<1>1. PICK r \in 0 .. L - 1, p \in Int : r = a % L /\ r = a - L * p
  BY ModulusForm
<1>2. PICK s \in 0 .. L - 1, q \in Int : s = b % L /\ s = b - L * q
  BY ModulusForm
<1>30. PICK y \in Nat : y = r + 1
  OBVIOUS
<1>3. PICK u \in 0 .. L - 1, v \in Int : u = y % L /\ u = y - L * v
  BY ModulusForm
<1>4. GapAt(a, b) <=> s # u
  <2>1. r >= 0
    OBVIOUS
  <2>2. (r + 1) % L = u
    BY <1>30, <1>3, Zenon
  <2>3. GapAt(a, b) <=> r >= 0 /\ s # (r + 1) % L
    BY <1>0, <1>1, <1>2, Zenon DEF GapAt, IsGap
  <2> QED BY <2>1, <2>2, <2>3, Zenon
<1>5. PICK k \in Int : k = p - q + v
  OBVIOUS
<1>6. s - u = (b - a - 1) + L * k
  <2>1. L * k = L * p - L * q + L * v
    BY <1>5
  <2> QED BY <1>1, <1>2, <1>30, <1>3, <2>1
<1>7. PICK x \in Int : x = L * k
  OBVIOUS
<1>8. CASE b - a = 1
  <2>1. x = s - u /\ x < L /\ -L < x
    BY <1>2, <1>3, <1>6, <1>7, <1>8
  <2>2. x = 0
    BY <1>7, <2>1, SmallMultiple
  <2> QED BY <1>4, <1>8, <2>1, <2>2
<1>9. CASE b - a > 1
  <2>1. SUFFICES ASSUME s = u PROVE FALSE
    BY <1>4, <1>9
  <2>2. x = -(b - a - 1) /\ x < L /\ -L < x
    BY <1>0, <1>6, <1>7, <1>9, <2>1
  <2>3. x = 0
    BY <1>7, <2>2, SmallMultiple
  <2> QED BY <1>9, <2>2, <2>3
<1> QED BY <1>8, <1>9
LEMMA GapsRight == ASSUME IInv, Figures PROVE GapsExact
<1> DEFINE J == {i \in 1 .. Len(got) - 1 : got[i + 1].tick - got[i].tick > 1}
<1> SUFFICES ASSUME config.stream = "can", \A i \in J : got[i + 1].tick - got[i].tick <= SeqLimit
             PROVE  m.sequence_gaps_ = Cardinality(J)
  BY DEF GapsExact
<1>1. PICK n \in Nat : n = Len(got) /\ got \in Seq(Frames)
  BY DEF IInv, Count
<1>2. PICK g \in Seq(Nat) : g = Ticks(got) /\ Len(g) = n /\ \A i \in 1 .. n : g[i] = got[i].tick
  BY <1>1, TicksOf
<1>3. \A i, j \in 1 .. n : i < j => g[i] < g[j]
  BY <1>2 DEF Figures, LineOk, Direct, InLine, RisingTo
<1>4. ASSUME NEW i \in 1 .. n - 1
      PROVE  GapAt(g[i], g[i + 1]) <=> got[i + 1].tick - got[i].tick > 1
  <2>1. i \in 1 .. n /\ i + 1 \in 1 .. n /\ i < i + 1
    BY <1>1
  <2>2. PICK a \in Nat, b \in Nat : a = g[i] /\ b = g[i + 1] /\ a < b /\ a = got[i].tick /\ b = got[i + 1].tick
    <3>1. PICK a \in Nat, b \in Nat : a = g[i] /\ b = g[i + 1]
      BY <1>2, <2>1
    <3>2. a < b
      BY <1>3, <2>1, <3>1
    <3>3. a = got[i].tick /\ b = got[i + 1].tick
      BY <1>2, <2>1, <3>1, Zenon
    <3> QED BY <3>1, <3>2, <3>3
  <2>3. b - a <= SeqLimit
    <3>1. SeqLimit \in Nat /\ SeqLimit >= 1
      BY ScenarioAssumption
    <3>2. b - a > 1 => i \in J
      BY <1>1, <2>2
    <3> HIDE DEF J
    <3> QED BY <2>2, <3>1, <3>2
  <2>4. GapAt(a, b) <=> b - a > 1
    BY <2>2, <2>3, GapMeans
  <2> QED BY <2>2, <2>4
<1>5. GapsOf(g) = J
  BY <1>1, <1>2, <1>4 DEF GapsOf
<1> HIDE DEF J
<1> QED BY <1>2, <1>5 DEF Figures, GapsOk

-----------------------------------------------------------------------------
(* Messages in line                                                        *)

LEMMA Appended ==
    ASSUME NEW g \in Seq(Nat), NEW t \in Nat
    PROVE  \E n \in Nat, h \in Seq(Nat) :
              /\ n = Len(g) /\ h = Append(g, t) /\ Len(h) = n + 1 /\ h[n + 1] = t
              /\ \A i \in 1 .. n : h[i] = g[i]
<1> DEFINE h == Append(g, t)
<1>1. Len(g) \in Nat /\ h \in Seq(Nat) /\ Len(h) = Len(g) + 1 /\ h[Len(g) + 1] = t
  OBVIOUS
<1>2. \A i \in 1 .. Len(g) : h[i] = g[i]
  OBVIOUS
<1> QED BY <1>1, <1>2

LEMMA GapsAppend ==
    ASSUME NEW g \in Seq(Nat), NEW t \in Nat
    PROVE  /\ Cardinality(GapsOf(g)) \in Nat
           /\ Cardinality(GapsOf(Append(g, t))) =
                IF Len(g) > 0 /\ GapAt(g[Len(g)], t) THEN Cardinality(GapsOf(g)) + 1 ELSE Cardinality(GapsOf(g))
<1>1. PICK n \in Nat, h \in Seq(Nat) :
        /\ n = Len(g) /\ h = Append(g, t) /\ Len(h) = n + 1 /\ h[n + 1] = t
        /\ \A i \in 1 .. n : h[i] = g[i]
  BY Appended
<1>2. GapsOf(h) = {i \in 1 .. n : GapAt(h[i], h[i + 1])} /\ GapsOf(g) = {i \in 1 .. n - 1 : GapAt(g[i], g[i + 1])}
  BY <1>1 DEF GapsOf
<1>3. IsFiniteSet(GapsOf(g)) /\ Cardinality(GapsOf(g)) \in Nat
  <2>1. IsFiniteSet(1 .. n)
    BY CountUpTo
  <2>2. GapsOf(g) \subseteq 1 .. n
    BY <1>2
  <2> QED BY <2>1, <2>2, FS_Subset, FS_CardinalityType
<1>4. ASSUME NEW i \in 1 .. n - 1 PROVE GapAt(h[i], h[i + 1]) <=> GapAt(g[i], g[i + 1])
  <2>1. i \in 1 .. n /\ i + 1 \in 1 .. n
    BY <1>1
  <2>2. h[i] = g[i] /\ h[i + 1] = g[i + 1]
    BY <1>1, <2>1
  <2> QED BY <2>2, Zenon
<1>5. CASE n = 0
  <2>1. GapsOf(h) = {} /\ GapsOf(g) = {}
    BY <1>2, <1>5
  <2> QED BY <1>1, <1>3, <1>5, <2>1
<1>6. CASE n > 0
  <2>0. n \in 1 .. n /\ n \notin 1 .. n - 1 /\ \A i : i \in 1 .. n <=> i \in 1 .. n - 1 \/ i = n
    BY <1>6
  <2>1. h[n] = g[n] /\ h[n + 1] = t
    BY <1>1, <2>0
  <2>2. GapAt(h[n], h[n + 1]) <=> GapAt(g[n], t)
    BY <2>1, Zenon
  <2>3. CASE GapAt(g[n], t)
    <3>1. GapsOf(h) = GapsOf(g) \cup {n} /\ n \notin GapsOf(g)
      BY <1>2, <1>4, <2>0, <2>2, <2>3
    <3>2. Cardinality(GapsOf(h)) = Cardinality(GapsOf(g)) + 1
      BY <1>3, <3>1, FS_AddElement
    <3> QED BY <1>1, <1>3, <1>6, <2>3, <3>2
  <2>4. CASE ~GapAt(g[n], t)
    <3>1. GapsOf(h) = GapsOf(g)
      BY <1>2, <1>4, <2>0, <2>2, <2>4
    <3> QED BY <1>1, <1>3, <1>6, <2>4, <3>1
  <2> QED BY <2>3, <2>4
<1> QED BY <1>1, <1>5, <1>6


LEMMA AppendedFrame ==
    ASSUME NEW s \in Seq(Frames), NEW f \in Frames
    PROVE  \E n \in Nat, h \in Seq(Frames) :
              /\ n = Len(s) /\ h = Append(s, f) /\ Len(h) = n + 1 /\ h[n + 1] = f
              /\ \A i \in 1 .. n : h[i] = s[i]
<1> DEFINE h == Append(s, f)
<1>1. Len(s) \in Nat /\ h \in Seq(Frames) /\ Len(h) = Len(s) + 1 /\ h[Len(s) + 1] = f
  OBVIOUS
<1>2. \A i \in 1 .. Len(s) : h[i] = s[i]
  OBVIOUS
<1> QED BY <1>1, <1>2

LEMMA TicksAppend ==
    ASSUME NEW s \in Seq(Frames), NEW f \in Frames
    PROVE  Ticks(Append(s, f)) = Append(Ticks(s), f.tick) /\ Append(s, f) \in Seq(Frames)
<1>1. PICK n \in Nat, h \in Seq(Frames) :
        /\ n = Len(s) /\ h = Append(s, f) /\ Len(h) = n + 1 /\ h[n + 1] = f
        /\ \A i \in 1 .. n : h[i] = s[i]
  BY AppendedFrame
<1>2. h[n + 1] = f /\ \A i \in 1 .. n : h[i] = s[i]
  BY <1>1
<1>3. PICK g \in Seq(Nat), t \in Nat : g = Ticks(s) /\ Len(g) = n /\ (\A i \in 1 .. n : g[i] = s[i].tick) /\ t = f.tick
  BY <1>1, TicksOf DEF Frames
<1>4. PICK e \in Seq(Nat) : e = Append(g, t) /\ Len(e) = n + 1 /\ e[n + 1] = t /\ \A i \in 1 .. n : e[i] = g[i]
  <2>1. PICK k \in Nat, e \in Seq(Nat) :
          /\ k = Len(g) /\ e = Append(g, t) /\ Len(e) = k + 1 /\ e[k + 1] = t
          /\ \A i \in 1 .. k : e[i] = g[i]
    BY Appended
  <2>2. k = n
    BY <1>3, <2>1
  <2> QED BY <2>1, <2>2
<1>5. PICK u \in Seq(Nat) : u = Ticks(h) /\ Len(u) = n + 1 /\ \A i \in 1 .. n + 1 : u[i] = h[i].tick
  <2>1. Ticks(h) \in Seq(Nat) /\ Len(Ticks(h)) = Len(h) /\ \A i \in 1 .. Len(h) : Ticks(h)[i] = h[i].tick
    BY TicksOf
  <2> QED BY <1>1, <2>1
<1>6. ASSUME NEW i \in 1 .. n + 1 PROVE u[i] = e[i]
  <2>1. CASE i = n + 1
    BY <1>2, <1>3, <1>4, <1>5, <2>1
  <2>2. CASE i \in 1 .. n
    <3>1. u[i] = h[i].tick
      BY <1>5
    <3>2. h[i] = s[i] /\ g[i] = s[i].tick /\ e[i] = g[i]
      BY <1>2, <1>3, <1>4, <2>2
    <3> QED BY <3>1, <3>2
  <2>3. i = n + 1 \/ i \in 1 .. n
    OBVIOUS
  <2> QED BY <2>1, <2>2, <2>3
<1>7. u = e
  <2>0. \A x \in Seq(Nat) : x = [i \in 1 .. Len(x) |-> x[i]]
    OBVIOUS
  <2>1. u = [i \in 1 .. n + 1 |-> u[i]] /\ e = [i \in 1 .. n + 1 |-> e[i]]
    BY <1>4, <1>5, <2>0, Zenon
  <2> QED BY <1>6, <2>1
<1> QED BY <1>1, <1>3, <1>4, <1>5, <1>7

LEMMA TicksOfFew ==
    /\ Ticks(<< >>) = << >>
    /\ \A f \in Frames : Ticks(<<f>>) = <<f.tick>>
<1>1. Ticks(<< >>) = << >>
  BY DEF Ticks
<1>2. ASSUME NEW f \in Frames PROVE Ticks(<<f>>) = <<f.tick>>
  BY DEF Ticks
<1> QED BY <1>1, <1>2

LEMMA RecordArrivals ==
    ASSUME NEW s, NEW torn, NEW g \in Seq(Frames), StatsOf(s, torn, Len(g)), ArrivalsOk(s, g), NEW f \in Frames, NEW gap
    PROVE  /\ ArrivalsOk(Record(s, f.latency, f.at, gap), Append(g, f))
           /\ Record(s, f.latency, f.at, gap).sequence_gaps_ = IF gap THEN s.sequence_gaps_ + 1 ELSE s.sequence_gaps_
<1> DEFINE q == IF gap THEN s.sequence_gaps_ + 1 ELSE s.sequence_gaps_
           b == IF s.has_arrival_ THEN s.first_arrival_s_ ELSE f.at
           e == Append(s.latencies_ms_, f.latency)
           n == s.received_ + 1
           r == [s EXCEPT !.latencies_ms_ = e, !.received_ = n, !.sequence_gaps_ = q,
                          !.has_arrival_ = TRUE, !.first_arrival_s_ = b, !.last_arrival_s_ = f.at]
<1>1. Record(s, f.latency, f.at, gap) = r
  BY DEF Record, StatsOf, MetricFields
<1>2. r.sequence_gaps_ = q /\ r.has_arrival_ = TRUE /\ r.first_arrival_s_ = b /\ r.last_arrival_s_ = f.at
  <2> HIDE DEF q, b, e, n
  <2> QED BY DEF StatsOf, MetricFields
<1> HIDE DEF r
<1>3. PICK k \in Nat, h \in Seq(Frames) :
        /\ k = Len(g) /\ h = Append(g, f) /\ Len(h) = k + 1 /\ h[k + 1] = f
        /\ \A i \in 1 .. k : h[i] = g[i]
  BY AppendedFrame
<1>4. Len(h) > 0 /\ h[Len(h)] = f
  BY <1>3
<1>5. b = h[1].at
  <2>1. CASE k = 0
    <3>1. s.has_arrival_ = FALSE
      BY <1>3, <2>1 DEF ArrivalsOk
    <3> QED BY <1>3, <2>1, <3>1
  <2>2. CASE k > 0
    <3>1. s.has_arrival_ = TRUE /\ s.first_arrival_s_ = g[1].at /\ h[1] = g[1]
      BY <1>3, <2>2 DEF ArrivalsOk
    <3> QED BY <3>1
  <2> QED BY <2>1, <2>2
<1> HIDE DEF b, q
<1>6. ArrivalsOk(r, h)
  <2>1. Len(h) # 0
    BY <1>3
  <2> QED BY <1>2, <1>4, <1>5, <2>1 DEF ArrivalsOk
<1> QED BY <1>1, <1>2, <1>3, <1>6 DEF q

\* A message is sent.
LEMMA Sent ==
    ASSUME NEW g \in Seq(Nat), NEW p \in Seq(Nat), NEW s \in Seq(Nat), NEW t \in Nat, InLine(g, p, s, t)
    PROVE  InLine(g, p, s, t + 1) /\ InLine(g, p, Append(s, t + 1), t + 1)
<1>1. PICK n \in Nat, h \in Seq(Nat) :
        /\ n = Len(s) /\ h = Append(s, t + 1) /\ Len(h) = n + 1 /\ h[n + 1] = t + 1
        /\ \A i \in 1 .. n : h[i] = s[i]
  <2>1. PICK v \in Nat : v = t + 1
    OBVIOUS
  <2> QED BY <2>1, Appended
<1>2. RisingTo(g, t + 1) /\ RisingTo(p, t + 1) /\ RisingTo(s, t + 1)
  <2>1. ASSUME NEW x, RisingTo(x, t) PROVE RisingTo(x, t + 1)
    <3>1. \A v \in 1 .. t : v \in 1 .. t + 1
      OBVIOUS
    <3> QED BY <2>1, <3>1 DEF RisingTo
  <2> QED BY <2>1 DEF InLine
<1>3. ASSUME NEW i \in 1 .. n + 1 PROVE (i = n + 1 /\ h[i] = t + 1) \/ (i \in 1 .. n /\ h[i] = s[i])
  <2>1. i = n + 1 \/ i \in 1 .. n
    OBVIOUS
  <2> QED BY <1>1, <2>1
<1>4. RisingTo(h, t + 1)
  <2>1. ASSUME NEW i \in 1 .. n + 1 PROVE h[i] \in 1 .. t + 1
    BY <1>1, <1>2, <1>3 DEF RisingTo
  <2>2. ASSUME NEW i \in 1 .. n + 1, NEW j \in 1 .. n + 1, i < j PROVE h[i] < h[j]
    <3>1. i \in 1 .. n /\ h[i] = s[i] /\ s[i] \in 1 .. t
      BY <1>1, <1>3, <2>2 DEF InLine, RisingTo
    <3>2. CASE j = n + 1
      BY <1>1, <3>1, <3>2
    <3>3. CASE j \in 1 .. n
      BY <1>1, <2>2, <3>1, <3>3 DEF InLine, RisingTo
    <3> QED BY <3>2, <3>3
  <2> QED BY <1>1, <2>1, <2>2 DEF RisingTo
<1>5. ASSUME NEW x \in Seq(Nat), RisingTo(x, t), Follows(x, s) PROVE Follows(x, h)
  <2>1. ASSUME NEW i \in 1 .. Len(x), NEW j \in 1 .. n + 1 PROVE x[i] < h[j]
    <3>1. x[i] \in 1 .. t
      BY <1>5 DEF RisingTo
    <3>2. j \in 1 .. n => x[i] < s[j]
      BY <1>1, <1>5 DEF Follows
    <3> QED BY <1>3, <3>1, <3>2, SMTT(60)
  <2> QED BY <1>1, <2>1 DEF Follows
<1>6. Follows(g, h) /\ Follows(p, h)
  BY <1>5 DEF InLine
<1> QED BY <1>1, <1>2, <1>4, <1>6 DEF InLine

\* One is read, or dropped.
LEMMA Taken ==
    ASSUME NEW g \in Seq(Nat), NEW s \in Seq(Nat), NEW t \in Nat, InLine(g, << >>, s, t), s # << >>
    PROVE  InLine(g, <<Head(s)>>, Tail(s), t) /\ InLine(g, << >>, Tail(s), t)
<1>1. PICK n \in Nat, h \in Seq(Nat), x \in Nat :
        /\ n = Len(s) /\ n > 0 /\ h = Tail(s) /\ Len(h) = n - 1 /\ x = Head(s) /\ x = s[1]
        /\ \A i \in 1 .. n - 1 : h[i] = s[i + 1]
  <2> DEFINE h == Tail(s)
             n == Len(s)
  <2>1. n \in Nat /\ n > 0 /\ h \in Seq(Nat) /\ Len(h) = n - 1
    OBVIOUS
  <2>2. Head(s) = s[1] /\ Head(s) \in Nat
    OBVIOUS
  <2>3. \A i \in 1 .. n - 1 : h[i] = s[i + 1]
    OBVIOUS
  <2> HIDE DEF h, n
  <2> QED BY <2>1, <2>2, <2>3 DEF h, n
<1>2. /\ \A i \in 1 .. n : s[i] \in 1 .. t
      /\ \A i, j \in 1 .. n : i < j => s[i] < s[j]
      /\ \A i \in 1 .. Len(g), j \in 1 .. n : g[i] < s[j]
  BY <1>1 DEF InLine, RisingTo, Follows
<1>3. ASSUME NEW i \in 1 .. n - 1 PROVE h[i] = s[i + 1] /\ i + 1 \in 1 .. n /\ 1 \in 1 .. n /\ 1 < i + 1
  BY <1>1
<1>4. RisingTo(h, t)
  <2>1. ASSUME NEW i \in 1 .. n - 1, NEW j \in 1 .. n - 1, i < j PROVE h[i] < h[j]
    <3>1. i + 1 < j + 1
      BY <2>1
    <3> QED BY <1>2, <1>3, <3>1
  <2> QED BY <1>1, <1>2, <1>3, <2>1 DEF RisingTo
<1>5. Follows(g, h)
  BY <1>1, <1>2, <1>3 DEF Follows
<1>6. x \in 1 .. t /\ (\A i \in 1 .. Len(g) : g[i] < x) /\ \A j \in 1 .. n - 1 : x < h[j]
  <2>1. 1 \in 1 .. n
    BY <1>1
  <2> QED BY <1>1, <1>2, <1>3, <2>1
<1>7. Len(<<x>>) = 1 /\ <<x>>[1] = x /\ \A i \in 1 .. 1 : i = 1
  OBVIOUS
<1>8. RisingTo(<<x>>, t) /\ Follows(g, <<x>>) /\ Follows(<<x>>, h)
  BY <1>1, <1>6, <1>7 DEF RisingTo, Follows
<1>9. RisingTo(<< >>, t) /\ Follows(g, << >>) /\ Follows(<< >>, h)
  BY DEF RisingTo, Follows
<1>10. RisingTo(g, t)
  BY DEF InLine
<1> QED BY <1>1, <1>4, <1>5, <1>8, <1>9, <1>10 DEF InLine

\* One is recorded.
LEMMA Recorded ==
    ASSUME NEW g \in Seq(Nat), NEW x \in Nat, NEW s \in Seq(Nat), NEW t \in Nat, InLine(g, <<x>>, s, t)
    PROVE  InLine(Append(g, x), << >>, s, t)
<1>1. PICK n \in Nat, h \in Seq(Nat) :
        /\ n = Len(g) /\ h = Append(g, x) /\ Len(h) = n + 1 /\ h[n + 1] = x
        /\ \A i \in 1 .. n : h[i] = g[i]
  BY Appended
<1>2. Len(<<x>>) = 1 /\ <<x>>[1] = x /\ 1 \in 1 .. 1
  OBVIOUS
<1>3. x \in 1 .. t /\ (\A i \in 1 .. n : g[i] < x) /\ \A j \in 1 .. Len(s) : x < s[j]
  BY <1>1, <1>2 DEF InLine, RisingTo, Follows
<1>4. /\ \A i \in 1 .. n : g[i] \in 1 .. t
      /\ \A i, j \in 1 .. n : i < j => g[i] < g[j]
      /\ \A i \in 1 .. n, j \in 1 .. Len(s) : g[i] < s[j]
  BY <1>1 DEF InLine, RisingTo, Follows
<1>5. ASSUME NEW i \in 1 .. n + 1 PROVE (i = n + 1 /\ h[i] = x) \/ (i \in 1 .. n /\ h[i] = g[i])
  <2>1. i = n + 1 \/ i \in 1 .. n
    OBVIOUS
  <2> QED BY <1>1, <2>1
<1>6. RisingTo(h, t)
  <2>1. ASSUME NEW i \in 1 .. n + 1, NEW j \in 1 .. n + 1, i < j PROVE h[i] < h[j]
    <3>1. i \in 1 .. n /\ h[i] = g[i]
      BY <1>1, <1>5, <2>1
    <3>2. CASE j = n + 1
      BY <1>1, <1>3, <3>1, <3>2
    <3>3. CASE j \in 1 .. n
      BY <1>1, <1>4, <2>1, <3>1, <3>3
    <3> QED BY <3>2, <3>3
  <2> QED BY <1>1, <1>3, <1>4, <1>5, <2>1 DEF RisingTo
<1>7. Follows(h, s)
  BY <1>1, <1>3, <1>4, <1>5 DEF Follows
<1>8. RisingTo(<< >>, t) /\ Follows(h, << >>) /\ Follows(<< >>, s)
  BY DEF RisingTo, Follows
<1>9. RisingTo(s, t)
  BY DEF InLine
<1> QED BY <1>1, <1>6, <1>7, <1>8, <1>9 DEF InLine

-----------------------------------------------------------------------------
(* The figures are kept up                                                 *)

LEMMA PendingFrames ==
    ASSUME IInv PROVE /\ Pending \in Seq(Frames) /\ got \in Seq(Frames) /\ inbox \in Seq(Nat) /\ now \in Nat
                      /\ Ticks(got) \in Seq(Nat) /\ Ticks(Pending) \in Seq(Nat)
<1>1. todo \in Seq(Frames) /\ can.frame \in Frames /\ got \in Seq(Frames) /\ inbox \in Seq(Nat)
  BY DEF IInv, Queues, ReaderOk, CanTyped, Count
<1>2. <<can.frame>> \in Seq(Frames)
  BY <1>1
<1>3. Pending \in Seq(Frames)
  BY <1>1, <1>2 DEF Pending
<1>4. now \in Nat
  BY ConfigOk DEF IInv, Typed
<1> QED BY <1>1, <1>3, <1>4, TicksOf

LEMMA InitFigures == Init => Figures
<1> SUFFICES ASSUME Init PROVE Figures
  OBVIOUS
<1>1. /\ got = << >> /\ todo = << >> /\ inbox = << >> /\ m = New /\ Len(got) = 0
      /\ can.pc = "off" /\ can.prev_seq = -1
  BY DEF Init
<1>2. Pending = << >> /\ Ticks(got) = << >> /\ Ticks(Pending) = << >> /\ Len(Pending) = 0
  BY <1>1, TicksOfFew DEF Pending
<1>3. InLine(<< >>, << >>, << >>, now)
  BY DEF InLine, RisingTo, Follows
<1>4. ArrivalsOk(m, got)
  BY <1>1 DEF ArrivalsOk, New
<1>5. LineOk
  BY <1>1, <1>2, <1>3, <1>4 DEF LineOk
<1>6. GapsOk
  <2>1. GapsOf(Ticks(got)) = {} /\ m.sequence_gaps_ = 0
    BY <1>1, <1>2 DEF GapsOf, New
  <2> QED BY <1>1, <2>1, FS_EmptySet DEF GapsOk
<1> QED BY <1>5, <1>6 DEF Figures

\* What the figures see of the reader stays.
SameReader == /\ can'.pc = "record" <=> can.pc = "record"
              /\ can'.frame = can.frame /\ can'.prev_seq = can.prev_seq /\ can'.gap = can.gap

LEMMA KeepGaps == ASSUME Figures, UNCHANGED <<config, m, got>>, SameReader PROVE GapsOk'
BY DEF Figures, GapsOk, SameReader, GapsOf, GapAt, Ticks

LEMMA KeepsFigures ==
    ASSUME IInv, Figures, UNCHANGED <<config, m, got, todo>>, SameReader, now' \in {now, now + 1},
           UNCHANGED inbox \/ (inbox' = Append(inbox, now') /\ now' = now + 1)
    PROVE  Figures'
<1>1. UNCHANGED Pending
  BY DEF Pending, SameReader
<1>2. LineOk'
  <2> SUFFICES ASSUME Direct PROVE LineOk'
    BY DEF LineOk, Direct
  <2>1. /\ todo = << >> \/ todo = <<Head(todo)>>
        /\ InLine(Ticks(got), Ticks(Pending), inbox, now)
        /\ \A i \in 1 .. Len(got) : Sound(got[i])
        /\ \A i \in 1 .. Len(Pending) : Sound(Pending[i])
        /\ ArrivalsOk(m, got)
    BY DEF Figures, LineOk
  <2>2. InLine(Ticks(got), Ticks(Pending), inbox', now')
    BY <2>1, PendingFrames, Sent
  <2>3. Ticks(got)' = Ticks(got) /\ Ticks(Pending)' = Ticks(Pending)
    BY <1>1 DEF Ticks
  <2> QED BY <1>1, <2>1, <2>2, <2>3 DEF LineOk, Sound, ArrivalsOk
<1> QED BY <1>2, KeepGaps DEF Figures

\* A message is taken out of the line, to be recorded or to be dropped.
LEMMA TakeLine ==
    ASSUME IInv, Figures, Direct, inbox # << >>, Pending = << >>, inbox' = Tail(inbox),
           Pending' = << >> \/ Pending' = <<Read(Head(inbox))>>,
           todo' = << >> \/ todo' = <<Head(todo')>>, UNCHANGED <<config, now, m, got>>
    PROVE  LineOk'
<1>1. /\ InLine(Ticks(got), << >>, inbox, now) /\ \A i \in 1 .. Len(got) : Sound(got[i])
  BY TicksOfFew DEF Figures, LineOk
<1>2. ArrivalsOk(m, got)
  BY DEF Figures, LineOk
<1>3. Head(inbox) \in Nat /\ Ticks(got) \in Seq(Nat)
  BY PendingFrames
<1>4. PICK f \in Frames : f = Read(Head(inbox)) /\ f.tick = Head(inbox) /\ Sound(f)
  <2>1. Read(Head(inbox)) \in Frames /\ Read(Head(inbox)).tick = Head(inbox)
    BY <1>3, ReadFrame
  <2>2. Sound(Read(Head(inbox)))
    BY DEF Sound, Read
  <2> QED BY <2>1, <2>2
<1>5. InLine(Ticks(got), <<Head(inbox)>>, Tail(inbox), now) /\ InLine(Ticks(got), << >>, Tail(inbox), now)
  BY <1>1, <1>3, PendingFrames, Taken
<1>6. Ticks(got)' = Ticks(got)
  BY DEF Ticks
<1>7. CASE Pending' = << >>
  <2>1. Ticks(Pending)' = << >> /\ Len(Pending') = 0
    BY <1>7, TicksOfFew
  <2> QED BY <1>1, <1>2, <1>5, <1>6, <2>1 DEF LineOk, Sound, ArrivalsOk
<1>8. CASE Pending' = <<Read(Head(inbox))>>
  <2>1. Ticks(Pending)' = <<Head(inbox)>>
    BY <1>4, <1>8, TicksOfFew DEF Ticks
  <2>2. \A i \in 1 .. Len(Pending') : Sound(Pending'[i])
    BY <1>4, <1>8
  <2> QED BY <1>1, <1>2, <1>5, <1>6, <2>1, <2>2 DEF LineOk, Sound, ArrivalsOk
<1> QED BY <1>7, <1>8

\* The message that was read is recorded.
LEMMA RecordLine ==
    ASSUME IInv, Figures, Direct, NEW f \in Frames, Pending = <<f>>, Pending' = << >>, todo' = << >>, NEW gap,
           m' = Record(m, f.latency, f.at, gap), got' = Append(got, f), UNCHANGED <<config, now, inbox>>
    PROVE  /\ LineOk'
           /\ m'.sequence_gaps_ = IF gap THEN m.sequence_gaps_ + 1 ELSE m.sequence_gaps_
<1>1. /\ InLine(Ticks(got), <<f.tick>>, inbox, now) /\ \A i \in 1 .. Len(got) : Sound(got[i])
  BY TicksOfFew DEF Figures, LineOk
<1>2. ArrivalsOk(m, got) /\ Sound(f)
  <2>1. ArrivalsOk(m, got) /\ \A i \in 1 .. Len(Pending) : Sound(Pending[i])
    BY DEF Figures, LineOk
  <2>2. 1 \in 1 .. Len(Pending) /\ Pending[1] = f
    OBVIOUS
  <2> QED BY <2>1, <2>2
<1>3. ArrivalsOk(m', got') /\ m'.sequence_gaps_ = IF gap THEN m.sequence_gaps_ + 1 ELSE m.sequence_gaps_
  <2>1. StatsOf(m, spoilt # 0, Len(got)) /\ got \in Seq(Frames)
    BY DEF IInv, StatsOk, Count
  <2> QED BY <1>2, <2>1, RecordArrivals
<1>4. InLine(Ticks(got'), << >>, inbox, now)
  <2>1. Ticks(got') = Append(Ticks(got), f.tick) /\ f.tick \in Nat
    BY PendingFrames, TicksAppend DEF Frames
  <2> QED BY <1>1, <2>1, PendingFrames, Recorded
<1>5. \A i \in 1 .. Len(got') : Sound(got'[i])
  <2>1. PICK n \in Nat, h \in Seq(Frames) :
          /\ n = Len(got) /\ h = Append(got, f) /\ Len(h) = n + 1 /\ h[n + 1] = f
          /\ \A i \in 1 .. n : h[i] = got[i]
    BY PendingFrames, AppendedFrame
  <2>2. ASSUME NEW i \in 1 .. n + 1 PROVE Sound(h[i])
    <3>1. i = n + 1 \/ i \in 1 .. n
      BY <2>1
    <3>2. CASE i = n + 1
      BY <1>2, <2>1, <3>2
    <3>3. CASE i \in 1 .. n
      BY <1>1, <2>1, <3>3
    <3> QED BY <3>1, <3>2, <3>3
  <2> QED BY <2>1, <2>2
<1>6. Ticks(Pending)' = << >> /\ Len(Pending') = 0 /\ Ticks(got)' = Ticks(got')
  BY TicksOfFew DEF Ticks
<1>7. LineOk'
  BY <1>3, <1>4, <1>5, <1>6 DEF LineOk, Sound, ArrivalsOk
<1> QED BY <1>3, <1>7

\* The subscription's messages have no gaps to count.
LEMMA TopicGaps == ASSUME config.stream = "topic", UNCHANGED config PROVE GapsOk'
BY DEF GapsOk

LEMMA SubscriptionFigures == ASSUME IInv, Figures, EngineDrops \/ EngineHolds \/ EnginePasses PROVE Figures'
<1>1. /\ config.stream = "topic" /\ inbox # << >> /\ todo = << >> /\ inbox' = Tail(inbox)
      /\ UNCHANGED <<config, now, m, got, can>>
  BY DEF EngineDrops, EngineHolds, EnginePasses, Subscription, stats
<1>2. can.pc = "off"
  BY <1>1 DEF IInv, ReaderOk
<1>3. Pending = todo /\ Pending' = todo'
  BY <1>1, <1>2 DEF Pending
<1>4. LineOk'
  <2> SUFFICES ASSUME Direct PROVE LineOk'
    BY <1>1 DEF LineOk, Direct
  <2>1. config.rules \subseteq {"drop"}
    BY <1>1 DEF Direct
  <2>2. CASE EngineDrops
    <3>1. todo' = << >>
      BY <1>1, <2>2 DEF EngineDrops, engine
    <3> QED BY <1>1, <1>3, <3>1, TakeLine
  <2>3. CASE EngineHolds
    BY <2>1, <2>3 DEF EngineHolds
  <2>4. CASE EnginePasses
    <3>1. PICK active \in SUBSET config.rules, p \in Payloads(Read(Head(inbox))) : Dispatch(<<p>>, active)
      BY <2>1, <2>4 DEF EnginePasses
    <3>2. todo' = <<p>>
      BY <2>1, <3>1 DEF Dispatch
    <3>3. p = Read(Head(inbox))
      <4>1. PICK f : f = Read(Head(inbox)) /\ f = [tick |-> f.tick, latency |-> f.latency, at |-> f.at]
        BY DEF Read
      <4>2. p \in [tick : {f.tick}, latency : {f.latency}, at : {f.at}]
        BY <2>1, <3>1, <4>1 DEF Payloads
      <4>3. p = [tick |-> f.tick, latency |-> f.latency, at |-> f.at]
        BY <4>2
      <4> QED BY <4>1, <4>3
    <3>4. Pending' = <<Read(Head(inbox))>> /\ todo' = <<Head(todo')>>
      BY <1>3, <3>2, <3>3
    <3> QED BY <1>1, <1>3, <3>4, TakeLine
  <2> QED BY <2>2, <2>3, <2>4
<1> QED BY <1>1, <1>4, TopicGaps DEF Figures

LEMMA MainRecordsFigures == ASSUME IInv, Figures, MainRecords PROVE Figures'
<1>1. /\ todo # << >> /\ todo' = Tail(todo) /\ Records(Head(todo), FALSE, hand # << >>)
      /\ UNCHANGED <<config, now, can, inbox>>
  BY DEF MainRecords
<1>2. config.stream = "topic" /\ todo \in Seq(Frames)
  BY <1>1, ConfigOk DEF IInv, RulesOk, Typed, Queues
<1>3. can.pc = "off"
  BY <1>2 DEF IInv, ReaderOk
<1>4. LineOk'
  <2> SUFFICES ASSUME Direct PROVE LineOk'
    BY <1>1 DEF LineOk, Direct
  <2>1. hand = << >>
    BY <1>2 DEF Direct, IInv, RulesOk
  <2>2. PICK f \in Frames : f = Head(todo)
    BY <1>1, <1>2
  <2>3. todo = <<f>>
    BY <1>1, <2>2 DEF Figures, LineOk
  <2>4. todo' = << >>
    BY <1>1, <2>3
  <2>5. m' = Record(m, f.latency, f.at, FALSE) /\ got' = Append(got, f)
    BY <1>1, <2>1, <2>2 DEF Records
  <2>6. Pending = <<f>> /\ Pending' = << >>
    BY <1>1, <1>3, <2>3, <2>4 DEF Pending
  <2> QED BY <1>1, <2>4, <2>5, <2>6, RecordLine
<1> QED BY <1>1, <1>2, <1>4, TopicGaps DEF Figures

\* Only under a delay rule, hence not for messages recorded as they are read.
LEMMA DelayFigures == ASSUME IInv, Figures, Flush \/ WorkerPops \/ WorkerRecords PROVE Figures'
<1>1. UNCHANGED config /\ (delayed # << >> \/ hand # << >>)
  BY DEF Flush, WorkerPops, WorkerRecords
<1>2. "delay" \in config.rules /\ config.stream = "topic"
  BY <1>1, ConfigOk DEF IInv, RulesOk, Typed
<1>3. LineOk'
  BY <1>1, <1>2 DEF LineOk, Direct
<1> QED BY <1>1, <1>2, <1>3, TopicGaps DEF Figures

LEMMA CanReadsFigures == ASSUME IInv, Figures, CanReads PROVE Figures'
<1> DEFINE seq == Head(inbox) % SeqLimit
           gap == IsGap(can.prev_seq, seq)
<1>1. /\ UNCHANGED <<config, now, m, got, todo>>
      /\ can.pc = "read" /\ inbox # << >> /\ inbox' = Tail(inbox)
      /\ can' = [can EXCEPT !.pc = "record", !.frame = Read(Head(inbox)), !.prev_seq = seq, !.gap = gap]
  BY DEF CanReads, engine
<1>2. CanTyped(can) /\ config.stream = "can"
  BY <1>1 DEF IInv, ReaderOk
<1>3. todo = << >> /\ Head(inbox) \in Nat
  BY <1>1, <1>2, PendingFrames DEF IInv, RulesOk
<1>4. PICK f \in Frames : f = Read(Head(inbox)) /\ f.tick = Head(inbox)
  BY <1>3, ReadFrame
<1>5. can'.pc = "record" /\ can'.frame = f /\ can'.prev_seq = seq /\ can'.gap = gap
  <2> HIDE DEF seq, gap
  <2> QED BY <1>1, <1>2, <1>4 DEF CanTyped, CanFields
<1>6. LineOk'
  <2>1. Pending = << >> /\ Pending' = <<Read(Head(inbox))>> /\ todo' = << >>
    BY <1>1, <1>3, <1>4, <1>5 DEF Pending
  <2> QED BY <1>1, <1>2, <2>1, TakeLine DEF Direct
<1>7. GapsOk'
  <2>1. PICK n \in Nat, g \in Seq(Nat) : n = Len(got) /\ g = Ticks(got)
    BY PendingFrames
  <2>2. m.sequence_gaps_ = Cardinality(GapsOf(g)) /\ can.prev_seq = IF n = 0 THEN -1 ELSE g[n] % SeqLimit
    BY <1>1, <1>2, <2>1 DEF Figures, GapsOk
  <2>3. can'.gap = (n > 0 /\ GapAt(g[n], f.tick))
    <3>1. can'.gap = IsGap(can.prev_seq, f.tick % SeqLimit)
      BY <1>4, <1>5
    <3>2. CASE n = 0
      <4>1. can.prev_seq = -1 /\ ~(can.prev_seq >= 0) /\ ~(n > 0)
        BY <2>2, <3>2
      <4>2. can'.gap = FALSE
        BY <3>1, <4>1 DEF IsGap
      <4> QED BY <4>1, <4>2
    <3>3. CASE n # 0
      <4>1. n > 0 /\ can.prev_seq = g[n] % SeqLimit
        BY <2>2, <3>3
      <4>2. can'.gap = GapAt(g[n], f.tick)
        BY <3>1, <4>1 DEF GapAt
      <4>3. GapAt(g[n], f.tick) \in BOOLEAN
        BY Zenon DEF GapAt, IsGap
      <4> QED BY <4>1, <4>2, <4>3, Zenon
    <3> QED BY <3>2, <3>3
  <2>4. Len(got') = n /\ Ticks(got') = g /\ Ticks(got)' = Ticks(got')
    BY <1>1, <2>1 DEF Ticks
  <2>5. m'.sequence_gaps_ = Cardinality(GapsOf(g))
    BY <1>1, <2>2
  <2> QED BY <1>1, <1>4, <1>5, <2>3, <2>4, <2>5 DEF GapsOk, GapsOf, GapAt
<1> QED BY <1>6, <1>7 DEF Figures

LEMMA CanRecordsFigures == ASSUME IInv, Figures, CanRecords PROVE Figures'
<1>1. /\ UNCHANGED <<config, now, inbox, todo>>
      /\ can.pc = "record" /\ can' = [can EXCEPT !.pc = "loop"]
      /\ m' = Record(m, can.frame.latency, can.frame.at, can.gap) /\ got' = Append(got, can.frame)
  BY DEF CanRecords, engine, Records
<1>2. CanTyped(can) /\ config.stream = "can"
  BY <1>1 DEF IInv, ReaderOk
<1>3. todo = << >>
  BY <1>2 DEF IInv, RulesOk
<1>4. PICK f \in Frames : f = can.frame
  BY <1>2 DEF CanTyped
<1>5. can'.pc = "loop" /\ can'.prev_seq = can.prev_seq
  BY <1>1, <1>2 DEF CanTyped, CanFields
<1>6. m' = Record(m, f.latency, f.at, can.gap) /\ got' = Append(got, f)
  BY <1>1, <1>4
<1>7. LineOk' /\ m'.sequence_gaps_ = IF can.gap THEN m.sequence_gaps_ + 1 ELSE m.sequence_gaps_
  <2>1. Pending = <<f>> /\ Pending' = << >> /\ todo' = << >>
    BY <1>1, <1>3, <1>4, <1>5 DEF Pending
  <2> QED BY <1>1, <1>2, <1>6, <2>1, RecordLine DEF Direct
<1>8. GapsOk'
  <2>1. PICK g \in Seq(Nat), t \in Nat : g = Ticks(got) /\ t = f.tick
    BY PendingFrames DEF Frames
  <2>2. PICK n \in Nat, h \in Seq(Nat) :
          /\ n = Len(g) /\ h = Append(g, t) /\ Len(h) = n + 1 /\ h[n + 1] = t
          /\ \A i \in 1 .. n : h[i] = g[i]
    BY Appended
  <2>3. Len(got) = n /\ Len(got') = n + 1 /\ Ticks(got') = h /\ Ticks(got)' = Ticks(got')
    <3>1. got \in Seq(Frames)
      BY PendingFrames
    <3>2. Len(Ticks(got)) = Len(got) /\ Len(Append(got, f)) = Len(got) + 1
      BY <3>1, TicksOf
    <3>3. Ticks(got') = h
      BY <1>6, <2>1, <2>2, <3>1, TicksAppend
    <3> QED BY <1>6, <2>1, <2>2, <3>2, <3>3 DEF Ticks
  <2>4. /\ m.sequence_gaps_ = Cardinality(GapsOf(g))
        /\ can.prev_seq = t % SeqLimit /\ can.gap = (n > 0 /\ GapAt(g[n], t))
    BY <1>1, <1>2, <1>4, <2>1, <2>3 DEF Figures, GapsOk
  <2>5. m'.sequence_gaps_ = Cardinality(GapsOf(h))
    <3>1. Cardinality(GapsOf(h)) = IF n > 0 /\ GapAt(g[n], t) THEN Cardinality(GapsOf(g)) + 1
                                                            ELSE Cardinality(GapsOf(g))
      BY <2>2, GapsAppend
    <3>2. CASE n > 0 /\ GapAt(g[n], t)
      <4>1. can.gap = TRUE
        BY <2>4, <3>2, Zenon
      <4> QED BY <1>7, <2>4, <3>1, <3>2, <4>1
    <3>3. CASE ~(n > 0 /\ GapAt(g[n], t))
      <4>1. can.gap = FALSE
        BY <2>4, <3>3, Zenon
      <4> QED BY <1>7, <2>4, <3>1, <3>3, <4>1
    <3> QED BY <3>2, <3>3
  <2>6. n + 1 # 0 /\ h[n + 1] = t /\ can'.prev_seq = t % SeqLimit
    BY <1>5, <2>2, <2>4
  <2> QED BY <1>1, <1>5, <2>3, <2>5, <2>6 DEF GapsOk, GapsOf, GapAt
<1> QED BY <1>7, <1>8 DEF Figures

LEMMA NextFigures == IInv /\ Figures /\ [Next]_vars => Figures'
<1> SUFFICES ASSUME IInv, Figures, [Next]_vars PROVE Figures'
  OBVIOUS
<1>1. CanTyped(can)
  BY DEF IInv, ReaderOk
<1>2. CASE \/ TickNothing \/ UpdateRegistry \/ ChildExits \/ Interrupt \/ Reap \/ Kill \/ Judge
           \/ Destroy \/ Exporter \/ Clients \/ Killed \/ UNCHANGED vars
  <2>1. UNCHANGED <<config, m, got, todo, inbox, can>> /\ now' \in {now, now + 1}
    <3>1. CASE TickNothing \/ UpdateRegistry \/ ChildExits \/ Interrupt \/ Reap \/ Kill \/ Judge
      BY <3>1 DEF TickNothing, UpdateRegistry, ChildExits, Interrupt, Reap, Kill, Judge, stats, engine
    <3>2. CASE Destroy
      BY <3>2 DEF Destroy, StopExporter, StopListening, JoinExporter, DestroyEngines, DestroyMetrics, stats, engine
    <3>3. CASE Exporter
      BY <3>3 DEF Exporter, ExpPolls, ExpAccepts, ExpReceives, ExpResponds, stats, engine
    <3>4. CASE Clients \/ Killed \/ UNCHANGED vars
      BY <3>4 DEF Clients, ClientConnects, ClientSpeaks, ClientResets, Killed, vars, stats, engine
    <3> QED BY <1>2, <3>1, <3>2, <3>3, <3>4
  <2>2. SameReader
    BY <2>1 DEF SameReader
  <2> QED BY <2>1, <2>2, KeepsFigures
<1>3. CASE Start \/ Finish \/ JoinReader \/ CanOpens \/ CanSetup \/ CanForgets \/ CanChecks \/ CanTimesOut
  <2>1. UNCHANGED <<config, m, got, todo, inbox>> /\ now' \in {now, now + 1}
    BY <1>3 DEF Start, Finish, JoinReader, CanOpens, CanSetup, CanForgets, CanChecks, CanTimesOut, stats, engine
  <2>2. CASE Start
    <3>1. can.pc = "off"
      BY <2>2 DEF Start, IInv, ReaderOk
    <3> QED BY <1>1, <2>1, <2>2, <3>1, KeepsFigures DEF Start, StartCanReader, SameReader, CanTyped, CanFields
  <2>3. CASE Finish \/ JoinReader
    BY <1>1, <2>1, <2>3, KeepsFigures DEF Finish, JoinReader, SameReader, CanTyped, CanFields
  <2>4. CASE CanOpens \/ CanSetup \/ CanForgets
    BY <1>1, <2>1, <2>4, KeepsFigures DEF CanOpens, CanSetup, CanForgets, SameReader, CanTyped, CanFields
  <2>5. CASE CanChecks \/ CanTimesOut
    BY <1>1, <2>1, <2>5, KeepsFigures DEF CanChecks, CanTimesOut, SameReader, CanTyped, CanFields
  <2> QED BY <1>3, <2>2, <2>3, <2>4, <2>5
<1>4. CASE TickMessage
  <2>1. /\ UNCHANGED <<config, m, got, todo, can>> /\ now' = now + 1
        /\ inbox' = Append(inbox, now')
    BY <1>4 DEF TickMessage, stats, engine
  <2>2. SameReader
    BY <2>1 DEF SameReader
  <2> QED BY <2>1, <2>2, KeepsFigures
<1>5. CASE EngineDrops \/ EngineHolds \/ EnginePasses
  BY <1>5, SubscriptionFigures
<1>6. CASE MainRecords
  BY <1>6, MainRecordsFigures
<1>7. CASE CanReads
  BY <1>7, CanReadsFigures
<1>8. CASE CanRecords
  BY <1>8, CanRecordsFigures
<1>9. CASE Flush \/ WorkerPops \/ WorkerRecords
  BY <1>9, DelayFigures
<1> QED BY <1>2, <1>3, <1>4, <1>5, <1>6, <1>7, <1>8, <1>9 DEF Next, Main, FinishStep, Reader, Worker, World

\* What finish() reports of a stream stands for the messages it recorded, for any number of
\* them, any latencies and any interleaving of reader, worker and refresh: each percentile
\* is the value at its rank; of messages recorded once and as they are read, at a rate of
\* one a tick, the drop rate is the share of those missing between the first and the
\* last, and of the lag by which the last was read later than the first; and the CAN gaps
\* are those in the frames read, over the wrap of their 16-bit number.
THEOREM ScenarioMetricsExact == Spec => []MetricsExact
<1>1. Init => IInv /\ Figures
  BY InitIInv, InitFigures
<1>2. (IInv /\ Figures) /\ [Next]_vars => (IInv /\ Figures)'
  BY NextIInv, NextFigures
<1>3. IInv /\ Figures => MetricsExact
  <2> SUFFICES ASSUME IInv, Figures PROVE MetricsExact
    OBVIOUS
  <2>1. StatsOf(m, spoilt # 0, Len(got))
    BY DEF IInv, StatsOk
  <2> QED BY <2>1, PctRight, RateRight, GapsRight DEF MetricsExact
<1> QED BY <1>1, <1>2, <1>3, PTL DEF Spec
=============================================================================
