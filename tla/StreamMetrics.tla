---------------------------- MODULE StreamMetrics ----------------------------
(***************************************************************************)
(* What a scenario run computes: the statistics of a stream                *)
(* (scenario/metrics.hpp), the assertions on them (assertion.cpp), the     *)
(* summary and the ports of a parallel run (namespace_manager.hpp).        *)
(*                                                                         *)
(* Times are whole ticks and a metric is an exact fraction [n, d], where   *)
(* the code has doubles.                                                   *)
(***************************************************************************)
EXTENDS Integers, Sequences, FiniteSets, SequencesExt

New == [latencies_ms_ |-> << >>, received_ |-> 0, sequence_gaps_ |-> 0, has_arrival_ |-> FALSE,
        first_arrival_s_ |-> 0, last_arrival_s_ |-> 0]

\* StreamMetrics::record.
Record(m, latency, arrival, gap) ==
    [m EXCEPT !.latencies_ms_ = Append(@, latency), !.received_ = @ + 1,
              !.sequence_gaps_ = IF gap THEN @ + 1 ELSE @, !.has_arrival_ = TRUE,
              !.first_arrival_s_ = IF m.has_arrival_ THEN @ ELSE arrival,
              !.last_arrival_s_ = arrival]

\* The position of a percentile among n sorted values.
PctIndex(permille, n) == 1 + (permille * (n - 1)) \div 1000

\* The order std::sort finds: places of s, each once, with values that never fall.
SortOrder(s) ==
    CHOOSE p \in [DOMAIN s -> DOMAIN s] :
        /\ \A i \in DOMAIN s : \E k \in DOMAIN s : p[k] = i
        /\ \A k, l \in DOMAIN s : k < l => s[p[k]] <= s[p[l]]

\* pct.
Pct(m, permille) ==
    LET s == m.latencies_ms_
    IN  IF s = << >> THEN 0 ELSE s[SortOrder(s)[PctIndex(permille, Len(s))]]

Share(part, whole) ==
    IF whole <= 0 THEN [n |-> 0, d |-> 1]
    ELSE [n |-> 100 * (IF part > 0 THEN part ELSE 0), d |-> whole]

\* Test seeding: messages are compared with intervals.
DropRateOver(m, rate, duration) ==
    LET window == m.last_arrival_s_ - m.first_arrival_s_
    IN  IF m.has_arrival_ /\ m.received_ >= 2 /\ window > 0
        THEN Share(rate * window - m.received_, rate * window)
        ELSE Share(rate * duration - m.received_, rate * duration)

\* drop_rate_pct: intervals within the observed window, or messages within the whole.
DropRate(m, rate, duration) ==
    LET window == m.last_arrival_s_ - m.first_arrival_s_
    IN  IF m.has_arrival_ /\ m.received_ >= 2 /\ window > 0
        THEN Share(rate * window - (m.received_ - 1), rate * window)
        ELSE Share(rate * duration - m.received_, rate * duration)

\* emit.
Emit(m, rate, duration) ==
    [msgs_per_sec |-> IF duration > 0 THEN [n |-> m.received_, d |-> duration] ELSE [n |-> 0, d |-> 1],
     drop_rate_pct |-> DropRate(m, rate, duration),
     latency_p50_ms |-> [n |-> Pct(m, 500), d |-> 1], latency_p99_ms |-> [n |-> Pct(m, 990), d |-> 1],
     latency_p999_ms |-> [n |-> Pct(m, 999), d |-> 1],
     sequence_gaps |-> [n |-> m.sequence_gaps_, d |-> 1], received |-> [n |-> m.received_, d |-> 1]]

\* evaluate: an unknown metric or operator fails.
Evaluate(a, metrics) ==
    /\ a.metric \in DOMAIN metrics
    /\ LET x == metrics[a.metric]
       IN  CASE a.op = "less_than" -> x.n < a.value * x.d
             [] a.op = "greater_than" -> x.n > a.value * x.d
             [] a.op = "equals" -> x.n = a.value * x.d
             [] a.op = "not_equals" -> x.n # a.value * x.d
             [] OTHER -> FALSE

\* evaluate_all, as the assertions' verdicts.
EvaluateAll(asserts, metrics) == [i \in DOMAIN asserts |-> Evaluate(asserts[i], metrics)]
Passed(verdicts) == \A i \in DOMAIN verdicts : verdicts[i]

\* aggregate, of the verdicts of several runs.
Aggregate(results) ==
    LET assertions == FlattenSeq(results)
    IN  [total_scenarios |-> Len(results),
         scenarios_passed |-> Cardinality({i \in DOMAIN results : Passed(results[i])}),
         scenarios_failed |-> Cardinality({i \in DOMAIN results : ~Passed(results[i])}),
         total_assertions |-> Len(assertions),
         assertions_passed |-> Len(SelectSeq(assertions, LAMBDA v : v))]

AllPassed(agg) == agg.scenarios_failed = 0 /\ agg.total_scenarios > 0
=============================================================================
