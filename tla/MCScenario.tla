----------------------------- MODULE MCScenario -----------------------------
(***************************************************************************)
(* Scenario for TLC: a topic, with and without rules of the fault engine;  *)
(* a CAN stream on a bus that is up or missing; with and without exporter, *)
(* alone and as one of several runs.                                       *)
(***************************************************************************)
EXTENDS Scenario

A(metric, op, value) == [metric |-> metric, op |-> op, value |-> value]
Plain == [stream |-> "topic", duration |-> 3, rules |-> {}, exporter |-> FALSE, parallel |-> FALSE, busUp |-> TRUE,
         child |-> "obeys", asserts |-> <<A("drop_rate_pct", "less_than", 50)>>, others |-> << >>]
Exported == [Plain EXCEPT !.exporter = TRUE, !.parallel = TRUE, !.others = <<<<TRUE, FALSE>>>>,
                          !.child = "ignores"]
AllConfigs ==
    {[Plain EXCEPT !.rules = {"drop"}, !.duration = 4,
                   !.asserts = <<A("received", "greater_than", 1), A("jitter", "not_equals", 1)>>],
     [Plain EXCEPT !.rules = {"delay", "reorder"}, !.parallel = TRUE, !.others = <<<<TRUE>>>>,
                   !.asserts = <<A("latency_p99_ms", "equals", 1)>>],
     [Plain EXCEPT !.rules = {"duplicate", "reorder"}], [Plain EXCEPT !.rules = {"corrupt"}],
     Exported, [Plain EXCEPT !.stream = "can", !.duration = 4],
     [Plain EXCEPT !.stream = "can", !.busUp = FALSE, !.child = "ignores"],
     [Plain EXCEPT !.stream = "can", !.exporter = TRUE, !.asserts = <<A("sequence_gaps", "matches", 0)>>]}

ExportedOnly == {Exported}
Noise == {-1}
=============================================================================
