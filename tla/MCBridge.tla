------------------------------ MODULE MCBridge ------------------------------
(***************************************************************************)
(* Bridge for TLC: a topic over a connection that breaks, with and without *)
(* stale data; the same with a delay rule; a TF topic with and without     *)
(* patterns, one transform from a frame to itself among them; and a node   *)
(* that receives.                                                          *)
(***************************************************************************)
EXTENDS Bridge

Plain == [net |-> "udp", stale |-> FALSE, tf |-> FALSE, wal |-> TRUE, delay |-> FALSE,
          include |-> {}, exclude |-> {}, msgs |-> 0, arrivals |-> 0, fails |-> 0]
AllConfigs ==
    {[Plain EXCEPT !.net = "conn", !.msgs = 4, !.fails = 1],
     [Plain EXCEPT !.stale = TRUE, !.msgs = 2, !.fails = 1],
     [Plain EXCEPT !.net = "conn", !.delay = TRUE, !.msgs = 3, !.fails = 1],
     [Plain EXCEPT !.tf = TRUE, !.wal = FALSE, !.msgs = 3],
     [Plain EXCEPT !.tf = TRUE, !.wal = FALSE, !.msgs = 2, !.include = {"base"}, !.exclude = {"cam"}],
     [Plain EXCEPT !.arrivals = 2]}
Trees == {<< <<"map", "base">> >>, << <<"base", "map">> >>,
              << <<"base", "cam">>, <<"base", "base">>, <<"map", "base">> >>, << <<"map", "cam">>, <<"cam", "map">> >>}
Inner == UNION {[1 .. n -> 0 .. 1] : n \in 1 .. 5}
=============================================================================
