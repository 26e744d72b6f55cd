------------------------------ MODULE MCIoUring ------------------------------
(***************************************************************************)
(* IoUring for TLC: a bridge that only receives, one that only sends, one  *)
(* that does both, and one whose fault engine delays frames.               *)
(***************************************************************************)
EXTENDS IoUring

AllUses == {[writers |-> {}, writes |-> 0, arrivals |-> 4],
            [writers |-> {"exec"}, writes |-> 4, arrivals |-> 0],
            [writers |-> {"exec"}, writes |-> 2, arrivals |-> 2],
            [writers |-> {"worker"}, writes |-> 2, arrivals |-> 0]}
=============================================================================
