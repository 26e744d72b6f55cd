--------------------------- MODULE MCTcpInterface ---------------------------
(***************************************************************************)
(* TcpInterface for TLC.  Three openings let what one connection leaves    *)
(* behind meet the next one and the one after.                             *)
(***************************************************************************)
EXTENDS TcpInterface

AllBridges   == [role : {"server", "client"}, sends : BOOLEAN]
OnlyReceiver == {[role |-> "server", sends |-> FALSE]}
=============================================================================
