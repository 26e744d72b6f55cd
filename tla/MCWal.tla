-------------------------------- MODULE MCWal --------------------------------
(***************************************************************************)
(* Wal for TLC.  A record is three or four cells and a segment seven: two  *)
(* short records fit, or a short and a long one, but not two long ones.    *)
(***************************************************************************)
EXTENDS Wal
=============================================================================
