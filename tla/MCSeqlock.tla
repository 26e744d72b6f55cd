------------------------------ MODULE MCSeqlock ------------------------------
(***************************************************************************)
(* Seqlock for TLC.  Three bytes can be torn in every way; with two stores *)
(* the reader can see any mixture of three versions.                       *)
(***************************************************************************)
EXTENDS Seqlock
=============================================================================
