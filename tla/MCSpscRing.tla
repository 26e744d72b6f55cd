----------------------------- MODULE MCSpscRing -----------------------------
(***************************************************************************)
(* SpscRing for TLC.  The configurations choose the policies and whether   *)
(* both sides share a thread; four slots hold three frames, and with six   *)
(* captures both indices wrap around a full ring.                          *)
(***************************************************************************)
EXTENDS SpscRing
=============================================================================
