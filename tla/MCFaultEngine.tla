---------------------------- MODULE MCFaultEngine ----------------------------
(***************************************************************************)
(* FaultEngine for TLC: the rule sets of the runs.                         *)
(***************************************************************************)
EXTENDS FaultEngine

CONSTANTS Camera, Imu

Rule(kind, stream, start, duration, delay, bandwidth) ==
    [kind |-> kind, stream |-> stream, start |-> start, duration |-> duration,
     delay |-> delay, bandwidth |-> bandwidth]

\* A longer delay for one stream: a later frame is due before an earlier one.  Swapped
\* frames and copies are delayed too; a frame held when its window ends is passed.
DelayRules ==
    {Rule("Delay", Camera, 2, 2, 2, 0), Rule("Delay", Imu, 2, 1, 1, 0),
     Rule("Duplicate", Camera, 3, 1, 0, 0), Rule("Reorder", Any, 1, 2, 0, 0),
     Rule("BurstLoss", Imu, 3, 1, 0, 0)}

\* Every rule that drops, corrupts or reorders, with windows that overlap.
LossRules ==
    {Rule("BandwidthLimit", Any, 1, 9, 0, 1), Rule("Drop", Any, 1, 1, 0, 0),
     Rule("Corrupt", Any, 1, 9, 0, 0), Rule("Reorder", Any, 1, 2, 0, 0),
     Rule("ProcessRestart", Any, 1, 1, 0, 0), Rule("ProcessRestart", Camera, 2, 1, 0, 0),
     Rule("BurstLoss", Camera, 2, 1, 0, 0), Rule("EcuDisconnect", Imu, 1, 1, 0, 0)}

\* Restart windows: with a quiet tick between them for one stream and with another rule
\* between them for the other; a reorder window that ends with a frame held.
RestartRules ==
    {Rule("ProcessRestart", Any, 1, 1, 0, 0), Rule("ProcessRestart", Camera, 3, 1, 0, 0),
     Rule("ProcessRestart", Imu, 3, 1, 0, 0), Rule("Corrupt", Imu, 2, 2, 0, 0),
     Rule("Reorder", Imu, 1, 2, 0, 0)}

AllRuleSets == {DelayRules, LossRules, RestartRules}
=============================================================================
