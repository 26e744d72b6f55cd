SPECIFICATION Spec
CONSTANTS
    segment_bytes_ = 7
    MaxPayload = 1
    MaxClock = 1
    MaxAppends = 3
    MaxLives = 2
    MaxFaults = 1
INVARIANTS Inv RecoversExactly ReplaysLog
PROPERTY OwnSegmentsGrow
CHECK_DEADLOCK FALSE
