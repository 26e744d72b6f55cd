SPECIFICATION Spec
CONSTANTS
    Bridges <- OnlyReceiver
    MaxConns = 2
    MaxMsgs = 1
INVARIANT ReadBlocks
CHECK_DEADLOCK FALSE
