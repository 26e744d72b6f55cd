SPECIFICATION FairSpec
CONSTANTS
    Bridges <- OnlyReceiver
    MaxConns = 2
    MaxMsgs = 1
PROPERTY CloseReturns
CHECK_DEADLOCK FALSE
