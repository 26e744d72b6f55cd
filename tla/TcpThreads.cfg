SPECIFICATION FairSpec
CONSTANTS
    Bridges <- AllBridges
    MaxConns = 3
    MaxMsgs = 3
INVARIANTS Inv DeliveredInOrder
PROPERTIES NoCallbackAfterClose FailureNoticed
CHECK_DEADLOCK FALSE
