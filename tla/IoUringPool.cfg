SPECIFICATION FairSpec
CONSTANTS
    kNumRecvBuffers = 2
    kNumSendBuffers = 2
    Entries = 4
    Uses <- AllUses
    MaxWrites = 4
    MaxOpens = 2
INVARIANTS Inv Receives SentIntact
PROPERTY CloseReturns
CHECK_DEADLOCK FALSE
