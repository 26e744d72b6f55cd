SPECIFICATION FairSpec
CONSTANTS
    Configs <- ExportedOnly
    Garbage <- Noise
    SeqLimit = 3
    MaxClients = 1
PROPERTY StopReturns
CHECK_DEADLOCK FALSE
