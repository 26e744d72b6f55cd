SPECIFICATION FairSpec
CONSTANTS
    Configs <- AllConfigs
    Garbage <- Noise
    SeqLimit = 3
    MaxClients = 1
INVARIANTS Inv MetricsExact StatsUnshared VerdictComplete
PROPERTY Progress
CHECK_DEADLOCK FALSE
