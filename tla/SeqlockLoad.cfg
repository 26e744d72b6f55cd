SPECIFICATION SeqlockFairSpec
CONSTANTS
    NumBytes = 3
    MaxStores = 2
INVARIANT NoTornRead
PROPERTIES UnchangedMeansPublished ReaderCatchesUp
