SPECIFICATION FairSpec
CONSTANTS
    Configs <- AllConfigs
    Capacity = 2
    MaxResends = 1
    TfFrames = {"map", "base", "cam"}
    TfMessages <- Trees
    Datagrams <- Inner
INVARIANTS Inv FramesAccounted SentInCaptureOrder WireIsRecorded TfListRight
    PublishesWhatWasFramed
PROPERTY Progress
CHECK_DEADLOCK FALSE
