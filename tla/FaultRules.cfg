SPECIFICATION FairSpec
CONSTANTS
    Streams = {imu, camera}
    Any = any
    Camera = camera
    Imu = imu
    RuleSets <- AllRuleSets
    MaxFrames = 3
    LastSend = 3
    MaxTime = 5
INVARIANTS Inv NoLostWakeup RulesKept
PROPERTY EndsCleanly
