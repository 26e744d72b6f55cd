SPECIFICATION LinkSpec
CONSTANTS
    Topics = {camera, imu}
    MaxSends = 3
    MaxClock = 2
    MaxRestarts = 1
    MaxDamaged = 1
    Links <- AllLinks
    Payloads <- Messages
    max_payload_ = 2
    Base = 4
    AB = 2
    CD = 3
    MaxCuts = 1
INVARIANTS ParsesAsReference DeliversWhatWasSent
PROPERTIES PublishedInSendOrder EveryFrameArrives
CHECK_DEADLOCK FALSE
