SPECIFICATION JitterSpec
CONSTANTS
    JitterSeqMod = 65536
    FirstSeq = 65530
    Ptime = 20
    MinDelay = 20
    TargetDelay = 60
    MaxDelay = 200
    MaxPackets = 50
    MaxWait = 2
    AdaptEvery = 250
    DriftEvery = 500
    DriftLooks = 3
    BigGap = 3000
    BigGapEnd = 60000
    JumpPackets = 250
    JitterDelays = {20}
    Markers = {}
    Window = 0
    MaxGap = 3
    MaxSent = 14
    MaxReceived = 11
    MaxLost = 0
INVARIANT NotStarved
CHECK_DEADLOCK FALSE
