SPECIFICATION Spec
CONSTANTS
    JitterSeqMod = 44
    FirstSeq = 39
    Ptime = 4
    MinDelay = 1
    TargetDelay = 3
    MaxDelay = 11
    MaxPackets = 4
    MaxWait = 4
    AdaptEvery = 1
    DriftEvery = 1
    DriftLooks = 1
    BigGap = 6
    BigGapEnd = 40
    JumpPackets = 4
    JitterDelays = {1,11}
    Markers = {0,8}
    Window = 3
    MaxGap = 1
    MaxSent = 11
    MaxReceived = 7
    MaxLost = 2
    WireMod = 8
    RocMod = 4
    KeyLifetime = 6
    RtpWindow = 3
    RtcpWindow = 2
    RtcpMod = 4
    ErrorReset = 2
    Ssrcs = {s1, s2}
    FirstSeqs = {5}
    MaxIndex = 9
    MaxRtcp = 3
    Senders = {t1, t2}
    Secure = TRUE
    FirstSeq0 = 6
    Intervals = 2
    MaxSends = 4
    Lengths = {3, 6}
    MaxKeys = 2
    EndTimeouts = {3}
    KeyGap = 2
    SanityLimit = 4
    MinDuration = 1
    MaxDuration = 5
    DurMod = 4
    FlipAt = 3
    InFlight = 2
    MaxTold = 2
    RtcpSeqMod = 8
    MaxDropout = 3
    MaxMisorder = 2
    RtcpSsrcs = {s1, s2}
    MaxBurst = 4
    MaxLate = 1
    MaxRtpSent = 9
    MaxHeard = 7
    MaxReports = 2
    StampMod = 8
    MaxDelta = 3
    Samples = 1
    RemoteSsrcs = {s1, s2}
    Loops = {l1, l2}
    MediaTimeout = 1
    HoldTimeout = 2
    MaxStamps = 2
    Lifetime = 2
    RefreshAt = 1
    ItemLife <- MCItemLife
    ItemRefreshAt <- MCItemRefreshAt
    Round = 1
    MaxReply = 1
    MaxStale = 1
    MaxFails = 1
    Detectors = {d1, d2}
    ForceModes = {"none", "relay", "direct"}
    MaxKeepalives = 2
    Sources = {a1, a2, a3}
    SymSsrcs = {s1, s2}
    SwitchThreshold = 2
    MaxSwitches = 1
    SwitchWindow = 2
    SymModes = {"Once", "Always", "Disabled"}
    RefreshTasks = {t1, t2, t3, t4}
    Objects = {o1, o2, o3}
    MaxRefresh = 2
    CallIds = {"i1", "i2"}
    Outbound = {"o1"}
    MaxCalls = 1
    MaxRate = 2
    Second = 2
    Gateways = {"g1"}
    Backlog = 1
    LastTick = 3
    Nonces = {"n1", "n2"}
    Kinds = {"k1", "k2"}
    WithQop = {"k1"}
    NonceTtl = 1
    MaxHeaders = 3
    Addresses = {"any", "a1"}
    Unspecified = "any"
    Ports = {0, 1}
    PayloadLists <- MCPayloads
    MaxLines = 6
    PyThreads = {t1, t2}
    Engines = {1, 2}
    MaxEvents = 2
    Backlogged = 1
    Providers = {"p1", "p2"}
    Configs <- MCConfigs
    RoutedCalls = {c1, c2}
INVARIANTS TypesOK LossAccounted RocFollows KeystreamOnce ToldOnce ReportsCount TimeoutOnce ItemsKept VerdictsSound RedirectedWithCause OneRefresher Admission CountsOnce ReadAsMeant EventsInOrder SlotsReturned
PROPERTIES PlayedInOrder NoReplay NormalizedSmooth
CHECK_DEADLOCK FALSE
