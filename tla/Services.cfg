SPECIFICATION Spec
CONSTANTS
    Calls = {c1, c2, c3}
    PortStart = 3
    PortEnd = 8
    PortMod = 10
    MinSe = 90
    DefaultSe = 180
    Poll = 5
    MaxReply = 60
    Offered <- MCOffered
    MaxRetransmits = 7
    BufferSize = 1
    MaxNoise = 2
    N = 2
    Callers = {p1}
    Threshold = 2
    Interval = 3
    Slowest = 2
    Reachable = {1, 2}
    Notifiers = {n1, n2}
    Stable = 2
    MinStep = 1
    MaxStep = 2
    Capacity = 1
    Reflexive = {"a1", "a2"}
    DigitThreads = {t1, t2}
    Strings <- MCStrings
    Durations = {20}
    Bodies <- MCBodies
    DtmfQueue = 1
    MaxDetected = 2
    MaxAsked = 2
INVARIANTS TypesOK SessionKept GivenUpInTime HolderGoesOn
PROPERTIES FreshUnlessExhausted DeadCallsEnd WorkEnds Recovers LocksReleased
CHECK_DEADLOCK FALSE
