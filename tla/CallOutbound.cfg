SPECIFICATION Spec
CONSTANTS
    Apps = {a1, a2}
    Ops = {"hangup", "cancel"}
    Directions = {"Outbound"}
    Bodies = {"none", "active"}
    TimerUse = {FALSE}
    Faults = FALSE
    MaxRetries = 0
    MaxEarly = 2
    MaxUpdates = 0
    MaxRefers = 0
SYMMETRY AppSymmetry
INVARIANTS TypeOK HangupOnce UnannouncedIsTornDown
PROPERTIES EarlyMediaKept LivesOnce
CHECK_DEADLOCK FALSE
