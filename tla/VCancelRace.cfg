SPECIFICATION Spec
CONSTANTS
    Apps = {a1}
    Ops = {"cancel"}
    Directions = {"Outbound"}
    Bodies = {"active"}
    TimerUse = {FALSE}
    Faults = FALSE
    MaxRetries = 0
    MaxEarly = 0
    MaxUpdates = 0
    MaxRefers = 0
INVARIANT CancelledIsTornDown
CHECK_DEADLOCK FALSE
