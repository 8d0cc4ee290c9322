SPECIFICATION Spec
CONSTANTS
    Apps = {a1}
    Ops = {"answer", "reject", "hangup", "cancel", "reinvite"}
    Directions = {"Inbound", "Outbound"}
    Bodies = {"none", "active"}
    TimerUse = {TRUE}
    Faults = TRUE
    MaxRetries = 1
    MaxEarly = 0
    MaxUpdates = 1
    MaxRefers = 0
PROPERTIES EndedCallsAreRemoved CallersReturn TimerTaskStops
CHECK_DEADLOCK FALSE
