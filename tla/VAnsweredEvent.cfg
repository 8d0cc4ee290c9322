SPECIFICATION Spec
CONSTANTS
    Apps = {a1}
    Ops = {}
    Directions = {"Outbound"}
    Bodies = {"none", "active"}
    TimerUse = {FALSE}
    Faults = FALSE
    MaxRetries = 0
    MaxEarly = 0
    MaxUpdates = 0
    MaxRefers = 0
INVARIANT AnsweredMeansAnswered
CHECK_DEADLOCK FALSE
