SPECIFICATION Spec
CONSTANTS
    Apps = {a1}
    Ops = {}
    Directions = {"Outbound"}
    Bodies = {"none", "active"}
    TimerUse = {FALSE}
    Faults = FALSE
    MaxRetries = 0
    MaxEarly = 1
    MaxUpdates = 0
    MaxRefers = 0
PROPERTY StateFollowsTable
CHECK_DEADLOCK FALSE
