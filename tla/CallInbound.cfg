SPECIFICATION Spec
CONSTANTS
    Apps = {a1, a2}
    Ops = {"answer", "reject", "hangup", "hold", "unhold", "refer"}
    Directions = {"Inbound"}
    Bodies = {"none", "active", "hold"}
    TimerUse = {TRUE, FALSE}
    Faults = TRUE
    MaxRetries = 0
    MaxEarly = 0
    MaxUpdates = 1
    MaxRefers = 1
SYMMETRY AppSymmetry
INVARIANTS AnswerInv HoldMatchesFlags NoStuckReinvite PortGivenBack
CHECK_DEADLOCK FALSE
