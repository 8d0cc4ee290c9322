SPECIFICATION PortSpec
CONSTANTS
    Calls = {c1, c2}
    PortStart = 2
    PortEnd = 4
    PortMod = 8
SYMMETRY CallSymmetry
PROPERTY OwnPortReleased
CHECK_DEADLOCK FALSE
