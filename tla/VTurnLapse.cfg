SPECIFICATION TurnSpec
CONSTANTS
    Lifetime = 15
    RefreshAt = 12
    ItemLife <- MCItemLife
    ItemRefreshAt <- MCItemRefreshAt
    Round = 1
    MaxReply = 1
    MaxStale = 0
    MaxFails = 0
INVARIANT AllocationKept
CHECK_DEADLOCK FALSE
