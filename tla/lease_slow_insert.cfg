SPECIFICATION Spec
CONSTANTS
    Owner = {1, 2}
    TTL = 8
    Settle = 1
    Gap = 4
    Skew = 0
    Lag = 3
    MaxTime = 5
INVARIANTS
    OverlapNeedsEqualStamps
CHECK_DEADLOCK FALSE
