SPECIFICATION Spec
CONSTANTS
    Owner = {1, 2}
    TTL = 4
    Settle = 2
    Gap = 2
    Skew = 1
    Lag = 1
    MaxTime = 7
INVARIANTS
    LeaseExclusive
    LeaseInv
    GenerationMeansExpiry
PROPERTIES
    ImplementsLease
CHECK_DEADLOCK FALSE
