SPECIFICATION Spec
CONSTANTS
    Owner = {1, 2}
    Every = 5
    Minute = 5
    Day = 2
    DailyAt = 1
    Defs <- MCDefs
    TTL = 4
    Phases <- MCStaggered
    Period = 4
    ReadLag = 1
    FireLag = 1
    WriteLag = 1
    Upsets = {}
    MaxUpsets = 0
    MaxEdit = 4
    MaxFires = 3
    MaxTime = 8
INVARIANTS
    SameOccurrenceSameKey
CHECK_DEADLOCK FALSE
