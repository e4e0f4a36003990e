SPECIFICATION Spec
CONSTANTS
    Owner = {1, 2}
    Every = 5
    Minute = 5
    Day = 2
    DailyAt = 1
    Defs <- MCDefs
    TTL = 4
    Phases <- MCPhases
    Period = 4
    ReadLag = 1
    FireLag = 1
    WriteLag = 1
    Upsets = {"crash", "drop", "scan", "blind", "error", "edit"}
    MaxUpsets = 1
    MaxEdit = 4
    MaxFires = 3
    MaxTime = 21
INVARIANTS
    RefireOnlyAfterCrash
    OthersWaitOutLease
    OccurrenceFiresInTime
    CountKeepsUp
    FallbackOnlyWithoutState
PROPERTIES
    NeverMovesBack
CHECK_DEADLOCK FALSE
