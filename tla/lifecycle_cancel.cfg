SPECIFICATION Spec
CONSTANTS
    Workers = {w1, w2}
    Verdicts = {"passed"}
    Reports = {}
    Fallback = FALSE
    Grace = 1
    MaxRun = 6
    ReapPeriod = 2
    InspectLag = 1
    StartLag = 1
    WaitLimit = 5
    WriteLag = 1
    Upsets = {"cancel"}
    MaxUpsets = 1
    MaxTime = 7
INVARIANTS
    CancelSticks
CHECK_DEADLOCK FALSE
