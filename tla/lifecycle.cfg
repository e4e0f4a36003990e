SPECIFICATION Spec
CONSTANTS
    Workers = {w1, w2}
    Verdicts = {"passed"}
    Reports = {"failed"}
    Fallback = TRUE
    Grace = 1
    MaxRun = 3
    ReapPeriod = 2
    InspectLag = 1
    StartLag = 1
    WaitLimit = 4
    WriteLag = 1
    Upsets = {"api", "orch", "drop", "noquery", "cancel", "report", "heartbeat", "blind"}
    MaxUpsets = 1
    MaxTime = 12
INVARIANTS
    RunClosesInTime
    EngineVerdictStands
    TerminalIsAnnounced
PROPERTIES
    ExitCloseMeansExited
SYMMETRY Alike
CHECK_DEADLOCK FALSE
