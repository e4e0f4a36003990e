SPECIFICATION Spec
CONSTANTS
    Threads = 2
    MaxChanges = 3
    Scenarios <- MCScenarios
    Rewrites <- MCRewrites
    DataSets <- MCDataSets
    Schedules <- MCSchedules
    Segments <- MCSegments
    Foreign <- MCForeign
    Captures <- MCCaptures
    Collections <- MCCollections
    CapturedThreads = 3
    Static = {"script"}
    Preflight = {"preflight"}
    Blocked = {"metadata"}
    Variable = {"host"}
    MaxKept = 4
    MaxPause = 10
INVARIANTS
    RunsWhatValidateRan
    DataReachesRun
    BurstIsReported
    ReportIsEmission
    BurstsFill
PROPERTIES
    ReimportKeepsJourney
    CaptureKeepsPace
CHECK_DEADLOCK FALSE
