SPECIFICATION Spec
CONSTANTS
    MaxVUs = 5
    MaxArrivals = 6
    MaxRate = 3
    MaxDuration = 600
    MaxWorkers = 3
    MaxRows = 4
    MaxLatencies = 3
    MaxSamples = 3
    AllowEmptySLA = FALSE
    Responses <- MCResponses
    Jobs <- MCJobs
INVARIANTS
    FleetLoadAddsUp
    RowsUsedOnce
    WaitOutlastsPlan
    VerdictIsReference
    ReportAgrees
CHECK_DEADLOCK FALSE
