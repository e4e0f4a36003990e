SPECIFICATION FairSpec
CONSTANTS
    Proc = {"api1", "api2"}
    Shared = {"api1", "api2"}
    Status = {"passed", "failed"}
    Allowed = {"failed"}
    Channels <- MCChannels
    Setups <- MCSetups
    Silent = {"email"}
    Calls = 3
    Crashes = 1
    InsertFails = 1
INVARIANTS
    DeliveredOnce
    HonestHistory
PROPERTIES
    HistoryComplete
CHECK_DEADLOCK FALSE
