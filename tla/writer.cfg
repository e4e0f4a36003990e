SPECIFICATION FairSpec
CONSTANTS
    Caller = {p1, p2}
    Row = {r1, r2, r3, r4}
    BatchSize = 2
    MaxInFlight = 1
    Attempts = 2
INVARIANTS
    TypeOK
    NothingVanishes
    InFlightBounded
    WriterInv
PROPERTIES
    CallersReturn
    RowsSettle
CHECK_DEADLOCK FALSE
