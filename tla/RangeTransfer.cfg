SPECIFICATION FairTransferSpec
CONSTANTS
    r1 = r1
    r2 = r2
    r3 = r3
    Indexes = {r1, r2}
    Blocks = 2
    Permits = 2
    RequestRetries = 2
    Events = {"http", "full", "stop", "late", "settle", "cancelcall", "replace", "reuse"}
INVARIANTS
    TransferTypeOK
    RecordedUntilReuse
    ReturnedIsWhole
    CounterMatchesRecorded
PROPERTIES
    TransferEnds
CHECK_DEADLOCK FALSE
