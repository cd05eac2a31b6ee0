SPECIFICATION TransferSpec
CONSTANTS
    r1 = r1
    r2 = r2
    r3 = r3
    Indexes = {r1, r2, r3}
    Blocks = 1
    Permits = 2
    RequestRetries = 0
    Events = {"http", "reuse"}
SYMMETRY Symmetry
INVARIANTS
    RecordedIsWritten
CHECK_DEADLOCK FALSE
