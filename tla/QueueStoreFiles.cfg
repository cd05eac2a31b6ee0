SPECIFICATION Spec
CONSTANTS
    m1 = m1
    m2 = m2
    d1 = d1
    f1 = f1
    f2 = f2
    JobIds <- OneJob
    Models <- OneModel
    Destinations = {d1}
    Files = {f1, f2}
    Size <- TwoSizes
    ChunkSizes = {1, 2}
    MaxRuns = 2
    MaxIntegrity = 1
INVARIANTS
    TypeOK
    CompletedIsWhole
    CountersMatchRows
PROPERTIES
    OwnerWritesRows
CHECK_DEADLOCK FALSE
