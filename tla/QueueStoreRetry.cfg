SPECIFICATION Spec
CONSTANTS
    m1 = m1
    m2 = m2
    d1 = d1
    f1 = f1
    f2 = f2
    JobIds <- TwoJobs
    Models <- TwoModels
    Destinations = {d1}
    Files = {f1}
    Size <- NoBytes
    ChunkSizes = {1}
    MaxRuns = 2
    MaxIntegrity = 0
INVARIANTS
    OneActivePerDestination
CHECK_DEADLOCK FALSE
