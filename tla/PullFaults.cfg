SPECIFICATION FairPullSpec
CONSTANTS
    m1 = m1
    m2 = m2
    d1 = d1
    f1 = f1
    f2 = f2
    w1 = w1
    w2 = w2
    JobIds <- OneJob
    Models = {m1}
    Destinations = {d1}
    Files = {f1, f2}
    Size <- Mixed
    ChunkSizes = {1}
    MaxRuns = 3
    MaxIntegrity = 1
    Workers = {w1}
    ChunkSize = 1
    IntegrityRetries = 0
    Events = {"crash", "powerloss", "lostrename", "badbytes", "shutdown", "offline", "stall", "deadline"}
INVARIANTS
    PublishedIsVerified
PROPERTIES
    RunEnds
    CloseEnds
CHECK_DEADLOCK FALSE
