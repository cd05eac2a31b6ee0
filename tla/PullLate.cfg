SPECIFICATION PullSpec
CONSTANTS
    m1 = m1
    m2 = m2
    d1 = d1
    f1 = f1
    f2 = f2
    w1 = w1
    w2 = w2
    JobIds <- OneJob
    Models = {m1}
    Destinations = {d1}
    Files = {f1}
    Size <- TwoUnits
    ChunkSizes = {1}
    MaxRuns = 2
    MaxIntegrity = 1
    Workers = {w1, w2}
    ChunkSize = 1
    IntegrityRetries = 0
    Events = {"late", "cancel", "crash", "retry", "dismiss", "offline", "powerloss", "lostcopy", "busy"}
SYMMETRY WorkerSymmetry
INVARIANTS
    PullTypeOK
    RecordedIsDurable
    CompletedIsInstalled
    RetryIsExplained
    RefusalMeansLost
PROPERTIES
    Spec
    VerifiedIsKept
    FencedRunsWriteNothing
CHECK_DEADLOCK FALSE
