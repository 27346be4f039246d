SPECIFICATION Spec
CONSTANTS
    A = A  B = B  C = C
    h1 = h1  h2 = h2  b1 = b1  b2 = b2  x = x  y = y
    Resources = {A, B, C}
    Ids = {h1, h2, b1, b2, x, y}
    Tasks = {t1, t2}
    Requests <- CommitTraffic
    InitialStore <- TwoHolds
    PastIds = {}
    ReuseIds = FALSE
    QuietTopology = TRUE
    MaxCalls = 3
    MaxCompactions = 1
    MaxFaults = 1
    MaxCrashes = 1
INVARIANTS
    TypeOK
    MemoryMatchesLog
    NoTimeFreedEarly
    CommitsAreAtomic
PROPERTY CompactionKeepsMeaning
CHECK_DEADLOCK FALSE
