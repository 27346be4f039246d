SPECIFICATION FairSpec
CONSTANTS
    A = A  B = B  C = C
    h1 = h1  h2 = h2  b1 = b1  b2 = b2  x = x  y = y
    Resources = {A, B}
    Ids = {h1, b2, x, y}
    Tasks = {t1, t2}
    Requests <- RuleTraffic
    InitialStore <- OneOld
    PastIds = {h1}
    ReuseIds = FALSE
    QuietTopology = TRUE
    MaxCalls = 2
    MaxCompactions = 1
    MaxFaults = 1
    MaxCrashes = 1
PROPERTIES
    EveryCallAnswered
    CompactionEnds
CHECK_DEADLOCK FALSE
