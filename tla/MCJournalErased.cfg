SPECIFICATION Spec
CONSTANTS
    A = A  B = B  C = C
    h1 = h1  h2 = h2  b1 = b1  b2 = b2  x = x  y = y
    Resources = {A, B}
    Ids = {h1, x, y}
    Tasks = {t1, t2}
    Requests <- JustCreate
    InitialStore <- OnlyA
    PastIds = {}
    ReuseIds = FALSE
    QuietTopology = FALSE
    MaxCalls = 1
    MaxCompactions = 1
    MaxFaults = 0
    MaxCrashes = 0
PROPERTY CompactionKeepsMeaning
CHECK_DEADLOCK FALSE
