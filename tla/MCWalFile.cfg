SPECIFICATION Spec
CONSTANTS
    FORMAT_VERSION = 2
    Starts <- AllStarts
    MaxBatch = 2
    MaxRecords = 3
    MaxFaults = 2
    MaxCrashes = 2
    MaxCompactions = 1
INVARIANTS
    AppendsAreRead
    NeverMixed
    ShortTailsOpen
PROPERTY ImplementsDurableLog
CHECK_DEADLOCK FALSE
