SPECIFICATION Spec
CONSTANTS
    Resources = {1, 2, 3}
    Entities = {1, 2, 3, 4}
    Callers = {one, two}
    Operations <- AllOperations
    one = one
    two = two
    MAX_HIERARCHY_DEPTH = 1
    MAX_RESOURCES_PER_TENANT = 2
    MaxCalls = 5
    MaxRestarts = 1
INVARIANTS
    TypeOK
    NoOrphans
    IndexIsExact
    MemoryIsReplay
PROPERTY EveryCallEnds
CHECK_DEADLOCK FALSE
