SPECIFICATION SteadySpec
CONSTANTS
    a = a  b = b  d = d  e = e
    g = g  p = p  c = c
    Resources = {g, p, c}
    Ancestors <- ThreeDeep
    Ids = {a, b, d}
    Clients = {k1, k2}
    Instants <- FourInstants
    Shapes = {}
    InitialShape <- OneUnit
    Batches <- Kit
    HoldExpiries = {1}
    RuleRequests <- HierarchyRules
    MaxTtl = 1
    Retention = 0
    MaxIntervals = 2
    MaxBatch = 2
    MaxNow = 0
INVARIANT NeverDoubleBook
PROPERTY AdmittedByOwnRules
CHECK_DEADLOCK FALSE
