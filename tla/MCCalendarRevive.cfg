SPECIFICATION Spec
CONSTANTS
    a = a  b = b  d = d  e = e
    g = g  p = p  c = c
    Resources = {c}
    Ancestors <- Flat
    Ids = {a, b, d, e}
    Clients = {k1}
    Instants <- FourInstants
    Shapes = {}
    InitialShape <- OneUnit
    Batches <- Contended
    HoldExpiries = {1, 2}
    RuleRequests <- NoRuleRequests
    MaxTtl = 2
    Retention = 0
    MaxIntervals = 3
    MaxBatch = 2
    MaxNow = 2
INVARIANT NeverDoubleBook
CHECK_DEADLOCK FALSE
