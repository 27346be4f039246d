SPECIFICATION Spec
CONSTANTS
    a = a  b = b  d = d  e = e
    g = g  p = p  c = c
    Resources = {c}
    Ancestors <- Flat
    Ids = {a, b, d, e}
    Clients = {k1}
    Instants <- FourInstants
    Shapes <- BothShapes
    InitialShape <- TwoUnits
    Batches <- Mixed
    HoldExpiries = {1, 9}
    RuleRequests <- NoRuleRequests
    MaxTtl = 2
    Retention = 0
    MaxIntervals = 2
    MaxBatch = 2
    MaxNow = 4
INVARIANTS
    TypeOK
    HoldExpiryCapped
    IntervalsBounded
PROPERTIES
    StepKeepsCapacity
    GcFreesOnlyThePast
CHECK_DEADLOCK FALSE
