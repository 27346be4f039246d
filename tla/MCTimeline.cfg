SPECIFICATION Spec
CONSTANTS
    Ids = {i1, i2, i3}
    Horizon = 3
    MaxIntervals = 3
    Expiries = {1}
    Settings <- AllSettings
SYMMETRY IdSymmetry
INVARIANTS
    ReadMatchesInstants
    RulesMatchInstants
    OffersAreAdmissible
    MultiMatchesInstants
    AdmissionMatchesInstants
    BatchMatchesInstants
CHECK_DEADLOCK FALSE
