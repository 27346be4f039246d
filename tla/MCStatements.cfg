SPECIFICATION Spec
CONSTANTS
    MAX_BATCH_SIZE = 2
    MAX_IN_CLAUSE_IDS = 2
    MAX_U32 = 3
    MAX_PARAMS = 2
    Texts <- AllTexts
    Bindings <- AllBindings
    Db <- SmallDb
INVARIANTS
    AnnouncedIsSent
    ReadsAnswerTheWhere
    AvailabilityAsksTheWhere
    WritesKeepEveryValue
CHECK_DEADLOCK FALSE
