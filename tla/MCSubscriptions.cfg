SPECIFICATION FairSpec
CONSTANTS
    p = p  c = c
    Resources = {p, c}
    Above <- Tree
    Ring = 1
    QueueLimit = 1
    MaxListen = 1
    MaxStatements = 3
    MaxChanges = 1
    MaxTopology = 2
INVARIANTS
    TypeOK
    NoSilentGap
    AckedUnlessHaunted
    ChannelsReclaimed
PROPERTY EveryNoticeAccounted
CHECK_DEADLOCK FALSE
