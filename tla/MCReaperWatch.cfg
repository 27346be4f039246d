SPECIFICATION FairSpec
CONSTANTS
    A = A  B = B
    h1 = h1  h2 = h2  h3 = h3
    Resources = {A, B}
    Ids = {h1, h2, h3}
    Home <- Homes
    Expiries = {1, 2}
    MaxNow = 2
    MaxPlacements = 2
INVARIANT MissedOnlyWhenOvertaken
PROPERTY ExpiredHoldsReaped
CHECK_DEADLOCK FALSE
