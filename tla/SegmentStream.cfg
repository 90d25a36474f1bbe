SPECIFICATION FairSpec
CONSTANTS
    s1 = s1
    s2 = s2
    Stream = {s1, s2}
    Steady = {s1, s2}
    Size <- Sizes
    Lookahead = 2
    Permits = 1
INVARIANTS
    OnlyHeadIsDemand
PROPERTIES
    ReadsInOrder
    SteadyReadersServed
CHECK_DEADLOCK FALSE
