SPECIFICATION ScheduleSpec
CONSTANTS
    k1 = k1
    k2 = k2
    h1 = h1
    Key = {k1, k2}
    HistoryItem = {h1}
    ReleaseOf <- SetsOfOneRelease
    Reporter = {c1, c2}
    Worker = {w1, w2}
    NoKey = NoKey
PROPERTIES
    FoldRepaired
