SPECIFICATION ProgressSpec
CONSTANTS
    \* PrioritizedSemaphore
    Client = {c1, c2, c3, c4}
    NoClient = NoClient
    Total = 3
    DemandReserved = 1
    RepairFloor = 1
    \* QueueManager
    Item = {1, 2}
    Priority <- Priorities
    PathOf <- NoCategory
    Slot = {s1}
    FileCount = 1
    Node = {1, 2, 3, 4, 5, 6, 7, 8}
    NoItem = NoItem
    MaxMishaps = 1
    \* RepairSchedule
    k1 = k1
    k2 = k2
    h1 = h1
    Key = {k1, k2}
    HistoryItem = {h1}
    ReleaseOf <- SetsOfOneRelease
    Reporter = {d1}
    Worker = {w1, w2}
    NoKey = NoKey
INVARIANTS
    HeldIsExact
    ReserveHeadroom
    NoLostWakeUp
PROPERTIES
    FirstComeFirstServed
    GrantsAsPromised
    TiersServed
    QueueDrains
    JobsEnd
CHECK_DEADLOCK FALSE
