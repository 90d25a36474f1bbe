SPECIFICATION RecoverySpec
CONSTANTS
    c1 = c1
    c2 = c2
    \* DamageCensus
    i1 = i1
    i2 = i2
    r1 = r1
    Caller = {c1, c2}
    Item = {i1, i2}
    Article = {1, 2}
    Pools = 2
    Connections <- MCConnections
    MaxInFlight = 8
    SharePercent = 25
    TripAfter = 1
    PresentTtl = 1
    MissingTtl = 1
    Cooldown = 0
    CacheCapacity = 1
    Debounce = 0
    Starts <- MCStarts
    SetsOf <- MCSetsOf
    Target <- MCTarget
    \* RepairAttempt
    Piece <- MCPiece
    SliceSize = 2
    VolumeRows <- MCVolume
    ExtraRows = 1
    RowBudget = 6
    MaxPasses = 2
    MaxChanges = 1
    \* HoleLedger
    m1 = m1
    m2 = m2
    Message = {m1, m2}
    Repaired <- OneOfTwo
    Server = {a}
    ConfirmAfter = 1
    ProvisionalTtl = 2
    Ttl = 2
    Grace = 1
    ClaimTimeout = 1
    SweepInterval = 1
    Capacity = 1
    \* RepairSchedule
    k1 = k1
    k2 = k2
    h1 = h1
    Key = {k1, k2}
    HistoryItem = {h1}
    ReleaseOf <- SetsOfOneRelease
    Reporter = {c1, c2}
    Worker = {w1, w2}
    NoKey = NoKey
SYMMETRY Symmetry
INVARIANTS
    Bounded
    SkipIsJustified
    SkipIsFresh
    MissIsWitnessed
    BeyondRepairIsProven
    ShareKept
    GivenUpIsHopeless
    SolvesWholeSystem
    OneJobPerSet
    JobHasItsWorker
PROPERTIES
    EarlyFoldRepaired
CHECK_DEADLOCK FALSE
