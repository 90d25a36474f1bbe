SPECIFICATION FetchSpec
CONSTANTS
    a = a
    b = b
    Message = {m1}
    Repaired = {}
    Server = {a, b}
    ConfirmAfter = 1
    ProvisionalTtl = 2
    Ttl = 1
    Grace = 1
    ClaimTimeout = 1
    SweepInterval = 0
    Capacity = 1
    Fetcher = {f1, f2}
    NoFetcher = NoFetcher
    Permits = 1
    PoolLists <- Replaced
    ConfirmFetch = 1
    MaxDrops = 1
INVARIANTS
    EveryServerDenied
