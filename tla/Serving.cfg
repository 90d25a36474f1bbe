SPECIFICATION ServingSpec
CONSTANTS
    c1 = c1
    c2 = c2
    \* FileStreams
    Volume <- Volumes
    Plain <- Segs
    PlainSize = 16
    Unreadable <- Headers
    Probes = 20
    Block = 2
    ReadBlocks = 4
    SkipChunk = 3
    Room = {1, 3, 20}
    Ranges <- RangeHeaders
    \* DavTree
    Client = {c1, c2}
    Upload <- MCUpload
    NewId = {4, 5, 6, 7}
    MountedRelease = {"n"}
    MountPath <- MCMountPath
    \* PatchStore
    r1 = r1
    r2 = r2
    b1 = b1
    b2 = b2
    f = f
    h = h
    Release = {r1, r2}
    Blob = {b1, b2}
    NoBlob = NoBlob
    File = {f}
    FileSize = 2
    Article <- Articles
    Hole = {h}
    Op = {o1, o2}
    Job <- Jobs
    NoJob = NoJob
    Budgets = {4, 5}
    FileCost = 1
    RecordCost = 1
    \* ServerSettings
    Requester = {c1, c2}
    ServerEntry <- MCEntry
    Setting <- MCSetting
    Defaults <- MCDefaults
    MaxServers = 2
    MaxFaults = 1
    \* HealthCheck
    LibraryItem = {1, 2, 3}
    Bare = {1}
    Releases = {"r1", "r2"}
    BatchLimit = 1
    Day = 4
    MaxLost = 1
SYMMETRY Symmetry
INVARIANTS
    BodyIsExact
    FoundWhereListed
    WithinBudget
    SpansDisjoint
    OneNzb
    IndexIsOnDisk
    PoolsFollowList
    BackupIsOwn
    NoItemStarves
CHECK_DEADLOCK FALSE
