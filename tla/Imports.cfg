SPECIFICATION ImportsSpec
CONSTANTS
    \* QueueManager
    Item = {1, 2}
    Priority <- Priorities
    PathOf <- OneName
    Slot = {s1, s2}
    FileCount = 1
    Node = {1, 2, 3, 4, 5, 6, 7, 8}
    NoItem = NoItem
    MaxMishaps = 1
    \* ImportPipeline
    Submission <- MCRelease
    Content <- MCContent
    Post <- MCPost
    ArticleSize = 4
    ManySingles = 1
    HeaderArticles = 3
    MaxIndexSize = 6
    MaxIndexFetches = 2
    BlockSize = 2
    VideoTypes <- MCVideo
    Blocklist <- MCBlocklist
    VideoRequired = TRUE
SYMMETRY Permuted
INVARIANTS
    OneTaskPerItem
    NothingLost
    CompletedIsImported
    ItemsAreTheArchive
    RecordsAreTrue
PROPERTIES
    HistoryIsFinal
CHECK_DEADLOCK FALSE
