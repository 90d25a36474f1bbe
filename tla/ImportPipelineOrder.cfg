SPECIFICATION ImportSpec
CONSTANTS
    Submission <- MCRelease
    Content <- MCContent
    Post <- MCPost
    ArticleSize = 4
    ManySingles = 1
    HeaderArticles = 3
    MaxIndexSize = 6
    MaxIndexFetches = 2
    BlockSize = 2
    VideoTypes <- MCVideo
    Blocklist <- MCBlocklist
    VideoRequired = TRUE
INVARIANT SplitFilesInOrder
CHECK_DEADLOCK FALSE
