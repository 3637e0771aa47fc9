SPECIFICATION CrawlSpec
CONSTANTS
    w1 = w1
    w2 = w2
    source = source
    news = news
    NoJob = NoJob
    Worker = {w1, w2}
    Key = {source}
    NewsKey = {news}
    CrawlKey = {source}
    Supports <- MCSupportsNews
    MaxAttempts <- MCMaxAttempts
    RetryDelay <- MCRetryDelay
    MaxOcc = 1
    Priority = {0, 1}
    MaxWait = 1
    Lease = 3
    Heartbeat = 1
    NewsCap = 1
    MaxStale = 1
    Timely = TRUE
    MayCrash = TRUE
SYMMETRY MCSymmetry
INVARIANTS
    OneOpenAttempt
    RecipeRunFollowsCrawl
    NoOpenRunLeft
    NoOverlap
