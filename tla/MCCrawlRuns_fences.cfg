SPECIFICATION CrawlSpec
CONSTANTS
    w1 = w1
    w2 = w2
    source = source
    news = news
    NoJob = NoJob
    Worker = {w1, w2}
    Key = {source}
    NewsKey = {}
    CrawlKey = {source}
    Supports <- MCSupportsAll
    MaxAttempts <- MCMaxAttempts
    RetryDelay <- MCRetryDelay
    MaxOcc = 1
    Priority = {0}
    MaxWait = 0
    Lease = 2
    Heartbeat = 1
    NewsCap = 1
    MaxStale = 0
    Timely = FALSE
    MayCrash = TRUE
INVARIANTS
    CrawlTypeOK
    CompletedJobHasResult
PROPERTIES
    ClosedRunsAreFinal
