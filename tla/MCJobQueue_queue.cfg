SPECIFICATION LiveQueueSpec
CONSTANTS
    w1 = w1
    w2 = w2
    news1 = news1
    news2 = news2
    source = source
    NoJob = NoJob
    Worker = {w1, w2}
    Key = {news1, news2, source}
    NewsKey = {news1, news2}
    CrawlKey = {source}
    Supports <- MCSupports
    MaxAttempts <- MCMaxAttempts
    RetryDelay <- MCRetryDelay
    MaxOcc = 1
    Priority = {0}
    MaxWait = 0
    Lease = 2
    Heartbeat = 1
    NewsCap = 1
    MaxStale = 1
    Timely = FALSE
INVARIANTS
    QueueTypeOK
    OneHolder
    NoStrandedRow
    LockedRowIsOwned
    NewsWithinCap
PROPERTIES
    OnlyHolderSettles
    ImplementsLifecycle
    ImplementsAttempts
    Drains
