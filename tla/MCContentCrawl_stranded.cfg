SPECIFICATION ContentSpec
CONSTANTS
    first = first
    second = second
    i1 = i1
    i2 = i2
    worker = worker
    admin = admin
    Key = {first}
    MaxOcc = 1
    MaxAttempts <- MCMaxAttempts
    Timely = FALSE
    MayCrash = FALSE
    Item = {i1, i2}
    BatchSize = 2
    MaxTries = 2
    Concurrency = 1
    Producer = {worker}
INVARIANTS
    ItemsReturn
