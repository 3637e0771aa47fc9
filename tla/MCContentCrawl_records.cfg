SPECIFICATION ContentSpec
CONSTANTS
    first = first
    second = second
    i1 = i1
    i2 = i2
    worker = worker
    admin = admin
    Key = {first, second}
    MaxOcc = 1
    MaxAttempts <- MCMaxAttempts
    Timely = FALSE
    MayCrash = TRUE
    Item = {i1}
    BatchSize = 2
    MaxTries = 2
    Concurrency = 1
    Producer = {worker, admin}
SYMMETRY MCSymmetry
INVARIANTS
    ContentTypeOK
    RunningTogether
    SucceededIsHydrated
    JobsWithinTarget
PROPERTIES
    ClosedRecordsAreFinal
