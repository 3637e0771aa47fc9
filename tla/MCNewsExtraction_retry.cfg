SPECIFICATION ExtractionSpec
CONSTANTS
    Key = {import}
    ExtractionKey = {import}
    MaxOcc = 1
    MaxAttempts <- MCMaxAttempts
    Timely = TRUE
    MayCrash = TRUE
    Origin = {o1}
    MaxSuggestions = 1
    IncludeCovered = {}
CHECK_DEADLOCK FALSE
INVARIANT RetriesAskAnew
