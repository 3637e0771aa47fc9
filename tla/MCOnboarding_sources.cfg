SPECIFICATION OnboardingSpec
CONSTANTS
    MaxCandidate = 2
    FeedOf <- MCFeedOf
    CompanyOf <- MCCompanyOf
    SameUrl = {}
    IsSitemap <- MCIsSitemap
    Validator = {v1, v2}
    AutoActivate = TRUE
    TrustAdapter = FALSE
    QueueTarget = 1
    MaxTries <- MCMaxTries
    MaxJobs = 2
    MaxLeaseFaults = 1
    RecipeSource = {s1, s2}
    PublicationOf <- MCPublicationOf
    RecipeContent = {k1, k2}
    MaxRecipe = 2
    MaxVerified = 1
    MaxFailures = 1
    Builder = {b1}
    RecipeCrawl = {c1}
    Key = {import, search}
    ExtractionKey = {import}
    DiscoveryKey = {search}
    MaxOcc = 1
    MaxAttempts <- MCMaxAttempts
    Timely = FALSE
    MayCrash = TRUE
    Origin = {o1}
    MaxSuggestions = 1
    IncludeCovered = {}
    Address = {"home", "page", "map"}
    SourceOf <- MCSourceOf
    PageOf <- MCPageOf
    Ignored = {"map"}
    Plainness <- MCPlainness
    LinksOf <- MCLinksOf
    EntryPoint = {}
    AdapterSeed = {"home"}
    ProbePath = {"page"}
    SitemapPath = {"map"}
    LandingPage = {"home"}
    MaxFound = 2
    Company = {"a", "b", "c"}
    SourceId = {1, 2}
    Listing = {"l"}
    Document = {"first", "second"}
    RowsOf <- MCRowsOf
    Seeds = {"a"}
    SeedHomepage = "seed"
    SeedPrimary = "none"
    Importer = {i1, i2}
    Wave = {w1, w2}
    WaveSize = 2
    MaxDay = 2
    Outlet = {"o1", "o2"}
    Story = {"t1", "t2"}
    Registries <- MCRegistries
    Fetches <- MCFetches
    Alike = {{"t2"}}
    MinDiscovered = 1
    MinAccepted = 1
    MinRatio = 5000
    MinSample = 2
    MinCovered = 1
CHECK_DEADLOCK FALSE
INVARIANTS
    OnboardingTypeOK
    VetoIsFinal
    ApprovedHasCandidate
    ActiveIsTrusted
    CompletedExtractionHasRun
    FoundAtItsBest
    PublishedMeetsContract
PROPERTIES
    EveryCandidateHasItsTurn
    DecisionsStand
