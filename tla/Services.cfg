SPECIFICATION FairSpec
CONSTANTS
    Parts = {"conversation", "webhook", "report", "whitepaper", "preparation",
             "session", "image", "client", "list", "recommend", "metrics", "dimension",
             "json", "vision", "survey", "intake", "login", "provider"}
    Creates = {c1}
    Sends = {1, 2, 3}
    NoSend = NoSend
    Limit = 2
    Workers = {w1, w2}
    Deliveries = {d1, d2}
    MaxPosts = 2
    Readers = {r1}
    ReportWorkers = {w1}
    MaxReports = 2
    MaxPolls = 2
    Askers = {r1, r2, r3}
    MaxTasks = 3
    Requests = {r1, r2}
    Personas = {p1}
    Works = {1, 2}
    MaxEditions = 2
    Tokens = {1}
    MaxUpdates = 2
    Uploads = {r1, r2, r3}
    Images = {i1}
    MaxConcurrency = 1
    MaxQueue = 1
    MaxAttempts = 2
    CacheSize = 1
    MaxRetries = 1
    MaxJsonRetries = 2
    MaxChunks = 2
    Walks = {w1}
    PageSize = 1
    MaxRows = 3
    MaxPersonas = 7
    Answers <- SomeAnswers
    RunSizes = {1, 2, 3}
    MaxRuns = 3
    Dims <- SomeDims
    Sorted <- SomeSorted
    Items <- SomeItems
    Replies <- SomeReplies
    NoJson = NoJson
    AnswerCap = 2
    MaxItems = 3
    MaxText = 6
    Core = {"name", "price", "selling_points"}
    Extra = {"appearance"}
    Values <- SomeValues
    Hinted = {"price"}
    Targets = {{}, {"price", "appearance"}}
    BatchDims <- TwoHalves
    PerDim = 1
    Halves <- SomeHalves
    NoList = NoList
    Critics = {p1}
    Friendly = {p2}
    AnswerReplies <- SomeAnswerReplies
    Unusable = Unusable
    Prices = {0, 49, 50, 800, 1000}
    NoPrice = 1000
    MaxAnalyses = 1
    Logins = {1, 2}
    Numbers = {n1, n2}
    NoNumber = NoNumber
    MockNumber = n1
    LoginLimit = 1
    MaxWindows = 1
CHECK_DEADLOCK FALSE
INVARIANTS
    TypesOK CountIsExact DeliveredMeansAccepted RadarServed
    GeneratingIsOwned AnsweredAsOrdered SessionsHold
    PlacesAccounted CallHolds ListsHold FiguresHold
    RepliesTaken SurveysCount IntakeHolds LoginHolds ProvidersUsable
PROPERTIES
    SendsEnd ReadersEnd ReadyStays DoneIsComplete
