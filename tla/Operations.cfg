SPECIFICATION Spec
SYMMETRY Twins
CONSTANTS
    Parts = {"outcome", "fill", "sync", "study", "get",
             "position", "mae", "oos", "findings", "freeze", "rollback"}
    p1 = p1
    p2 = p2
    Bar = 2
    HoldTicks = 4
    MaxTick = 4
    Boundary = 0
    SrrWriters = {p1, p2}
    Capturers = {"p", "q"}
    FillObs = {"a", "b"}
    ObsSignal <- SignalTimes
    Offers <- OfferChoices
    ActivationTs <- BeforeTheFirstSignal
    CaptureWindow = 1
    CycleWindow = 1
    DelayLimit = 2
    MaxPerCycle = 1
    MaxPerRun = 1
    MaxQuoteWorkers = 1
    MaxFillTime = 2
    Tf = 2
    PaperTrades <- TwoTrades
    PostExit = 3
    BatchSpan = 4
    ApiLimit = 3
    RetainTicks = 7
    MaxMarketTime = 9
    StudyBar = 2
    HorizonTicks <- OneHorizon
    DayTicks = 8
    RawBars = {0, 2}
    StrictBars = {2}
    InBandBars = {0}
    PageLimit = 3
    Slack = 1
    ReadLag = 1
    Evaluators = {p1, p2}
    MaxStudyTime = 8
    Requests = {"a", "b"}
    Priority <- Priorities
    RetryDeadline = 3
    MaxAttemptsSet = 3
    RlMaxRetries = 2
    HttpTimeout = 1
    Cooldown = 3
    GateWait = 1
    TimeoutBase = 0
    RateLimitBase = 1
    MaxDelay = 2
    TokenInterval = 1
    StormWindow = 3
    StormMax = 1
    StormSample = 2
    SharedLimiter = TRUE
    MaxGetTime = 3
    Sources = {"s1", "s2"}
    Policy <- Policies
    DcaOn = TRUE
    PolicyTakes = TRUE
    PolicyTrails = FALSE
    Prices <- PriceLevels
    Zone = {0}
    StopGap = 4
    DcaGap = 2
    DcaStopGap = 3
    Target1 = 6
    Target2 = 8
    Hold = 1
    TradeLife = 0
    ShadowStop = 4
    ShadowTarget = 4
    ShadowLife = 0
    MaxPositionTime = 1
    MaxSlips = 1
    MaeEvaluators = {"service", "once"}
    TapeKinds = {"quiet", "dip", "both"}
    MaeDetectedAt = 1
    EntryExpiry = 6
    MaxHold = 4
    Horizons = {2}
    Environments <- MaeEnvironments
    MaxMaeTime = 8
    Collectors = {p1, p2}
    OosKinds = {"quiet", "stop"}
    SignalBars = {0}
    MaxLag = 1
    OosHold = 4
    OosHorizons = {2}
    MaxOosTime = 7
    Ingesters = {1, 2, 3}
    Results <- AgentResults
    Canonical <- Spellings
    Fingerprints = {"f", "h"}
    RepeatMin = 2
    ResearchMin = 2
    DatesMin = 2
    Operators = {"o"}
    MaxUpdates = 1
    MaxReplays = 1
    Tools = {1, 2}
    FreezeRecords = {"r1", "r2"}
    Activations = {"a"}
    Protocols = {"P", "Q"}
    PastWindow = 0
    FutureWindow = 1
    Legacy = {2}
    MaxFreezeTime = 1
    MaxKills = 1
    MaxDrifts = 1
    ReadOrder <- CaptureOrder
    AuditedObjects = {"database", "insert"}
    HardenedObjects = {"insert"}
    SecuredFunctions = {"insert"}
    GrantSurface <- Grants075
    PhaseRoles = {"obs", "adm"}
    AppRoles = {"app"}
    OtherRoles = {}
    BornBefore = {"adm"}
    MaxForeign = 1
    MaxSurveys = 1
    MaxMigrations = 1
    MaxRestores = 1

    
PROPERTIES
    SrrOutcomeSafe SrrFillSafe  BudgetSafe 
    MaeV2Safe MaeV3Safe FindingsSafe FreezeSafe RollbackSafe
CHECK_DEADLOCK FALSE
