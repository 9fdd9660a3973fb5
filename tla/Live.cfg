SPECIFICATION FairSpec
CONSTANTS
    Parts = {"agents", "flow", "outcome", "htf", "source", "me"}
    y = y
    r1 = r1
    r2 = r2
    r3 = r3
    Specialists = {"u"}
    Chief = "chief"
    MaxAttempts = 1
    MaxAgentRows = 2
    MaxReports = 1
    Signals = {y}
    SignalKindOf <- CaptureKind
    Configured <- CaptureGate
    MaxStarts = 2
    SignalRows = {r1, r2, r3}
    Loads <- SingleLoads
    RowKind <- OutcomeKind
    Hold <- HoldingTime
    LastHorizon = 2
    MaxNow = 3
    Evaluators = {1}
    Levels = {"l"}
    MaxBars = 2
    WarmupBars = 0
    HtfFreeze <- BeforeTheFirstBar
    HtfWindow = 2
    Observers = {"p"}
    Takeover = TRUE
    MinHistory = 2
    PageLimit = 2
    MaxPages = 3
    MaxBackfill = 5
    MaxGapWindows = 1
    GapAttempts = 2
    StartClock = 2
    MaxClock = 5
    MaxLag = 1
    MaxEvent = 1
    MeFreeze = 0
    MeHorizon = 1
    MePageSize = 1
    Phase1Attempts = 2
    SendStop = TRUE
    MaxTime = 2
PROPERTIES
    WorkIsFinished 
CHECK_DEADLOCK FALSE
