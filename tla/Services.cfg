SPECIFICATION Spec
SYMMETRY Twins
CONSTANTS
    Parts = {"analytics", "agents", "flow", "observer", "outcome", "htf", "source", "me", "scanner"}
    s1 = s1
    s2 = s2
    Runners = {s1, s2}
    ScanSymbols = {"x"}
    MaxRuns = 2
    NoOne = "no one"
    NoRun = 0
    p1 = p1
    p2 = p2
    f1 = f1
    f2 = f2
    u = u
    v = v
    x = x
    y = y
    r1 = r1
    r2 = r2
    r3 = r3
    AnalyticsCalls = {p1, p2, f1, f2}
    CommandOf <- Commands
    LockIds = {1}
    Specialists = {u, v}
    Chief = "chief"
    MaxAttempts = 2
    MaxAgentRows = 2
    MaxReports = 2
    Signals = {x, y}
    SignalKindOf <- SignalKind
    Configured <- SignalGate
    MaxStarts = 2
    Registry <- ExperimentList
    ExpKind <- ExperimentKind
    Cands = {1, 2}
    MaxProcesses = 2
    SignalRows = {r1, r2, r3}
    Loads <- OutcomeLoads
    RowKind <- OutcomeKind
    Hold <- HoldingTime
    LastHorizon = 2
    MaxNow = 3
    Evaluators = {1, 2}
    Levels = {"l"}
    MaxBars = 3
    WarmupBars = 1
    HtfFreeze = 0
    HtfWindow = 2
    Observers = {"p", "q"}
    Takeover = FALSE
    MinHistory = 2
    PageLimit = 2
    MaxPages = 2
    MaxBackfill = 5
    MaxGapWindows = 2
    GapAttempts = 2
    StartClock = 2
    MaxClock = 7
    MaxLag = 1
    MaxEvent = 2
    MeFreeze = 0
    MeHorizon = 1
    MePageSize = 1
    Phase1Attempts = 2
    SendStop = FALSE
    MaxTime = 2
INVARIANTS
      SourceSafe
PROPERTIES
     FlowSafe ObserverSafe EvaluatorSafe MeSafe ScannerSafe
CHECK_DEADLOCK FALSE
