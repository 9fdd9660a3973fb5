SPECIFICATION Spec
CONSTANTS
    p1 = p1
    p2 = p2
    t1 = t1
    t2 = t2
    t3 = t3
    f1 = f1
    f2 = f2
    Procs = {p1, p2}
    Threads = {t1, t2, t3}
    Home <- TwoProcsHome
    Tools = {}
    FPs = {f1, f2}
    Symbol <- OneSymbol
    Links = {l1, l2}
    Attempts = {a1, a2}
    ReuseLinks = FALSE
    LimiterOn = TRUE
    NoProc = NoProc
    NoAttempt = NoAttempt
    NoKey = NoKey
SYMMETRY Perms
INVARIANTS TypeOK AtMostOneUndecided PendingIsBlocked ResolvedIsDecided
PROPERTIES JournalDiscipline GateRefined
