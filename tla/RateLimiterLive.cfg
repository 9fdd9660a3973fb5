SPECIFICATION FairSpec
CONSTANTS
    p1 = p1
    p2 = p2
    r1 = r1
    r2 = r2
    r3 = r3
    r4 = r4
    Procs = {p1, p2}
    Reqs = {r1, r2}
    Home <- TwoHome
    Prio <- Equal
    Burst = 2
    Rate = 1
    Scale = 18
    Share <- Shares
    Credit <- Shares
    Cooldowns <- ShortLadder
    Target = 1
    Lease = 1
    StepCap = 1
    MaxLifetime = 2
    RegistryCapacity = 2
    PendingCapacity = 1
    DemandTTL = 3
    Liveness = 2
    MaxWait = 1
    RecordAttempts = 2
    MaxTime = 2
    Jumps = {}
    Mishaps = {"crash", "fault"}
    MaxMishaps = 1
    NoReq = NoReq
    Gone = Gone
    Past = Past
PROPERTIES NothingHangs
