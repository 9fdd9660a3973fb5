SPECIFICATION Spec
CONSTANTS
    p1 = p1
    p2 = p2
    r1 = r1
    r2 = r2
    r3 = r3
    r4 = r4
    Procs = {p1, p2}
    Reqs = {r1, r2, r3}
    Home <- ThreeHome
    Prio <- ThreePrio
    Burst = 2
    Rate = 1
    Scale = 18
    Share <- Shares
    Credit <- Shares
    Cooldowns <- ShortLadder
    Target = 1
    Lease = 1
    StepCap = 1
    MaxLifetime = 2
    RegistryCapacity = 3
    PendingCapacity = 2
    DemandTTL = 3
    Liveness = 2
    MaxWait = 1
    RecordAttempts = 2
    MaxTime = 2
    Jumps = {3}
    Mishaps = {"crash", "fault", "reboot"}
    MaxMishaps = 1
    NoReq = NoReq
    Gone = Gone
    Past = Past
SYMMETRY Twins
INVARIANT BreakerSafe
PROPERTIES BreakerStepsSafe RecoveryEarned
