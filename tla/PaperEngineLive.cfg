SPECIFICATION FairSpec
CONSTANTS
    s1 = s1
    s2 = s2
    s3 = s3
    A = A
    B = B
    Setups = {s1, s2}
    SymOf <- TwoSetups
    Results <- LossOrWin
    Initial = 10
    Fee = 1
    Slippage = 1
    MaxOpen = 1
    LossLimit = 3
    MaxLosses = 1
    Cooldown = 1
    Lifetime = 0
    DayLength = 5
    MaxTime = 2
    MaxMishaps = 1
    Mishaps = {"crash"}
PROPERTY EventuallyClosed
