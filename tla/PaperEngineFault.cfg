SPECIFICATION Spec
CONSTANTS
    s1 = s1
    s2 = s2
    s3 = s3
    A = A
    B = B
    Setups = {s1, s2}
    SymOf <- TwoSetups
    Results <- LossOrWin
    Initial = 10
    Fee = 1
    Slippage = 1
    MaxOpen = 2
    LossLimit = 3
    MaxLosses = 1
    Cooldown = 1
    Lifetime = 0
    DayLength = 1
    MaxTime = 1
    MaxMishaps = 1
    Mishaps = {"fault", "torn"}
INVARIANT BooksBalance
PROPERTY RiskLimitsHold
