SPECIFICATION Spec
CONSTANTS
    s1 = s1
    s2 = s2
    s3 = s3
    A = A
    B = B
    Setups = {s1, s2, s3}
    SymOf <- ThreeSetups
    Results <- LossOrWin
    Initial = 10
    Fee = 1
    Slippage = 1
    MaxOpen = 1
    LossLimit = 5
    MaxLosses = 2
    Cooldown = 1
    Lifetime = 1
    DayLength = 2
    MaxTime = 2
    MaxMishaps = 1
    Mishaps = {"crash"}
INVARIANT EngineSafe
PROPERTY TradeRulesHold
SYMMETRY Twins
