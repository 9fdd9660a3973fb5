SPECIFICATION MeFairSpec
CONSTANTS
    MaxEvent = 1
    MeFreeze = 0
    MeHorizon = 1
    MePageSize = 1
    Phase1Attempts = 2
    SendStop = TRUE
    MaxTime = 2
PROPERTY
    StopIsHonoured
CHECK_DEADLOCK FALSE
