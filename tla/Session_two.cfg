CONSTANTS
    SessionId = {s1, s2}
    WindowId  = {w1}
    MaxIdx    = 3
    MaxAlerts = 0
    ForkMayFail = FALSE
    NoWindow  = NoWindow
    BaseIndex = 1
    MaxStack  = 2
SPECIFICATION FairSpec
CONSTRAINT Bounds
PROPERTIES FallBackToLast KillEnds
CHECK_DEADLOCK FALSE
