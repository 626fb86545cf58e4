CONSTANTS
    SessionId = {s1, s2}
    WindowId  = {w1}
    MaxIdx    = 3
    MaxAlerts = 0
    ForkMayFail = TRUE
    NoWindow  = NoWindow
    BaseIndex = 0
    MaxStack  = 0
SPECIFICATION Spec
SYMMETRY Symmetry
CONSTRAINT Bounds
INVARIANT TodoSound
CHECK_DEADLOCK FALSE
