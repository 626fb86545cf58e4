CONSTANTS
    SessionId = {s1, s2, s3}
    WindowId  = {w1, w2}
    MaxIdx    = 1
    MaxAlerts = 1
    ForkMayFail = FALSE
    NoWindow  = NoWindow
    BaseIndex = 1
    MaxStack  = 2
SPECIFICATION Spec
SYMMETRY Symmetry
CONSTRAINT Bounds
INVARIANTS TypeOK RefCount GroupWellFormed GroupShare CurrentLinked StackSound
PROPERTIES KillDone MateUnaffected IndependentCurrent
CHECK_DEADLOCK FALSE
