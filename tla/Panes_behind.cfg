CONSTANTS
    WindowId = {w1, w2}
    PaneId   = {p1, p2, p3, p4}
    NoPane   = NoPane
    NoWindow = NoWindow
    Behind   = TRUE
    Small    = FALSE
SPECIFICATION Spec
SYMMETRY Symmetry
INVARIANT ActiveOwned
CHECK_DEADLOCK FALSE
