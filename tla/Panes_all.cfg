CONSTANTS
    WindowId = {w1, w2}
    PaneId   = {p1, p2, p3, p4}
    NoPane   = NoPane
    NoWindow = NoWindow
    Behind   = FALSE
    Small    = TRUE
SPECIFICATION Spec
SYMMETRY Symmetry
INVARIANTS PanesSound ActiveOwned
PROPERTIES FallBackToLastPane
CHECK_DEADLOCK FALSE
