SPECIFICATION Spec
CONSTANTS
    PaneId  = {p1, p2, p3}
    NoPane  = NoPane
    Windows <- Sizes
    Hints   <- Half
    Steps   <- EitherWay
    Mains   <- Options
    Dumps   <- Shown3
    MaxCells = 3
    Tight   = FALSE
SYMMETRY Symmetry
INVARIANTS LayoutSound BordersDrawn
PROPERTY CloseGrows
CHECK_DEADLOCK FALSE
