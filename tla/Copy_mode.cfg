SPECIFICATION Spec
CONSTANTS
    Start <- Scenes
    Widths = {2, 4}
    Heights = {4, 5}
    Counts = {1, 2}
    Depth = 3
    Repeats = {2}
    Meddle = FALSE
INVARIANTS ScreenSound CopySound
PROPERTY AlternateKeepsHistory
CHECK_DEADLOCK FALSE
