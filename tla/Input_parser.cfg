SPECIFICATION Spec
CONSTANTS
    Bursts <- Stream
    IntermMax = 1
    ParamMax = 4
    InputMax = 1
    ListMax = 3
    IntMax = 1049
    Numbers <- Typed
    Passthrough <- Prefix
    Screens <- Small
    Effects = 2
INVARIANT ParserSound
PROPERTIES Silent Refines
CHECK_DEADLOCK FALSE
