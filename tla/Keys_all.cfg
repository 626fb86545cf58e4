SPECIFICATION Spec
CONSTANTS
    Words = {"y", "confirm"}
    Known = {"confirm"}
    Buffer <- Pasted
    PromptHistory = 1
    MaxLine = 1
    Key = {"C-b", "Up", "x", "0"}
    Prefix = {"C-b"}
    Digit = {"0"}
    Table <- Bindings
    Rebound <- PrefixedX
    Answer <- Yes
    Confirmed <- YesRuns
    ReadOnlyWords = {}
    Others = {"message", "prompt", "unbindall"}
    Clients <- Kinds
    Pane = {p1, p2}
    Bottom = {p2}
    RepeatTime = 500
    MaxEvents = 2
    NoPrompt = NoPrompt
INVARIANTS TerminalSound PromptSound RunningLive
PROPERTIES PrefixKept ConfirmAsks
