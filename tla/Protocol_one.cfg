CONSTANTS
    ClientId = {c1}
    Commands = {"attach", "new", "other", "shell", "old"}
    Suspends = TRUE
    Coalesce = FALSE
    ListFails = TRUE
    MaxQueue = 3
SPECIFICATION FairSpec
INVARIANTS TypeOK ReasonTrue SuspendSound
PROPERTY LeavingEnds
CHECK_DEADLOCK FALSE
