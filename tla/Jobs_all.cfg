CONSTANTS
    JobId = {j1, j2}
    ClientId = {c1}
    Line = {"l1"}
    Leftovers = TRUE
    MaxReferences = 3
    NoJob = NoJob
SPECIFICATION FairSpec
INVARIANT JobSound
PROPERTY JobsEnd
CHECK_DEADLOCK FALSE
