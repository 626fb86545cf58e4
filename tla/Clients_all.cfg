CONSTANTS
    SessionId = {1, 2}
    Name      = {1, 2}
    ClientId  = {c1, c2}
    Together = FALSE
    OptionType <- TwoKinds
    GlobalDetach  = TRUE
SPECIFICATION FairSpec
INVARIANTS TypeOK PointersAlive UnattachedHasNoClient
PROPERTIES NoClientLeftBehind DeadFreed
