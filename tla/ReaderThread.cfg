SPECIFICATION FairSpec
CONSTANTS
    MaxOpens = 3
    MaxSaid = 3
    PairSize = 1
    Stuck = FALSE
    PairFails = TRUE
INVARIANT OwnDevice
PROPERTIES IsLink LossNoticed
CHECK_DEADLOCK FALSE
