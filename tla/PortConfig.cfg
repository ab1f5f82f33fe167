SPECIFICATION Spec
CONSTANTS
    Cores = {"a", "b"}
    Rests = {"x", "y"}
    MaxPorts = 2
    MaxHttp = 2
    Requests <- Asked
    Files <- HandWritten
    StartFails = TRUE
    SaveFails = TRUE
INVARIANTS Paired RestartKeepsConfig MonitorsWatchListed
PROPERTY NoLostUpdate
