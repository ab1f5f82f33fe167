SPECIFICATION StatusFairSpec
CONSTANTS
    Pages = {p1}
    Credentials = {c1}
    NoCredential = NoCredential
    PortIds = {"a", "b", "c"}
    States = {0, 1}
    MaxReported = 2
    Watched = "a"
    Modes = {"all", "filter"}
    Demotions = TRUE
INVARIANT PagesHoldDelivered
PROPERTIES PagesCatchUp RevokedStreamsEnd
