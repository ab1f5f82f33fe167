CONSTANTS
    c1 = c1
    c2 = c2
    Clients = {c1, c2}
    Protocol = "TLS"
    Limit = 2
    MaxConnections = 1
    Backlog = 2
    RegisterFails = FALSE
SPECIFICATION FairSpec
INVARIANTS InterestFollows NoHoles NothingStranded
PROPERTY SlowAreDropped
