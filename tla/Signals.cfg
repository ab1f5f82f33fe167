SPECIFICATION Spec
CONSTANTS
    c1 = c1
    c2 = c2
    c3 = c3
    w1 = w1
    w2 = w2
    Lines = {"cts", "rts"}
    Endpoints = {"e", "f"}
    Clients = {c1, c2, c3}
    Watchers = {w1, w2}
    Outputs = {"rts"}
    Reports <- TwoSets
    At <- Home
    Debug = FALSE
    Blips = FALSE
    Hasty = TRUE
SYMMETRY Alike
INVARIANTS ClientsKnowLines ClosedIsDark
