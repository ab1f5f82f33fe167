SPECIFICATION Spec
CONSTANTS
    b1 = b1  b2 = b2  s1 = s1  s2 = s2
    Bundles = {b1, b2}
    Pairs = {x, y}
    Servers = {s1, s2}
    BundleOf <- SameBundle
    Mutual = {s2}
    Junk = Junk  Missing = Missing  NoBundle = NoBundle
    Stopped = Stopped  Nobody = Nobody
    WritesFail = TRUE
    Outsiders = TRUE
    Racing = FALSE
SYMMETRY PairsAlike
INVARIANTS ServesWithItsKey ClientsAreVerified
