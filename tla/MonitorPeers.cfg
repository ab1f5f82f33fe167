SPECIFICATION MonitorFairSpec
CONSTANTS
    p1 = p1
    p2 = p2
    p3 = p3
    w1 = w1
    w2 = w2
    Peers = {p1, p2, p3}
    Watchers = {w1, w2}
    LastSlot = 2
    Faults = {TRUE, FALSE}
INVARIANTS FramesNameTheirWriter PagesComplete
PROPERTY PeersAreShown
