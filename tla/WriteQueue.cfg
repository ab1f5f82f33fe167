SPECIFICATION FairSpec
CONSTANTS
  c1 = c1
  c2 = c2
  c3 = c3
  tcp = tcp
  ws = ws
  Nobody = Nobody
  Serial = Serial
  Clients = {c1, c2, c3}
  Servers = {tcp, ws}
  WsServers = {ws}
  LowWater = 1
  HighWater = 2
  Limit <- LimitForAll
  Chunk = 2
  WatchFails = FALSE
INVARIANTS ArmedWhileQueued FeedersHeldBack OnlyBehindHoldsBack NothingDropped
PROPERTY ThreadStallNoticed
