SPECIFICATION FairSpec
CONSTANTS
  tcp = tcp
  tls = tls
  wa = wa
  wb = wb
  t1 = t1
  w1 = w1
  w2 = w2
  w3 = w3
  SocketServers = {tls}
  TlsServers = {tls}
  WsServers = {wa, wb}
  SocketClients = {t1}
  WsClients = {w1, w2}
  Layouts <- TwoEndpoints
  PortLimit = 2
  ServerLimit = 0
  SendRaises = TRUE
  RebuildFails = TRUE
  PairFails = TRUE
INVARIANTS AnnouncementMatchesDevice PortLimitKept
PROPERTY WaitersGetDevice
