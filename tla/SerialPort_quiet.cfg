SPECIFICATION FairSpec
CONSTANTS
  tcp = tcp
  tls = tls
  wa = wa
  wb = wb
  t1 = t1
  w1 = w1
  w2 = w2
  w3 = w3
  SocketServers = {tcp, tls}
  TlsServers = {tls}
  WsServers = {wa, wb}
  SocketClients = {t1}
  WsClients = {w1, w2, w3}
  Layouts <- AllKinds
  PortLimit = 2
  ServerLimit = 2
  SendRaises = FALSE
  RebuildFails = FALSE
  PairFails = FALSE
INVARIANTS HeldWhileOpen ClientsKnowDevice SocketClientsHaveDevice
PROPERTIES NewsOnly DeadDoNotHold
