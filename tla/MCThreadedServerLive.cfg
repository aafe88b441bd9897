CONSTANTS
  Workers = {w1, w2}
  Clients = {a, s}
  NoClient = NoClient
  Main = Main
  Nobody = Nobody
  QSize = 1
  MaxFds = 2
  MaxRequests = 1
  MaxSigints = 1
  MaxLost = 0
  Stubborn = {s}
SPECIFICATION FairSpec
PROPERTIES EveryClientTaken RestShutdownEnds
CHECK_DEADLOCK FALSE
