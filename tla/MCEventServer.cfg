CONSTANTS
  c1 = c1
  c2 = c2
  Clients = {c1, c2}
  NoClient = NoClient
  MaxClients = 2
  SndBuf = 1
  BodyUnits = 1
  Expire = 1
  Pipeliners = {}
  Resets = {c2}
  Kinds <- AllThenFound
  MaxSent <- TwoThenOne
  Ticking = TRUE
  MaxRefused = 1
SPECIFICATION Spec
INVARIANTS AnswersInOrder TableExact NoLostEdge
CHECK_DEADLOCK FALSE
