CONSTANTS
  c1 = c1
  c2 = c2
  Clients = {c1, c2}
  NoClient = NoClient
  MaxClients = 1
  SndBuf = 1
  BodyUnits = 1
  Expire = 1
  Pipeliners = {}
  Resets = {c1}
  Kinds <- FoundOnly
  MaxSent <- OneEach
  Ticking = FALSE
  MaxRefused = 0
SPECIFICATION FairSpec
PROPERTIES EveryRequestAnswered SigintEndsServer
CHECK_DEADLOCK FALSE
