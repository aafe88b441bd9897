CONSTANTS
  c1 = c1
  c2 = c2
  Clients = {c1}
  NoClient = NoClient
  MaxClients = 1
  SndBuf = 4
  BodyUnits = 1
  Expire = 1
  Pipeliners = {c1}
  Resets = {}
  Kinds <- FoundOnly
  MaxSent <- TwoEach
  Ticking = FALSE
  MaxRefused = 0
SPECIFICATION FairSpec
PROPERTIES PipelinedAnswered
CHECK_DEADLOCK FALSE
