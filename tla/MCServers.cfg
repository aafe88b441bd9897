SPECIFICATION MCSpec
CONSTANTS
  Clients = {c1, c2}
  MaxLines = 2
  None = None
  MaxForkFailures = 1
  Stubborn = {c1}
  p1 = p1
  p2 = p2
  Peers = {p1, p2}
  Nobody = Nobody
  MaxUnits <- MCUnits
  SndBuf = 1
  MaxRefusals = 1
  MaxRequests = 2
  Blocks = 2
INVARIANTS EchoedInOrder EchoKept AnswersRight
PROPERTIES ConnectionsEnd ChildrenReaped EveryByteEchoed RequestsAnswered
CHECK_DEADLOCK FALSE
