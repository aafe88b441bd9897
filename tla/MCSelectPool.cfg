CONSTANTS
  Clients = {a, b, c}
  FdSetSize = 4
  Listen = 1
  OpenMax = 4
  Pipeliners = {}
  Resets = {a}
  MaxLines = 1
SPECIFICATION FairSpec
INVARIANTS PoolExact NreadyExact ReadyHasData EchoExact
PROPERTIES EveryLineEchoed
CHECK_DEADLOCK FALSE
