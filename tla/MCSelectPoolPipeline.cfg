CONSTANTS
  Clients = {a}
  FdSetSize = 4
  Listen = 1
  OpenMax = 4
  Pipeliners = {a}
  Resets = {}
  MaxLines = 2
SPECIFICATION Spec
INVARIANTS BytesCounted
CHECK_DEADLOCK FALSE
