CONSTANTS
  Producers = {m}
  Consumers = {w1, w2}
  Items = {c, s}
  NoItem = NoItem
  N = 1
  INT_MAX = 7
  MaxCalls = 2
  Stubborn = {s}
  MaxLines = 1
SPECIFICATION EchoFairSpec
INVARIANTS OneOwner CountExact
PROPERTIES EveryClientServed
CHECK_DEADLOCK FALSE
