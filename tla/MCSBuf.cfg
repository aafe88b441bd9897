CONSTANTS
  Producers = {p1, p2}
  Consumers = {c1, c2}
  Items = {a, b}
  NoItem = NoItem
  N = 2
  INT_MAX = 7
  MaxCalls = 4
SPECIFICATION FairSpec
INVARIANTS TypeOK MutualExclusion PermitsConserved NoOverrun
PROPERTIES ImplementsFifo FifoProgress
CHECK_DEADLOCK FALSE
