CONSTANTS
  Workers = {w1, w2}
  Clients = {a, b, c}
  NoClient = NoClient
  Main = Main
  Nobody = Nobody
  QSize = 2
  MaxFds = 2
  MaxRequests = 0
  MaxSigints = 1
  MaxLost = 1
  Stubborn = {}
SPECIFICATION Spec
SYMMETRY Symmetry
INVARIANTS PermitsConserved LockHeld OneHolder
PROPERTIES ServesInOrder
CHECK_DEADLOCK FALSE
