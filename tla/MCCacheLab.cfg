SPECIFICATION MCSpec
CONSTANTS
  WordBits = 5
  Settings <- MCSettings
  Addresses <- MCAddresses
  MaxAccesses = 6
  Shapes <- MCShapes
INVARIANTS
  TransposeExact
  MissesWithinTarget
PROPERTIES
  ImplementsCache
  EvictsOldest
\* A trace ends, and so does a kernel.
CHECK_DEADLOCK FALSE
