SPECIFICATION DnsSpec
CONSTANTS
  Names <- MCNames
  Labels <- MCLabels
  Addresses = {"a1", "a2", "a3"}
  None = None
  Databases <- MCDatabases
  MaxTime = 1
  MaxDuplicates = 1
  Resolvers = {r1, r2}
  Ports = {p1}
  Typed <- MCTyped
  Servers = {"server", "upstream"}
  Zone <- MCZone
  Glue <- MCGlue
  OtherRequests <- MCOtherRequests
INVARIANTS
  AnswerIsChain
  NegativeSound
  AddressOfName
PROPERTIES
  ResolverEnds
\* A resolver whose datagram was lost waits for ever.
CHECK_DEADLOCK FALSE
