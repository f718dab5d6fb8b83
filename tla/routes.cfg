\* Four worlds of at most four pools; two of three V4 bridges are kept.
SPECIFICATION Spec
CONSTANTS
  none = none
  Worlds <- Protocols
  MaxDepth = 2
  MaxCandidates = 2
INVARIANTS
  TypeOK
  RoutesLead
  BookedIsReceived
PROPERTIES
  NoBetterBridge
