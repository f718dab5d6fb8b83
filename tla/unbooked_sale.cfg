\* A V2 pool whose reserves go after the sale, and a restart before the receipt.
SPECIFICATION Spec
CONSTANTS
  none = none
  Worlds <- Protocols
  MaxDepth = 1
  MaxCandidates = 2
INVARIANTS
  SoldIsReadable
