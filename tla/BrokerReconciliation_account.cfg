SPECIFICATION FairSpec
CONSTANTS
  MaxPositionsPerSymbol = 1
  MaxTickets = 3
INVARIANTS
  BookIsKept
PROPERTIES
  ExternalCloseNoticed
