SPECIFICATION TapeSpec
CONSTANTS
  Modes = {"trades", "quotes", "bars"}
  Bucket = 2
  Grace = 1
  FutureTolerance = 0
  MaxJump = 1
  Prices = {0, 1, 3}
  Remembered = 1
  HistoryLimit = 3
  BufferLimit = 1
  BatchSize = 1
  MaxClock = 5
  MaxSent = 2
  WarmUp = 1
  MaxFailures = 1
CHECK_DEADLOCK FALSE
INVARIANTS
  TapeIsWhole
PROPERTIES
  TapeMovesOn
