SPECIFICATION Spec
CONSTANTS
  NoQuote = NoQuote
  Symbols = {s1}
  Prices = {9, 12}
  HalfSpread = 0
  MaxSlip = 0
  Quantities = {1}
  FeePerUnit = 0
  InitialBalance = 40
  MaxOpenPositions = 2
  MaxPositionsPerSymbol = 3
  MaxConsecutiveLosses = 2
  MaxExposurePct = 100
  MaxSymbolExposurePct = 100
  MaxCorrelationExposurePct = 100
  CorrelationGroups <- NoGroups
  Periods <- DayAndWeek
  BreakerLoss = 3
  BreakerWindow = 2
  KillDrawdownPct = 0
  MaxTrades = 3
  MaxTime = 4
INVARIANTS
  BooksHold
PROPERTIES
  BreakerCoolsDown
  StreakLockout
