SPECIFICATION FairSpec
CONSTANTS
  NoQuote = NoQuote
  Symbols = {s1, s2}
  Prices = {9, 12}
  HalfSpread = 0
  MaxSlip = 1
  Quantities = {1, 2}
  FeePerUnit = 1
  InitialBalance = 40
  MaxOpenPositions = 2
  MaxPositionsPerSymbol = 1
  MaxConsecutiveLosses = 2
  MaxExposurePct = 90
  MaxSymbolExposurePct = 60
  MaxCorrelationExposurePct = 80
  CorrelationGroups <- PairGroup
  Periods <- NoPeriods
  BreakerLoss = 6
  BreakerWindow = 1
  KillDrawdownPct = 10
  MaxTrades = 2
  MaxTime = 0
INVARIANTS
  CashConservation
  LimitsHold
PROPERTIES
  KillSwitchHolds
  KillFlattens
  ImplementsTradeBook
