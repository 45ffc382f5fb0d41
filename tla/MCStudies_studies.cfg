SPECIFICATION StudySpec
CONSTANTS
  SwingSide = 1
  AtrPeriod = 3
  FvgMin = 30
  Displacement = 150
  Scan = 3
  Lookback = 3
  MaxBlocks = 2
  RecentBars = 3
  PullbackBars = 1
  OpeningBars = 3
  MinBars = 3
  SlopeBars = 1
  ShortAtr = 1
  LongAtr = 4
  Band = 20000
  Bins = 3
  Grain = 180
  Buckets = 2
  Charts <- MCCharts
  Shapes <- MCShapes
  WindowSize = 7
  MaxCandles = 9
  Trades <- MCTrades
  MaxTrades = 4
  Votes <- MCVotes
  MaxVotes = 3
  Ceiling = 10
  Contexts <- MCContexts
  Panel <- MCPanel
CHECK_DEADLOCK FALSE
INVARIANTS
  StudiesHold
PROPERTIES
  NothingIsRewritten
