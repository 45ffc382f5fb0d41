SPECIFICATION Spec
CONSTANTS
  Configs <- MCConfigs
  Worlds <- MCWorlds
  Thresholds <- MCThresholds
  MaxAge = 0
  Ttl = 1
  CutOff = {1}
  Hours = 1
  MaxGrants = 1
  MaxEntries = 2
  MaxCrashes = 1
  Sources = {s1, s2}
  Beside = {s1}
  Workers = {w1, w2}
  Retention = 1
  Seconds = 2
  Generations = 1
  Hot = {h}
  Cold = {c}
  Foreign = {f}
  Strategies = {st}
  Values = {v0, v1}
  Default = v0
  Junk = junk
  Kinds = {"tree", "voting"}
  Serialisable = {"tree"}
  Aucs = {1, 2}
  Cvs = {0, 1}
  MinTraining = 1
  Gate <- NightlyGate
  AutoActivate = {TRUE, FALSE}
  AucDrop = 1
  StackLimit = 1
  MaxTrades = 1
  MaxModels = 2
  Jobs = {j1}
  Requests = {q}
  ReplayWorkers = 1
  Bars = 5
  Parts = 2
  Wall = wall
  Series = {0, 1, 2, 3, 4, 5, 6, 7, 8}
  Sizes = {1, 2, 3}
  Returns <- FoldReturns
  MaxFolds = 5
  Pnls <- TradePnls
  MaxPath = 4
  Capital = 10
  RuinPct = 50
  Times = {1, 2}
  Closes = {1, 2}
  MaxRows = 3
  Required = {"risk"}
  BatchSizes = {2}
  MinDays = 1
  MaxGenomes = 2
  MaxDays = 1
  Conclusions = {"", "held"}
  Keys = {"k"}
  MaxExperiments = 2
  Handlers = {"h1", "h2"}
  EventKinds = {"tick", "trade"}
  Wants <- Subscriptions
  MaxQueue = 2
  MaxEvents = 3
  Equities = {4000, 40000, 400000}
  Methods = {"fixed_amount", "percent", "kelly", "dynamic_risk", "fixed_risk"}
  Contracts <- SizedContracts
  Atrs = {0, 2, 200}
  Spreads = {0, 1, 2}
  Confidences = {0, 3}
  Records <- SizedRecords
  ExposurePct = 50
  MaxHeld = 4
  Quantities = {1, 2}
  Groups = {g1, g2}
  MaxOrders = 3
  Labelled = {l1, l2}
  Outcomes <- TradeOutcomes
  Lookback = 1
  MinEvaluated = 1
  DisableAfter = 2
  LongestRecord = 3
  MaxVerdicts = 3
  SeenLimit = 1
  Window = 2
  Holding = 2
  MaxSignals = 2
  MaxCandles = 3
  Callers = {f1, f2}
  Features = {bands, slope}
  Bands = bands
  Drawn = {slope}
  KeptFor = 2
  OutsideFor = 2
  MaxInstant = 2
  MemoryLimit = 2
  BatchSize = 1
  RowLimit <- HistoryRows
CHECK_DEADLOCK FALSE
INVARIANTS
  LiveIsGuarded
  FilesAgree
  BestModelAdvises
  ReplaysAreHonest
  ResearchRemembers
  NewsIsTimely
  OrdersAddUp
  VerdictsAddUp
PROPERTIES
  StepsAreEarned
  QueueDrains
