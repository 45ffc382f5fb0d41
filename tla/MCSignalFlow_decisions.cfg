SPECIFICATION FlowSpec
CONSTANTS
  Instruments = {"EURUSD", "GBPUSD"}
  Strategies = {"trend", "sweep"}
  SymbolsOf <- MCSymbolsOf
  Cadence <- MCCadence
  Discoverable <- MCDiscoverable
  Desk <- MCDesk
  Silent = {"EURUSD"}
  MinSignals = 1
  TTL = 0
  MaxSignals = 2
  MaxInstances = 2
  MaxRuns = 2
  MaxTime = 1
INVARIANTS
  DecisionsHold
PROPERTIES
  NothingLingers
