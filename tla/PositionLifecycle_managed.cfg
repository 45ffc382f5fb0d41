SPECIFICATION FairSpec
CONSTANTS
  NoLevel = NoLevel
  NoAtr = NoAtr
  Entry = 10
  Marks = {7, 8, 9, 10, 11, 12, 13}
  InitialStops = {8, 10, 12, NoLevel}
  Targets = {7, 13, NoLevel}
  Distances = {1, 2, NoAtr}
  ManualStops = {9}
  BreakEvenR = 1
  TrailingEnabled = TRUE
  TrailingR = 1
  MaxHolding = 2
  ExitOnRegimeChange = TRUE
  MinRegimeAge = 1
  Confirmations = 2
  MaxAge = 3
  MaxReadings = 3
CHECK_DEADLOCK FALSE
INVARIANTS
  StopProtects
  RegimeExitConfirmed
PROPERTIES
  StopNeverLoosens
  HoldingBounded
