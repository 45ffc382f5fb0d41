SPECIFICATION Spec
CONSTANTS
  Symbols = {btc, eth, xau}
  Configured = {btc, xau}
  Prepared = {xau}
  BookSymbol = btc
  Venues = {"binance", "okx", "bybit"}
  MaxRetries = 2
  QueueSize = 2
  MaxVersion <- MCVersions
  MaxFaults <- MCFaults
CHECK_DEADLOCK FALSE
INVARIANTS
  BookIsWhole
  ServedAsShown
PROPERTIES
  MarketRecovers
