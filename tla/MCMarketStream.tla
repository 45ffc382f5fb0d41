--------------------------- MODULE MCMarketStream ---------------------------
EXTENDS MarketStream

MCVersions == [v \in Venues |-> 3]
MCFaults   == [v \in Venues |-> IF v = "binance" THEN 2 ELSE 1]
=============================================================================
