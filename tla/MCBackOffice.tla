----------------------------- MODULE MCBackOffice -----------------------------
EXTENDS BackOffice

Flags == {"qualification", "no_critical_drift", "broker"}

Live0 == [allowLive |-> TRUE, mode |-> "live", environment |-> "production",
          minTrades |-> 200, minDays |-> 30, minProfitFactor |-> 2, minSharpe |-> 1,
          maxDrawdown |-> 12, minCoverage |-> 80, maxCriticalErrors |-> 0,
          required |-> Flags, needsApproval |-> TRUE]

MCConfigs == {Live0}

Fine == [trades |-> 200, days |-> 30, profitFactor |-> {2}, sharpe |-> {2}, drawdown |-> {5},
         coverage |-> {80}, criticalErrors |-> 0,
         flags |-> [qualification |-> {TRUE}, no_critical_drift |-> {FALSE}, broker |-> {TRUE}],
         latency |-> {10}, load |-> {10}, riskBreach |-> FALSE]

MCWorlds == {Fine, [Fine EXCEPT !.coverage = {}, !.latency = {3000}]}

MCThresholds == [enabled |-> TRUE, latency |-> 2000, drawdown |-> 15, load |-> 95,
                 errors |-> 10, cycles |-> 2]

NightlyGate == [samples |-> 1, auc |-> 1, cv |-> 1, improvement |-> 0]

FoldReturns == -3..2

TradePnls == {-6, -2, 1, 5}

Subscriptions == [h1 |-> {"tick", "trade"}, h2 |-> {"trade"}]

SizedContracts == {[size |-> 1, least |-> 0, step |-> 0, most |-> 0],
                   [size |-> 100, least |-> 1, step |-> 1, most |-> 0],
                   [size |-> 1, least |-> 10, step |-> 10, most |-> 100]}

SizedRecords == {<<>>, <<6, 20>>, <<3, 10>>}

TradeOutcomes == {-1, 2}

HistoryRows == [signals |-> 3, decisions |-> 1]
===============================================================================
