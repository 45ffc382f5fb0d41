---------------------------- MODULE MCSignalFlow ----------------------------
EXTENDS SignalFlow

MCSymbolsOf    == [s \in Strategies |-> IF s = "sweep" THEN {} ELSE {"EURUSD"}]
MCCadence      == [s \in Strategies |-> IF s = "sweep" THEN "timer" ELSE "candle"]
MCDiscoverable == <<"sweep">>
MCDesk         == [groups |-> <<Instruments>>, window |-> 0, recent |-> 1]
=============================================================================
