---------------------------- MODULE MetaGovernance ----------------------------
(* The hourly verdict on the strategies (app/ml: meta/manager.py,            *)
(* services/strategy_intelligence.py, services/stats.py): a score from the   *)
(* journal, a weight that follows it, and an end to those that fail several  *)
(* times running.                                                            *)
(*                                                                           *)
(* A trade is its R multiple, its profit the same.  Rates, scores and        *)
(* weights are in thousandths.                                               *)
EXTENDS Integers, Sequences, FiniteSets, Functions

CONSTANTS
    Labelled,      \* strategies the journal names
    Outcomes,      \* of a trade, in R
    Lookback,      \* lookback_trades
    MinEvaluated,  \* min_trades
    DisableAfter,  \* disable_after_periods
    LongestRecord, \* bound: trades of a strategy
    MaxVerdicts    \* bound: evaluations

ASSUME MetaAssumption ==
    /\ Outcomes \subseteq Int
    /\ Lookback \in Nat \ {0} /\ MinEvaluated \in Nat /\ DisableAfter \in Nat \ {0}

VARIABLES
    record,        \* the trades of each strategy, in order of exit
    weight,        \* MetaStrategyManager._weights, or 0: none yet
    active,        \* _active
    failures,      \* _fail_counts
    verdicts       \* history: what each evaluation since the start found

metaVars == <<record, weight, active, failures, verdicts>>

MinWeight == 100
MaxWeight == 2000

Least(a, b) == IF a < b THEN a ELSE b
Clamp(x, low, high) == IF x < low THEN low ELSE IF x > high THEN high ELSE x

-----------------------------------------------------------------------------
(* Scores. *)

Won(trades) == {i \in DOMAIN trades : trades[i] > 0}
Lost(trades) == {i \in DOMAIN trades : trades[i] < 0}

(* Nothing lost: one if anything was won.                                    *)
ProfitFactor(trades) ==
    LET won  == SumFunctionOnSet(trades, Won(trades))
        lost == -SumFunctionOnSet(trades, Lost(trades))
    IN  IF lost > 0 THEN (1000 * won) \div lost ELSE IF won > 0 THEN 1000 ELSE 0

Expectancy(trades) ==
    IF trades = <<>> THEN 0
    ELSE (1000 * SumFunctionOnSet(trades, DOMAIN trades)) \div Len(trades)

WinRate(trades) == (1000 * Cardinality(Won(trades))) \div Len(trades)

Recent(trades) == SubSeq(trades, Len(trades) - Least(Lookback, Len(trades)) + 1, Len(trades))

(* Six parts of what is recent to four of everything.                        *)
Blend(recent, all) == (6 * recent + 4 * all) \div 10

Score(trades) ==
    LET expectancy == Blend(Expectancy(Recent(trades)), Expectancy(trades))
        factor     == Blend(ProfitFactor(Recent(trades)), ProfitFactor(trades))
    IN  Clamp(50000 + 30 * Clamp(expectancy, -1000, 1000)
                    + 12 * Clamp(factor - 1000, -1000, 1500)
                    + 16 * (WinRate(trades) - 500), 0, 100000)

IsDegraded(trades) ==
    /\ Len(trades) >= MinEvaluated
    /\ Expectancy(Recent(trades)) < -50 \/ ProfitFactor(Recent(trades)) < 900

TargetWeight(trades) == MinWeight + ((MaxWeight - MinWeight) * (Score(trades) \div 100)) \div 1000

-----------------------------------------------------------------------------
(* Steps. *)

MetaInit ==
    /\ record = [s \in Labelled |-> <<>>]
    /\ weight = [s \in Labelled |-> 0]
    /\ active = [s \in Labelled |-> TRUE]
    /\ failures = [s \in Labelled |-> 0]
    /\ verdicts = [s \in Labelled |-> <<>>]

TradeLabelled(s, r) ==
    /\ Len(record[s]) < LongestRecord
    /\ record' = [record EXCEPT ![s] = Append(@, r)]
    /\ UNCHANGED <<weight, active, failures, verdicts>>

FailuresAfter(s) == IF IsDegraded(record[s]) THEN failures[s] + 1 ELSE 0

(* Half the way to the target.                                               *)
Previous(s) == IF weight[s] = 0 THEN 1000 ELSE weight[s]
Smoothed(s) ==
    Clamp(Previous(s) + (TargetWeight(record[s]) - Previous(s)) \div 2, MinWeight, MaxWeight)

DisabledWeight(s) == MinWeight

(* One cycle judges every strategy the journal names.                        *)
RunMetaEvaluation ==
    LET judged == {s \in Labelled : record[s] # <<>>}
    IN  /\ \A s \in judged : Len(verdicts[s]) < MaxVerdicts
        /\ judged # {}
        /\ failures' = [s \in Labelled |-> IF s \in judged THEN FailuresAfter(s) ELSE failures[s]]
        /\ active' = [s \in Labelled |-> IF s \in judged THEN failures'[s] < DisableAfter ELSE active[s]]
        /\ weight' = [s \in Labelled |-> IF s \notin judged THEN weight[s]
                                         ELSE IF active'[s] THEN Smoothed(s) ELSE DisabledWeight(s)]
        /\ verdicts' = [s \in Labelled |->
                           IF s \in judged THEN Append(verdicts[s], IsDegraded(record[s]))
                           ELSE verdicts[s]]
        /\ UNCHANGED record

(* The journal is kept; nothing of the governance is.                        *)
RestartMeta ==
    /\ weight' = [s \in Labelled |-> 0]
    /\ active' = [s \in Labelled |-> TRUE]
    /\ failures' = [s \in Labelled |-> 0]
    /\ verdicts' = [s \in Labelled |-> <<>>]
    /\ UNCHANGED record

MetaNext ==
    \/ \E s \in Labelled, r \in Outcomes : TradeLabelled(s, r)
    \/ RunMetaEvaluation
    \/ RestartMeta

MetaSpec == MetaInit /\ [][MetaNext]_metaVars

-----------------------------------------------------------------------------
(* Properties. *)

MetaTypeOK ==
    \A s \in Labelled :
        /\ weight[s] \in {0} \cup MinWeight..MaxWeight
        /\ active[s] \in BOOLEAN /\ failures[s] \in 0..Len(verdicts[s])
        /\ \A i \in DOMAIN record[s] : record[s][i] \in Outcomes

(* A strategy is disabled exactly when its last verdicts, as many as it      *)
(* takes, were all bad: one good one is a fresh start (manager.py:85-128).   *)
DisabledOnARow ==
    \A s \in Labelled :
        LET n == Len(verdicts[s])
        IN  active[s] = ~(n >= DisableAfter /\ \A i \in n - DisableAfter + 1..n : verdicts[s][i])

(* No strategy weighs less than a disabled one (manager.py:92-105).          *)
DisabledWeighsLeast == \A s \in Labelled : ~active[s] => weight[s] = MinWeight

(* Of two active strategies judged together, the one with the better score   *)
(* that weighed no less does not come out lighter (manager.py:98-105).       *)
BetterIsNotLighter ==
    [][\A s, t \in Labelled :
          LET Judged(u) == Len(verdicts'[u]) > Len(verdicts[u]) /\ active'[u]
          IN  ( /\ Judged(s) /\ Judged(t)
                /\ Score(record[s]) >= Score(record[t]) /\ Previous(s) >= Previous(t) )
              => weight'[s] >= weight'[t]]_metaVars
===============================================================================
