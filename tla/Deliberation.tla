---------------------------- MODULE Deliberation ----------------------------
(***************************************************************************)
(* What a decision is computed from: the consensus of the signals, the     *)
(* confidence in it, the reading of the market it is given and the filters *)
(* that may veto it (src/app/engine: consensus, confidence, scoring,       *)
(* market_context, regime_detection, filters, validators, state_manager).  *)
(*                                                                         *)
(* Everything here is a function of its arguments.  Scores run over        *)
(* 0..100, fractions are given in hundredths, performance factors and      *)
(* regime multipliers in tenths, prices in ticks; what the code rounds is  *)
(* cut at the hundredth.                                                   *)
(***************************************************************************)
EXTENDS Integers, Sequences, FiniteSets, FiniteSetsExt, SequencesExt

Total(Op(_), S) == MapThenSumSet(Op, S)
Least(S) == Min(S)
Greatest(S) == Max(S)
Magnitude(n) == IF n < 0 THEN -n ELSE n
Clamped(low, high, n) == Greatest({low, Least({high, n})})

Directions == {"LONG", "SHORT", "NEUTRAL"}
Sign(d) == CASE d = "LONG" -> 1 [] d = "SHORT" -> -1 [] OTHER -> 0
Opposite(d) == CASE d = "LONG" -> "SHORT" [] d = "SHORT" -> "LONG" [] OTHER -> d

-----------------------------------------------------------------------------
(* Consensus.  A method sees the signals that have a direction and a weight  *)
(* for each strategy; "direction" NEUTRAL means nobody won.                  *)

Voters(signals) == {i \in DOMAIN signals : signals[i].direction # "NEUTRAL"}
Side(signals, d) == {i \in DOMAIN signals : signals[i].direction = d}
Score(signal) == Clamped(0, 100, signal.score)
AddUp(f, S) == SumFunctionOnSet(f, S)
Unanimous(d, score, agreement, n) ==
    [direction |-> d, score |-> score, agreement |-> agreement, voters |-> n]
Nobody == Unanimous("NEUTRAL", 0, 0, 0)

(* A vote won by the side with the better mean score.                        *)

MajorityVoting(signals) ==
    LET total  == Cardinality(Voters(signals))
        n      == [d \in {"LONG", "SHORT"} |-> Cardinality(Side(signals, d))]
        winner == IF n["LONG"] > n["SHORT"] THEN "LONG" ELSE "SHORT"
        of     == [i \in Voters(signals) |-> Score(signals[i])]
    IN  CASE total = 0 -> Nobody
          [] total # 0 /\ n["LONG"] = n["SHORT"] -> Unanimous("NEUTRAL", 0, 50, total)
          [] OTHER -> Unanimous(winner,
                        (100 * AddUp(of, Side(signals, winner))) \div n[winner],
                        (100 * n[winner]) \div total, total)

(* What each voter puts into the scale.                                      *)
Stake(signals, weight) == [i \in Voters(signals) |-> weight[signals[i].strategy]]

(* A vote by weight: nobody wins a tie.                                      *)

WeightedVoting(signals, weight) ==
    LET w      == Stake(signals, weight)
        of     == [i \in Voters(signals) |-> Score(signals[i]) * w[i]]
        mass   == [d \in {"LONG", "SHORT"} |-> AddUp(w, Side(signals, d))]
        total  == mass["LONG"] + mass["SHORT"]
        winner == IF mass["LONG"] > mass["SHORT"] THEN "LONG" ELSE "SHORT"
    IN  IF total =< 0 \/ mass["LONG"] = mass["SHORT"]
        THEN Nobody
        ELSE Unanimous(winner,
               (100 * AddUp(of, Side(signals, winner))) \div mass[winner],
               (100 * mass[winner]) \div total, Cardinality(Voters(signals)))

(* Longs add, shorts subtract.                                               *)
Signed(signals, weight) ==
    [i \in Voters(signals) |->
        Sign(signals[i].direction) * Score(signals[i]) * Stake(signals, weight)[i]]

(* The three averages differ in the weights they give (below): the sign of   *)
(* the mean is the direction.                                                *)
WeightedAverage(signals, weight) ==
    LET w         == Stake(signals, weight)
        total     == AddUp(w, Voters(signals))
        value     == AddUp(Signed(signals, weight), Voters(signals))
        n         == Cardinality(Voters(signals))
        winner    == CASE value > 0 -> "LONG" [] value < 0 -> "SHORT" [] OTHER -> "NEUTRAL"
    IN  CASE total =< 0 -> Nobody
          [] total > 0 /\ value = 0 -> Unanimous("NEUTRAL", 0, 50, n)
          [] OTHER -> Unanimous(winner, (100 * Magnitude(value)) \div total,
                        (100 * AddUp(w, Side(signals, winner))) \div total, n)

(* How a strategy has fared: the share of its signals that were accepted,    *)
(* neutral until five were judged.                                           *)
PerformanceFactor(accepted, rejected) ==
    IF accepted + rejected < 5 THEN 5 ELSE (10 * accepted) \div (accepted + rejected)

DynamicWeights(weight, performance) ==
    [s \in DOMAIN weight |-> weight[s] * (5 + performance[s])]

RegimeWeights(weight, multipliers, regime) ==
    [s \in DOMAIN weight |->
        weight[s] * (IF <<regime, s>> \in DOMAIN multipliers
                     THEN multipliers[<<regime, s>>] ELSE 10)]

Methods == {"majority_voting", "weighted_voting", "weighted_average",
            "dynamic_weighting", "regime_weighting"}

(* "desk" is what the consensus engine is configured with.                   *)
Consensus(method, signals, desk) ==
    CASE method = "majority_voting" -> MajorityVoting(signals)
      [] method = "weighted_voting" -> WeightedVoting(signals, desk.weight)
      [] method = "weighted_average" -> WeightedAverage(signals, desk.weight)
      [] method = "dynamic_weighting" ->
            WeightedAverage(signals, DynamicWeights(desk.weight, desk.performance))
      [] method = "regime_weighting" ->
            WeightedAverage(signals, RegimeWeights(desk.weight, desk.multipliers, desk.regime))

-----------------------------------------------------------------------------
(* The market as the decision sees it.  "staleness" is -1 when no datum has  *)
(* ever arrived, "atr" and "spread" are -1 when there is nothing to measure. *)

Volatility(market, limits) ==
    CASE market.atr >= 0 /\ market.atr >= limits.atrHigh -> "HIGH"
      [] market.atr >= 0 /\ market.atr =< limits.atrLow -> "LOW"
      [] OTHER -> "NORMAL"

(* A session whose start is after its end runs over midnight.                *)
InSession(hour, start, end) ==
    \/ start =< hour /\ hour < end
    \/ start > end /\ (hour >= start \/ hour < end)

InBlackout(now, blackouts) ==
    \E b \in blackouts : b.start < b.end /\ b.start =< now /\ now =< b.end

DataQuality(market, limits) ==
    LET linked == IF market.connected THEN 100 ELSE 50
        over   == (100 * market.staleness) \div limits.stale
        late   == IF market.staleness > limits.stale
                  THEN Least({50, (over - 100) \div 4}) ELSE 0
    IN  IF market.staleness = -1 THEN 0 ELSE Clamped(0, 100, linked - late)

SpreadElevated(market, limits) == market.spread > limits.spread
VolumeSufficient(market, limits) == market.volume = -1 \/ market.volume >= limits.volume

(* A window of closed candles, oldest first: how efficiently the price went  *)
(* where it went, whether it left its recent range, whether it turned.       *)
Regime(candles, limits) ==
    LET n         == Len(candles)
        close(i)  == candles[i].close
        range(i)  == candles[i].high - candles[i].low
        step(i)   == Magnitude(close(i + 1) - close(i))
        net       == Magnitude(close(n) - close(1))
        path      == Total(step, 1 .. n - 1)
        efficient == path > 0 /\ 100 * net >= limits.trending * path
        atr       == Total(range, 1 .. n)
        prior     == n - Least({limits.lookback, n - 1}) .. n - 1
        up        == close(n) > Greatest({candles[i].high : i \in prior})
        down      == close(n) < Least({candles[i].low : i \in prior})
        half      == n \div 2 + 1
        first     == close(half) - close(1)
        last      == close(n) - close(half)
        turned    == /\ ~efficient
                     /\ n * Magnitude(first) > atr
                     /\ 2 * n * Magnitude(last) > atr
                     /\ (first > 0) # (last > 0)
    IN  CASE n < limits.enough -> "UNKNOWN"
          [] up \/ down -> "BREAKOUT"
          [] turned -> "REVERSAL"
          [] efficient -> "TRENDING"
          [] OTHER -> "RANGING"

-----------------------------------------------------------------------------
(* Confidence: seven readings and their weights.                             *)

Liquidity(market, limits) ==
    100 - (IF SpreadElevated(market, limits) THEN 50 ELSE 0)
        - (IF VolumeSufficient(market, limits) THEN 0 ELSE 50)

Calm(market, limits) ==
    CASE Volatility(market, limits) = "HIGH" -> 50
      [] Volatility(market, limits) = "LOW" -> 60
      [] OTHER -> 100

Confirmation(signals) == IF Len(signals) = 1 /\ signals[1].unconfirmed THEN 50 ELSE 100

Readings(signals, consensus, market, limits) ==
    LET own(i) == signals[i].confidence
    IN  [signal_confidence |-> Total(own, DOMAIN signals) \div Len(signals),
         agreement         |-> consensus.agreement,
         data_quality      |-> DataQuality(market, limits),
         liquidity         |-> Liquidity(market, limits),
         volatility        |-> Calm(market, limits),
         confirmation      |-> Confirmation(signals),
         history           |-> 50]

Confidence(readings, importance) ==
    LET of(r) == readings[r] * importance[r]
        w(r)  == importance[r]
        total == Total(w, DOMAIN importance)
    IN  IF total =< 0 THEN 0 ELSE Clamped(0, 100, Total(of, DOMAIN importance) \div total)

-----------------------------------------------------------------------------
(* Filters: every one is evaluated and those that do not pass are collected. *)

GroupOf(symbol, groups) ==
    LET of == {i \in DOMAIN groups : symbol \in groups[i]}
    IN  IF of = {} THEN {} ELSE groups[Least(of)]

(* The recent decisions are those of every symbol, accepted or not.          *)
Recent(decisions, limit) ==
    SubSeq(decisions, Greatest({1, Len(decisions) - limit + 1}), Len(decisions))

Correlated(symbol, now, decisions, desk) ==
    \E d \in ToSet(Recent(decisions, desk.recent)) :
        /\ d.accepted
        /\ d.symbol # symbol
        /\ d.symbol \in GroupOf(symbol, desk.groups)
        /\ now - d.at =< desk.window

SessionOpen(symbol, hour, desk) ==
    \/ symbol \in desk.alwaysOpen
    \/ \E s \in desk.allowed : InSession(hour, s.start, s.end)

Vetoes(symbol, now, market, limits, desk, decisions) ==
    {f \in desk.filters :
        \/ f = "session" /\ ~SessionOpen(symbol, market.hour, desk)
        \/ f = "spread" /\ SpreadElevated(market, limits)
        \/ f = "volatility" /\ Volatility(market, limits) = "LOW"
        \/ f = "liquidity" /\ ~VolumeSufficient(market, limits)
        \/ f = "news" /\ InBlackout(now, desk.blackouts)
        \/ f = "drawdown" /\ desk.drawdown > desk.maxDrawdown
        \/ f = "correlation" /\ Correlated(symbol, now, decisions, desk)}

(* A signal must be coherent with itself before it may be considered; the    *)
(* levels it does not give ("zone", "stop", "target" and "reward" hold one   *)
(* or none) are not judged.                                                  *)
Coherent(signal, now) ==
    LET side == Sign(signal.direction)
    IN  /\ signal.confidence \in 0 .. 100 /\ signal.score \in 0 .. 100
        /\ signal.reasoned
        /\ signal.expiration > now
        /\ \A z \in signal.zone : z.low =< z.high
        /\ side # 0 =>
             /\ \A r \in signal.reward : r > 0
             /\ \A z \in signal.zone :
                  /\ \A l \in signal.stop : side * (2 * l - z.low - z.high) < 0
                  /\ \A l \in signal.target : side * (2 * l - z.low - z.high) > 0

(* What stands in the way of acting on a consensus.                          *)
Rejections(consensus, signals, confidence, bar) ==
    {r \in {"no direction", "signals", "score", "confidence", "agreement"} :
        \/ r = "no direction" /\ consensus.direction = "NEUTRAL"
        \/ r = "signals" /\ Len(signals) < bar.signals
        \/ r = "score" /\ consensus.score < 100 * bar.score
        \/ r = "confidence" /\ confidence < bar.confidence
        \/ r = "agreement" /\ consensus.agreement < bar.agreement}
=============================================================================
