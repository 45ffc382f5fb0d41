------------------------------ MODULE MCStudies ------------------------------
EXTENDS Studies, TLC

Candle(o, h, l, c, v) == [o |-> o, h |-> h, l |-> l, c |-> c, v |-> v, vwap |-> 0]
Traded(k, vwap) == [k EXCEPT !.vwap = vwap]

MCShapes == {Traded(Candle(4, 7, 4, 7, 4), 16), Candle(6, 6, 3, 3, 4),
             Traded(Candle(5, 6, 2, 5, 6), 13), Candle(7, 9, 6, 8, 2),
             Candle(3, 4, 1, 2, 2), Candle(5, 8, 4, 5, 6), Candle(3, 8, 3, 8, 3), Candle(1, 2, 1, 2, 1)}

\* Two different legs of three candles each: a rise, a fall, a narrow range, a wide one.
Rise == <<Candle(3, 4, 2, 4, 1), Candle(4, 6, 4, 6, 2), Candle(6, 7, 5, 5, 1)>>
Fall == <<Candle(7, 8, 6, 6, 1), Candle(6, 6, 4, 4, 2), Candle(4, 5, 3, 5, 1)>>
Calm == <<Candle(5, 5, 4, 5, 1), Candle(5, 6, 5, 5, 1), Candle(5, 5, 4, 4, 1)>>
Wide == <<Candle(5, 7, 4, 6, 1), Traded(Candle(6, 7, 3, 4, 1), 17), Candle(4, 6, 3, 5, 1)>>
Hill == <<Candle(3, 4, 2, 4, 1), Candle(4, 5, 3, 5, 1), Candle(5, 6, 4, 5, 1),
          Candle(5, 5, 4, 4, 1), Candle(4, 5, 3, 4, 1), Candle(5, 8, 4, 5, 6)>>
Flat == <<Candle(5, 5, 5, 5, 1), Candle(5, 5, 5, 5, 1), Candle(5, 5, 5, 5, 1)>>
Legs == {Rise, Fall, Calm, Wide}
MCCharts == UNION {{a \o b : b \in Legs \ {a}} : a \in Legs} \cup {Hill, Calm \o Flat}

MCTrades == {[side |-> s, size |-> z, price |-> p] :
               s \in {"BUY", "SELL"}, z \in {1, 2}, p \in {3000, 3001}}
            \cup {[side |-> "UNKNOWN", size |-> 1, price |-> 3000]}

MCVotes == {[strategy |-> s, direction |-> d, score |-> p] :
              s \in {"trend", "sweep"}, d \in {"LONG", "SHORT", "NEUTRAL"}, p \in {40, 90}}

Graded(q) == [quality |-> q, strength |-> 60, context |-> 50, probability |-> 55, risk |-> 40]

MCContexts ==
  {[regime |-> "ranging", volatility |-> "normal", ema |-> Price(5), anchor |-> 1,
    book |-> [imbalance |-> 30, pressure |-> 25],
    trades |-> <<[side |-> "SELL", size |-> 1, price |-> 3000],
                 [side |-> "BUY", size |-> 4, price |-> 3001],
                 [side |-> "BUY", size |-> 4, price |-> 3001]>>,
    quality |-> 90, minQuality |-> 50, maxSpread |-> {5}, spread |-> {3}, spreadElevated |-> FALSE,
    volumeRatio |-> {120}, volumeSufficient |-> TRUE, inSession |-> TRUE, grades |-> Graded(70)],
   [regime |-> "trending", volatility |-> "high", ema |-> None, anchor |-> 2, book |-> None,
    trades |-> <<[side |-> "BUY", size |-> 4, price |-> 3000],
                 [side |-> "SELL", size |-> 1, price |-> 2999],
                 [side |-> "UNKNOWN", size |-> 2, price |-> 2999],
                 [side |-> "SELL", size |-> 9, price |-> 2998]>>,
    quality |-> 60, minQuality |-> 50, maxSpread |-> {}, spread |-> {9}, spreadElevated |-> TRUE,
    volumeRatio |-> {}, volumeSufficient |-> FALSE, inSession |-> FALSE, grades |-> Graded(30)]}

MCPanel == [weight |-> [trend |-> 2, sweep |-> 1], performance |-> [trend |-> 5, sweep |-> 8],
            multipliers |-> (<<"RANGING", "trend">> :> 0), regime |-> "RANGING"]
=============================================================================
