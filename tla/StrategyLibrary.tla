--------------------------- MODULE StrategyLibrary ---------------------------
(***************************************************************************)
(* The twenty strategies of src/app/strategies and the template around     *)
(* them (QuantStrategy.analyze): pre-checks, the evaluation, the grade,    *)
(* the confirmations, the confidence and the signal that SignalValidator   *)
(* then judges.                                                            *)
(*                                                                         *)
(* An evaluation looks at a window of candles and at a context of features *)
(* and answers None or [direction, entry, stop, target]: the middle of the *)
(* entry zone and two prices, as fractions n/d with d > 0.  The five       *)
(* grades that the score weighs come with the context: what a strategy     *)
(* computes for them (round figures and capped ratios) is left out.        *)
(* Parameters have the value the library gives them, in hundredths, except *)
(* the lengths of windows, which are constants.                            *)
(***************************************************************************)
EXTENDS PriceAction

CONSTANTS
  RecentBars,   \* how many candles an event stays actionable (recent_bars)
  PullbackBars, \* candles of the pullback after an impulse (pullback_bars)
  OpeningBars,  \* candles of the opening range (range_minutes)
  MinBars,      \* candles of a session before its VWAP bands are used
  SlopeBars,    \* candles over which a slope is taken (slope_lookback)
  ShortAtr, LongAtr, \* periods of the two ATRs of the expansion ratio
  Band,         \* width of a consolidation (consolidation_band_pct)
  Bins, Grain,  \* bins of the volume profile and shares per contract
  Buckets       \* buckets of the order flow

ASSUME LibraryParameters ==
  {RecentBars, PullbackBars, OpeningBars, MinBars, SlopeBars, ShortAtr, LongAtr, Bins, Grain,
   Buckets} \subseteq Nat \ {0}

-----------------------------------------------------------------------------
(***************************************************************************)
(* Levels.                                                                 *)
(***************************************************************************)
\* Fractions are kept in lowest terms.
Fraction(n, d) ==
  LET gcd[p \in Nat \X Nat] == IF p[2] = 0 THEN p[1] ELSE gcd[<<p[2], p[1] % p[2]>>]
      g == gcd[<<IF n < 0 THEN -n ELSE n, d>>]
  IN [n |-> n \div g, d |-> d \div g]

Price(p) == [n |-> p, d |-> 1]
Half(x, y) == Fraction(x + y, 2)
Vwap(b) == Fraction(b.notional, 3 * b.volume)
Add(x, y) == Fraction(x.n * y.d + y.n * x.d, x.d * y.d)
Subtract(x, y) == Fraction(x.n * y.d - y.n * x.d, x.d * y.d)
Times(x, m) == Fraction(x.n * m, x.d * 100)
Below(x, y) == x.n * y.d < y.n * x.d

\* m hundredths of the ATR.
Atrs(m, a) == Fraction(m * a.sum, 100 * a.n)

\* A stop on the wrong side: the same sign for both directions.
Mutant_StopBelow(direction, reference, a, buffer) == Subtract(reference, Atrs(buffer, a))

ProtectiveStop(direction, reference, a, buffer) ==
  IF direction = "LONG" THEN Subtract(reference, Atrs(buffer, a)) ELSE Add(reference, Atrs(buffer, a))

TargetFromRR(entry, stop, rr) == Add(entry, Times(Subtract(entry, stop), rr))

Setup(direction, entry, stop, target) ==
  [direction |-> direction, entry |-> entry, stop |-> stop, target |-> target]

\* Entry at the last close, stop `stop` ATRs away, target at `rr` times the risk.
AtMarket(w, direction, stop, rr) ==
  LET close == Price(w[Len(w)].c)
      away == ProtectiveStop(direction, close, Atr(w, AtrPeriod), stop)
  IN Setup(direction, close, away, TargetFromRR(close, away, rr))

\* Entry at the last close, stop beyond a reference, target at `rr` times the risk.
Protected(w, direction, reference, buffer, rr) ==
  LET stop == ProtectiveStop(direction, reference, Atr(w, AtrPeriod), buffer)
  IN Setup(direction, Price(w[Len(w)].c), stop, TargetFromRR(Price(w[Len(w)].c), stop, rr))

WithTarget(setup, target) == [setup EXCEPT !.target = target]

LastOf(w) == w[Len(w)]
LowOf(w, n) == Price(LowestOf(w, Recent(w, n)))
HighOf(w, n) == Price(HighestOf(w, Recent(w, n)))
Side(direction) == IF direction \in {"up", "bullish"} THEN "LONG" ELSE "SHORT"

\* The body is at least m hundredths of the candle's range (0 for an empty range).
SolidBody(k, m) == Span(k) > 0 /\ 100 * Body(k) >= m * Span(k)
HasAtr(w) == Len(w) >= 2 /\ Atr(w, AtrPeriod).sum > 0

-----------------------------------------------------------------------------
(***************************************************************************)
(* Smart money, on the analysis `smc` or the liquidity `map` of the window *)
(* that the context hands over.  Recency is counted in candles of the      *)
(* strategy's window.                                                      *)
(***************************************************************************)
RecentBreaks(w, smc, kinds) ==
  {b \in smc.breaks : b.kind \in kinds /\ b.i > Len(w) - RecentBars}

Bos(w, smc) ==
  LET event == LatestOf(RecentBreaks(w, smc, {"BOS"}))
      near == Distance(LastOf(w).c, event.level) * 100 * smc.atr.n <= 75 * smc.atr.sum
  IN IF smc = None THEN None
     ELSE IF RecentBreaks(w, smc, {"BOS"}) = {} THEN None
     ELSE IF ~near THEN None
     ELSE Protected(w, Side(event.direction), Price(event.level), 75, 200)

\* Target: the middle of the range of pivots.
Choch(w, smc) ==
  LET event == LatestOf(RecentBreaks(w, smc, {"CHOCH"}))
      direction == Side(event.direction)
      origin == IF direction = "LONG" THEN LowOf(w, 10) ELSE HighOf(w, 10)
      plain == Protected(w, direction, origin, 50, 150)
  IN IF smc = None THEN None
     ELSE IF RecentBreaks(w, smc, {"CHOCH"}) = {} THEN None
     ELSE IF smc.zone = None THEN plain
     ELSE WithTarget(plain, Half(smc.zone.high, smc.zone.low))

\* Target: the far edge of the range of pivots.
Mss(w, smc) ==
  LET shifts == {b \in RecentBreaks(w, smc, {"CHOCH"}) : b.mss}
      direction == Side(LatestOf(shifts).direction)
      origin == IF direction = "LONG" THEN LowOf(w, 12) ELSE HighOf(w, 12)
      plain == Protected(w, direction, origin, 50, 250)
  IN IF smc = None THEN None
     ELSE IF shifts = {} THEN None
     ELSE IF smc.zone = None THEN plain
     ELSE WithTarget(plain, Price(IF direction = "LONG" THEN smc.zone.high ELSE smc.zone.low))

\* The outermost pivot on the side of the trade, or the risk multiple without one.
PivotTarget(smc, setup) ==
  LET kind == IF setup.direction = "LONG" THEN "high" ELSE "low"
      prices == {s.price : s \in OfKind(smc.swings, kind)}
  IN IF prices = {} THEN setup
     ELSE WithTarget(setup, Price(IF kind = "high" THEN Max(prices) ELSE Min(prices)))

\* A zone [bottom, top]: enter at its middle, stop half an ATR beyond it.
InZone(smc, z) ==
  LET direction == Side(z.direction)
      entry == Half(z.top, z.bottom)
      edge == Price(IF direction = "LONG" THEN z.bottom ELSE z.top)
      stop == ProtectiveStop(direction, edge, smc.atr, 50)
  IN PivotTarget(smc, Setup(direction, entry, stop, TargetFromRR(entry, stop, 200)))

\* The zones that agree with the last break.
Aligned(smc, zones) ==
  {z \in zones : Side(z.direction) = Side(LatestOf(smc.breaks).direction)}

FairValueGap(w, smc) ==
  LET gaps == {g \in Aligned(smc, smc.fvgs) : 2 * g.open >= g.top - g.bottom}
      gap == LatestOf(gaps)
      touching == IF gap.direction = "bullish"
                  THEN LastOf(w).l <= gap.top /\ LastOf(w).c > gap.bottom
                  ELSE LastOf(w).h >= gap.bottom /\ LastOf(w).c < gap.top
  IN IF smc = None THEN None
     ELSE IF smc.breaks = {} THEN None
     ELSE IF gaps = {} THEN None
     ELSE IF touching THEN InZone(smc, gap) ELSE None

\* The last fresh block the strategy would use (allow_mitigated is off).
FreshBlocks(smc) == {b \in Aligned(smc, smc.blocks) : ~b.breaker /\ ~b.mitigated}

Interacting(k, z) == IF z.direction = "bullish" THEN k.l <= z.top /\ k.c >= z.bottom
                                               ELSE k.h >= z.bottom /\ k.c <= z.top

OrderBlock(w, smc) ==
  LET block == LatestOf(FreshBlocks(smc))
  IN IF smc = None THEN None
     ELSE IF smc.breaks = {} THEN None
     ELSE IF FreshBlocks(smc) = {} THEN None
     ELSE IF Interacting(LastOf(w), block) THEN InZone(smc, block) ELSE None

\* The hunt taken is the last of the list, which is in the order of the pools.
LiquiditySweep(w, map) ==
  LET ok == {n \in DOMAIN map.hunts : map.hunts[n].rejection /\ map.hunts[n].i > Len(w) - 3}
      hunt == map.hunts[Max(ok)]
      direction == IF hunt.pool.kind = "low" THEN "LONG" ELSE "SHORT"
      reference == IF direction = "LONG" THEN w[hunt.i].l ELSE w[hunt.i].h
      plain == Protected(w, direction, Price(reference), 25, 200)
      opposite == NearestPool(map, LastOf(w).c, IF direction = "LONG" THEN "high" ELSE "low")
  IN IF map = None \/ ~HasAtr(w) THEN None
     ELSE IF ok = {} THEN None
     ELSE IF opposite = None THEN plain
     ELSE WithTarget(plain, [n |-> opposite.sum, d |-> opposite.count])

-----------------------------------------------------------------------------
(***************************************************************************)
(* Breakouts.                                                              *)
(***************************************************************************)
\* The target is projected from the close, so it is never behind the entry.
RangeBreakout(w, b) ==
  LET prior == (Len(w) - Lookback) .. (Len(w) - 1)
      height == HighestOf(w, prior) - LowestOf(w, prior)
      plain == Protected(w, Side(b.direction), Price(b.level), 50, 200)
  IN IF ~HasAtr(w) \/ b = None THEN None
     ELSE IF ~b.valid THEN None
     ELSE WithTarget(plain, Price(LastOf(w).c + (IF b.direction = "up" THEN height ELSE -height)))

\* What is left in the window of the candles of the opening range; the day starts at
\* ctx.anchor, which may lie before the window.
OpeningRange(w, ctx) == (ctx.anchor .. (ctx.anchor + OpeningBars - 1)) \cap DOMAIN w

OpeningRangeBreakout(w, ctx) ==
  LET opening == OpeningRange(w, ctx)
      after == {i \in DOMAIN w : i >= ctx.anchor + OpeningBars}
      hi == HighestOf(w, opening)
      lo == LowestOf(w, opening)
      close == LastOf(w).c
      outside(i) == w[i].c > hi \/ w[i].c < lo
      direction == IF close > hi THEN "LONG" ELSE "SHORT"
  IN IF Cardinality(opening) < 3 \/ after = {} \/ ~HasAtr(w) THEN None
     ELSE IF hi <= lo \/ ~outside(Len(w)) THEN None
     ELSE IF \E i \in after \ {Len(w)} : outside(i) THEN None
     ELSE Setup(direction, Price(close), Half(hi, lo),
                Price(IF direction = "LONG" THEN close + hi - lo ELSE close - (hi - lo)))

SessionBands(w, ctx) ==
  LET b == AnchoredVwap(w, Larger(1, ctx.anchor))
  IN IF b = None THEN None ELSE IF b.spread <= 0 \/ b.bars < MinBars THEN None ELSE b

\* The close crosses the one-sigma band in the direction of the VWAP's slope, which is
\* at least 0.002 % per candle.
VwapBreakout(w, b, slope) ==
  LET before == w[Len(w) - 1].c
      steep(rise) == rise * 50000 >= slope.run
      up == ~AboveBand(before, 1, b) /\ AboveBand(LastOf(w).c, 1, b) /\ steep(slope.rise)
      down == ~BelowBand(before, 1, b) /\ BelowBand(LastOf(w).c, 1, b) /\ steep(-slope.rise)
  IN IF ~HasAtr(w) \/ b = None THEN None
     ELSE IF up THEN Protected(w, "LONG", Vwap(b), 25, 200)
     ELSE IF down THEN Protected(w, "SHORT", Vwap(b), 25, 200) ELSE None

-----------------------------------------------------------------------------
(***************************************************************************)
(* Reversion.                                                              *)
(***************************************************************************)
VwapMeanReversion(w, b) ==
  LET far == FromVwap(LastOf(w).c, b)
      extended == far * far >= 4 * b.spread
      turned == SolidBody(LastOf(w), 25)
  IN IF ~HasAtr(w) \/ b = None THEN None
     ELSE IF far < 0 /\ extended /\ turned /\ Bullish(LastOf(w))
          THEN WithTarget(Protected(w, "LONG", LowOf(w, 3), 75, 0), Vwap(b))
     ELSE IF far > 0 /\ extended /\ turned /\ Bearish(LastOf(w))
          THEN WithTarget(Protected(w, "SHORT", HighOf(w, 3), 75, 0), Vwap(b))
     ELSE None

\* The close is two deviations from the mean of the closes, outside a trend.
MeanReversion(w, ctx) ==
  LET n == Len(w)
      sum == AddUp([i \in DOMAIN w |-> w[i].c], DOMAIN w)
      squares == AddUp([i \in DOMAIN w |-> w[i].c * w[i].c], DOMAIN w)
      far == n * LastOf(w).c - sum
      mean == [n |-> sum, d |-> n]
  IN IF ctx.regime \in {"trending", "breakout"} \/ ~HasAtr(w) THEN None
     ELSE IF n * squares = sum * sum \/ far * far < 4 * (n * squares - sum * sum) THEN None
     ELSE IF far < 0 THEN WithTarget(Protected(w, "LONG", LowOf(w, 3), 75, 0), mean)
     ELSE WithTarget(Protected(w, "SHORT", HighOf(w, 3), 75, 0), mean)

\* The price at which a bin of the profile starts.
BinEdge(w, b) ==
  LET low == LowestOf(w, DOMAIN w)
  IN Fraction(low * Bins + b * (HighestOf(w, DOMAIN w) - low), Bins)

\* A wick rejected at the edge of the value area; the point of control is the target.
VolumeProfileReversal(w, p) ==
  LET k == LastOf(w)
      val == BinEdge(w, p.area.lo)
      vah == BinEdge(w, p.area.hi + 1)
      poc == Times(Add(BinEdge(w, p.poc), BinEdge(w, p.poc + 1)), 50)
      atLow == ~Below(val, Price(k.l)) /\ Below(val, Price(k.c))
      atHigh == ~Below(Price(k.h), vah) /\ Below(Price(k.c), vah)
  IN IF ~HasAtr(w) \/ p = None THEN None
     ELSE IF atLow
     THEN IF Span(k) > 0 /\ 100 * LowerWick(k) >= 35 * Span(k)
          THEN WithTarget(Protected(w, "LONG", Price(k.l), 50, 0), poc) ELSE None
     ELSE IF atHigh /\ Span(k) > 0 /\ 100 * UpperWick(k) >= 35 * Span(k)
          THEN WithTarget(Protected(w, "SHORT", Price(k.h), 50, 0), poc) ELSE None

-----------------------------------------------------------------------------
(***************************************************************************)
(* Trend, momentum and volatility.                                         *)
(***************************************************************************)
PivotOrNone(swings, kind) ==
  IF OfKind(swings, kind) = {} THEN None ELSE LatestOf(OfKind(swings, kind))

\* A pullback that touched the reference within half an ATR and resumed.
Pullback(w, structure, reference, low, high, stopAt, buffer) ==
  LET a == Atr(w, AtrPeriod)
      pivot(kind) == PivotOrNone(structure.swings, kind)
      ahead(setup, kind) == IF pivot(kind) = None THEN setup
                            ELSE WithTarget(setup, Price(pivot(kind).price))
      up == /\ structure.trend = "up" /\ Bullish(LastOf(w))
            /\ ~Below(Add(reference, Atrs(50, a)), low)
            /\ Below(reference, Price(LastOf(w).c))
      down == /\ structure.trend = "down" /\ Bearish(LastOf(w))
              /\ ~Below(high, Subtract(reference, Atrs(50, a)))
              /\ Below(Price(LastOf(w).c), reference)
  IN IF up THEN ahead(Protected(w, "LONG", stopAt.long, buffer, 200), "high")
     ELSE IF down THEN ahead(Protected(w, "SHORT", stopAt.short, buffer, 200), "low")
     ELSE None

TrendPullback(w, ctx, structure) ==
  LET stopAt == [long |-> LowOf(w, 2), short |-> HighOf(w, 2)]
  IN IF structure = None \/ ~HasAtr(w) \/ ctx.ema = None THEN None
     ELSE Pullback(w, structure, ctx.ema, LowOf(w, 2), HighOf(w, 2), stopAt, 50)

\* The VWAP is anchored at the last pivot against the trend.
AnchoredVwapPullback(w, structure) ==
  LET pivot == PivotOrNone(structure.swings, IF structure.trend = "up" THEN "low" ELSE "high")
      b == AnchoredVwap(w, pivot.i)
  IN IF structure = None \/ ~HasAtr(w) THEN None
     ELSE IF structure.trend = "sideways" \/ pivot = None THEN None
     ELSE IF b = None THEN None
     ELSE Pullback(w, structure, Vwap(b), LowOf(w, 1), HighOf(w, 1),
                   [long |-> Vwap(b), short |-> Vwap(b)], 75)

\* An impulse, a shallow retreat, and a candle that resumes it.
MomentumContinuation(w, base, impulse) ==
  LET during == impulse.first .. Len(base)
      pull == (Len(base) + 1) .. Len(w)
      a == Atr(base, AtrPeriod)
      now == Atr(w, AtrPeriod)
      \* impulse.magnitude * atr: the move in ATRs of the base, at the ATR of now
      range == [n |-> impulse.net * a.n * now.sum, d |-> a.sum * now.n]
      shallow(x) == x.n * 2 * range.d <= range.n * x.d
      top == HighestOf(w, during)
      bottom == LowestOf(w, during)
      lowest == LowestOf(w, pull)
      highest == HighestOf(w, pull)
      resumesUp == Bullish(LastOf(w)) /\ (PullbackBars >= 2 => LastOf(w).c > w[Len(w) - 1].h)
      resumesDown == Bearish(LastOf(w)) /\ (PullbackBars >= 2 => LastOf(w).c < w[Len(w) - 1].l)
  IN IF ~HasAtr(w) \/ Len(w) <= PullbackBars + 5 THEN None
     ELSE IF impulse = None THEN None
     ELSE IF impulse.direction = "up" /\ resumesUp /\ shallow(Price(top - lowest))
     THEN WithTarget(Protected(w, "LONG", Price(lowest), 50, 0), Add(Price(top), Times(range, 50)))
     ELSE IF impulse.direction = "down" /\ resumesDown /\ shallow(Price(highest - bottom))
     THEN WithTarget(Protected(w, "SHORT", Price(highest), 50, 0),
                     Subtract(Price(bottom), Times(range, 50)))
     ELSE None

AtrExpansion(w) ==
  LET rising == Len(w) > AtrPeriod + SlopeBars => AtrRise(w, AtrPeriod, SlopeBars) > 0
  IN IF ~HasAtr(w) THEN None
     ELSE IF ~ExpansionAtLeast(w, ShortAtr, LongAtr, 140) \/ ~rising THEN None
     ELSE IF ~SolidBody(LastOf(w), 50) THEN None
     ELSE AtMarket(w, IF Bullish(LastOf(w)) THEN "LONG" ELSE "SHORT", 100, 150)

\* The squeeze and its range are measured without the candle that releases it.
VolatilityCompression(w, prior, structure) ==
  LET height == structure.high - structure.low
      close == LastOf(w).c
  IN IF ~HasAtr(w) \/ Len(w) < Lookback + 1 THEN None
     ELSE IF structure = None THEN None
     ELSE IF ~ExpansionAtMost(prior, ShortAtr, LongAtr, 70) \/ ~structure.consolidation THEN None
     ELSE IF height <= 0 THEN None
     ELSE IF close > structure.high
     THEN Setup("LONG", Price(close), Price(structure.low), Price(close + height))
     ELSE IF close < structure.low
     THEN Setup("SHORT", Price(close), Price(structure.high), Price(close - height))
     ELSE None

-----------------------------------------------------------------------------
(***************************************************************************)
(* Order flow: thresholds on the trades and the book, levels at market.    *)
(***************************************************************************)
OrderbookImbalance(w, ctx) ==
  IF ctx.book = None \/ ~HasAtr(w) THEN None
  ELSE IF ctx.book.imbalance >= 25 /\ ctx.book.pressure >= 20 THEN AtMarket(w, "LONG", 60, 150)
  ELSE IF ctx.book.imbalance <= -25 /\ ctx.book.pressure <= -20 THEN AtMarket(w, "SHORT", 60, 150)
  ELSE None

Cvd(w, f) ==
  LET steep == f.total > 0 /\ 10 * Distance(f.slope, 0) >= 3 * f.total
  IN IF f = None \/ ~HasAtr(w) THEN None
     ELSE IF Distance(f.move, 0) * 2000 > f.first \/ ~steep THEN None
     ELSE AtMarket(w, IF f.slope > 0 THEN "LONG" ELSE "SHORT", 120, 200)

DeltaConfirmation(w, f) ==
     IF f = None \/ ~HasAtr(w) THEN None
     ELSE IF f.total > 0 /\ 100 * f.buy >= 65 * f.total /\ Bullish(LastOf(w)) /\ f.move > 0
          THEN AtMarket(w, "LONG", 100, 150)
     ELSE IF f.total > 0 /\ 100 * f.buy <= 35 * f.total /\ Bearish(LastOf(w)) /\ f.move < 0
          THEN AtMarket(w, "SHORT", 100, 150)
     ELSE None

-----------------------------------------------------------------------------
(***************************************************************************)
(* The template of every strategy.                                         *)
(***************************************************************************)
Library == {"bos", "choch", "mss", "fair_value_gap", "order_block", "liquidity_sweep",
            "range_breakout", "opening_range_breakout", "vwap_breakout", "vwap_mean_reversion",
            "mean_reversion", "volume_profile", "trend_pullback", "anchored_vwap",
            "momentum_continuation", "atr_expansion", "volatility_compression",
            "orderbook_imbalance", "cvd", "delta_confirmation"}

Evaluate(s, w, ctx) ==
  LET prior == SubSeq(w, 1, Len(w) - 1)
      base == SubSeq(w, 1, Len(w) - PullbackBars)
      flow == AnalyzeOrderFlow(ctx.trades, Buckets)
  IN CASE s = "bos" -> Bos(w, AnalyzeSMC(w))
       [] s = "choch" -> Choch(w, AnalyzeSMC(w))
       [] s = "mss" -> Mss(w, AnalyzeSMC(w))
       [] s = "fair_value_gap" -> FairValueGap(w, AnalyzeSMC(w))
       [] s = "order_block" -> OrderBlock(w, AnalyzeSMC(w))
       [] s = "liquidity_sweep" -> LiquiditySweep(w, AnalyzeLiquidity(w))
       [] s = "range_breakout" -> RangeBreakout(w, DetectBreakout(w, 120))
       [] s = "vwap_breakout" ->
            VwapBreakout(w, SessionBands(w, ctx), VwapSlope(w, Larger(1, ctx.anchor), SlopeBars))
       [] s = "opening_range_breakout" -> OpeningRangeBreakout(w, ctx)
       [] s = "vwap_mean_reversion" -> VwapMeanReversion(w, SessionBands(w, ctx))
       [] s = "mean_reversion" -> MeanReversion(w, ctx)
       [] s = "volume_profile" -> VolumeProfileReversal(w, VolumeProfile(w, Bins, Grain))
       [] s = "trend_pullback" -> TrendPullback(w, ctx, AnalyzeStructure(w, Band))
       [] s = "anchored_vwap" -> AnchoredVwapPullback(w, AnalyzeStructure(w, Band))
       [] s = "momentum_continuation" -> MomentumContinuation(w, base, DetectImpulse(base, 3))
       [] s = "atr_expansion" -> AtrExpansion(w)
       [] s = "volatility_compression" ->
            VolatilityCompression(w, prior, AnalyzeStructure(prior, Band))
       [] s = "orderbook_imbalance" -> OrderbookImbalance(w, ctx)
       [] s = "cvd" -> Cvd(w, flow)
       [] s = "delta_confirmation" -> DeltaConfirmation(w, flow)

\* Warm-up, data quality and spread.  What may be missing is a set of at most one
\* number: a missing limit or spread blocks nothing.
Precheck(w, ctx, minCandles) ==
  /\ Len(w) >= minCandles
  /\ ctx.quality >= ctx.minQuality
  /\ \A limit \in ctx.maxSpread, spread \in ctx.spread : spread <= limit

\* The weighted mean of the grades, 0..100; the risk counts against the signal.
ScoreWeights == [quality |-> 25, strength |-> 20, context |-> 20, probability |-> 20, risk |-> 15]
ClampGrade(x) == Larger(0, Smaller(100, x))
Score(g) ==
  LET of(c) == IF c = "risk" THEN ClampGrade(100 - g[c]) ELSE ClampGrade(g[c])
  IN AddUp([c \in DOMAIN ScoreWeights |-> ScoreWeights[c] * of(c)], DOMAIN ScoreWeights) \div 100

\* The confirmations a strategy may ask for; an unknown name fails with a note.
Confirmed(name, w, ctx, direction) ==
  LET sign == IF direction = "LONG" THEN 1 ELSE -1
      f == AnalyzeOrderFlow(ctx.trades, Buckets)
      delta == SizeOf(ctx.trades, "BUY") - SizeOf(ctx.trades, "SELL")
  IN CASE name = "delta" -> ctx.trades # << >> /\ delta * sign > 0
       [] name = "cvd" -> IF f = None THEN FALSE ELSE f.slope * sign > 0
       [] name = "volume" -> \E ratio \in ctx.volumeRatio : ratio >= 100
       [] name = "spread" -> ~ctx.spreadElevated
       [] name = "volatility" -> ctx.volatility # "low"
       [] name = "session" -> ctx.inSession
       [] name = "regime" -> ctx.regime # "unknown"
       [] name = "book_imbalance" -> IF ctx.book = None THEN FALSE ELSE ctx.book.imbalance * sign >= 10
       [] name = "book_pressure" -> IF ctx.book = None THEN FALSE ELSE ctx.book.pressure * sign >= 10
       [] name = "volume_profile" ->
            LET p == VolumeProfile(w, Bins, Grain)
            IN IF p = None THEN FALSE
               ELSE \/ Below(Price(LastOf(w).c), BinEdge(w, p.area.lo))
                    \/ Below(BinEdge(w, p.area.hi + 1), Price(LastOf(w).c))
       [] OTHER -> FALSE

ConfirmationsOf(s) ==
  CASE s \in {"opening_range_breakout", "range_breakout", "vwap_breakout", "vwap_mean_reversion",
              "momentum_continuation", "volume_profile"} -> {"volume", "delta"}
    [] s = "mean_reversion" -> {"volatility", "volume"}
    [] s \in {"choch", "liquidity_sweep"} -> {"delta", "cvd"}
    [] s = "delta_confirmation" -> {"volume", "spread"}
    [] s = "orderbook_imbalance" -> {"delta", "spread"}
    [] s \in {"fair_value_gap", "order_block", "mss"} -> {"delta"}
    [] OTHER -> {"volume"}

\* No regime is preferred: 0.75; unknown: 0.5; a preferred one: 1; another: 0.4.
RegimeScore(regime, preferred) ==
  IF preferred = {} THEN 75 ELSE IF regime = "unknown" THEN 50
  ELSE IF regime \in preferred THEN 100 ELSE 40

PreferredRegimes(s) ==
  CASE s \in {"opening_range_breakout", "range_breakout", "vwap_breakout", "momentum_continuation",
              "delta_confirmation", "atr_expansion"} -> {"breakout", "expansion", "trending"}
    [] s \in {"mean_reversion", "vwap_mean_reversion", "cvd", "volume_profile"}
         -> {"ranging", "compression"}
    [] s \in {"bos", "fair_value_gap", "order_block"} -> {"trending", "breakout"}
    [] s \in {"choch", "liquidity_sweep"} -> {"reversal", "ranging"}
    [] s = "mss" -> {"reversal", "expansion"}
    [] s \in {"trend_pullback", "anchored_vwap"} -> {"trending"}
    [] s = "volatility_compression" -> {"compression"}
    [] OTHER -> {}

PreferredVolatility(s) ==
  CASE s \in {"mean_reversion", "vwap_mean_reversion"} -> {"normal"}
    [] s = "volatility_compression" -> {"low", "normal"}
    [] OTHER -> {"normal", "high"}

ConfidenceWeights == [volume |-> 15, volatility |-> 15, liquidity |-> 15, regime |-> 20,
                      confirmations |-> 25, quality |-> 10]
Confidence(s, ctx, passed, asked) ==
  LET factor == [volume |-> IF ctx.volumeSufficient THEN 100 ELSE 30,
                 volatility |-> IF ctx.volatility \in PreferredVolatility(s) THEN 100 ELSE 60,
                 liquidity |-> IF ctx.spreadElevated THEN 50 ELSE 100,
                 regime |-> RegimeScore(ctx.regime, PreferredRegimes(s)),
                 confirmations |-> IF asked = 0 THEN 75 ELSE (100 * passed) \div asked,
                 quality |-> ClampGrade(ctx.quality)]
  IN AddUp([c \in DOMAIN factor |-> ConfidenceWeights[c] * factor[c]], DOMAIN factor) \div 100

\* The signal of a setup with the confirmations that passed.
SignalOf(s, ctx, setup, passed) ==
  LET asked == ConfirmationsOf(s)
  IN [strategy |-> s, direction |-> setup.direction, entry |-> setup.entry,
      stop |-> setup.stop, target |-> setup.target, score |-> Score(ctx.grades),
      confidence |-> Confidence(s, ctx, Cardinality(passed), Cardinality(asked)),
      rewarded |-> Subtract(setup.entry, setup.stop).n # 0,
      pending |-> passed # asked]

Judged(s, w, ctx, setup) ==
  IF setup = None THEN None
  ELSE SignalOf(s, ctx, setup, {n \in ConfirmationsOf(s) : Confirmed(n, w, ctx, setup.direction)})

\* analyze(): the signal, or None.
Analyze(s, w, ctx, minCandles, minScore) ==
  IF ~Precheck(w, ctx, minCandles) \/ Score(ctx.grades) < minScore THEN None
  ELSE Judged(s, w, ctx, Evaluate(s, w, ctx))

\* SignalValidator on the levels: stop and target on their sides of the entry.
LevelChecks(x) ==
  IF x.direction = "LONG"
  THEN Below(x.stop, x.entry) /\ Below(x.entry, x.target)
  ELSE Below(x.entry, x.stop) /\ Below(x.target, x.entry)

=============================================================================
