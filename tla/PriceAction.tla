----------------------------- MODULE PriceAction -----------------------------
(***************************************************************************)
(* The indicators of src/app/analytics/indicators, as operators on a       *)
(* window of closed candles, oldest first.  A candle is                    *)
(* [o, h, l, c, v, vwap]: the last is three times the average price its    *)
(* own trades gave, or 0 where the feed knows only the bar.                *)
(*                                                                         *)
(* The code computes with floats; here prices and volumes are integers and *)
(* every quotient is kept as a fraction and compared by multiplying out,   *)
(* so no comparison is rounded.  Parameters that multiply an ATR or a      *)
(* percentage are hundredths.  Lists the code builds in the order of the   *)
(* candles are sets of records that carry the candle's index.              *)
(***************************************************************************)
EXTENDS Integers, Sequences, FiniteSets, FiniteSetsExt, SequencesExt

CONSTANTS
  SwingSide,    \* candles a pivot dominates on each side (swing_left, swing_right)
  AtrPeriod,    \* candles of the ATR (atr_period)
  FvgMin,       \* smallest gap, hundredths of an ATR (fvg_min_atr)
  Displacement, \* body of a displacement candle, hundredths of an ATR
  Scan,         \* recent candles searched for sweeps and hunts (sweep_scan, hunt_scan)
  Lookback,     \* candles of the range a breakout leaves (lookback, range_window)
  MaxBlocks     \* order blocks kept (max_blocks)

ASSUME WindowsArePositive ==
  /\ {SwingSide, AtrPeriod, Lookback, Scan, MaxBlocks} \subseteq Nat \ {0}
  /\ {FvgMin, Displacement} \subseteq Nat

None == [none |-> TRUE]
Distance(x, y) == IF x >= y THEN x - y ELSE y - x
Larger(x, y) == IF x >= y THEN x ELSE y
Smaller(x, y) == IF x <= y THEN x ELSE y

HighestOf(w, I) == Max({w[i].h : i \in I})
LowestOf(w, I) == Min({w[i].l : i \in I})
AddUp(f, S) == SumFunctionOnSet(f, S)
VolumeOf(w, I) == AddUp([i \in I |-> w[i].v], I)
Recent(w, n) == (Larger(0, Len(w) - n) + 1) .. Len(w)
LatestOf(S) == CHOOSE x \in S : \A y \in S : y.i <= x.i

Body(k) == Distance(k.o, k.c)
Span(k) == k.h - k.l
Bullish(k) == k.c > k.o
Bearish(k) == k.c < k.o
UpperWick(k) == k.h - Larger(k.o, k.c)
LowerWick(k) == Smaller(k.o, k.c) - k.l

\* The same candle on a chart turned upside down around the price half/2.
Flip(k, half) == [o |-> half - k.o, h |-> half - k.l, l |-> half - k.h,
                  c |-> half - k.c, v |-> k.v,
                  vwap |-> IF k.vwap = 0 THEN 0 ELSE 3 * half - k.vwap]
Mirror(w, half) == [i \in DOMAIN w |-> Flip(w[i], half)]

-----------------------------------------------------------------------------
(***************************************************************************)
(* Volatility: the true range, and the ATR as the fraction sum/n.          *)
(***************************************************************************)
TrueRange(w, i) ==
  Max({w[i].h - w[i].l, Distance(w[i].h, w[i - 1].c), Distance(w[i].l, w[i - 1].c)})

Atr(w, period) ==
  LET I == (Larger(1, Len(w) - period) + 1) .. Len(w)
  IN [sum |-> AddUp([i \in I |-> TrueRange(w, i)], I), n |-> Cardinality(I)]

\* x is at least m hundredths of the ATR a.
AtrsAtLeast(x, m, a) == x * 100 * a.n >= m * a.sum

\* The short ATR is at least (at most) m hundredths of the long one.
ExpansionAtLeast(w, short, long, m) ==
  LET s == Atr(w, short)
      g == Atr(w, long)
  IN g.sum > 0 /\ s.sum * g.n * 100 >= m * g.sum * s.n

ExpansionAtMost(w, short, long, m) ==
  LET s == Atr(w, short)
      g == Atr(w, long)
  IN g.sum > 0 /\ s.sum * g.n * 100 <= m * g.sum * s.n

\* The sign of the ATR's slope is the sign of this difference of two rolling sums.
AtrRise(w, period, lookback) ==
  Atr(w, period).sum - Atr(SubSeq(w, 1, Len(w) - lookback), period).sum

-----------------------------------------------------------------------------
(***************************************************************************)
(* Structure: fractal pivots and their labels, ranges and breakouts.       *)
(***************************************************************************)
Around(i) == ((i - SwingSide) .. (i + SwingSide)) \ {i}

\* A pivot needs SwingSide candles on each side: it exists that many candles late.
PivotRange(w) == (SwingSide + 1) .. (Len(w) - SwingSide)

RawPivots(w) ==
  {[i |-> i, kind |-> "high", price |-> w[i].h] :
     i \in {j \in PivotRange(w) : w[j].h > HighestOf(w, Around(j) \cap DOMAIN w)}}
  \cup
  {[i |-> i, kind |-> "low", price |-> w[i].l] :
     i \in {j \in PivotRange(w) : w[j].l < LowestOf(w, Around(j) \cap DOMAIN w)}}

\* HH/LH and HL/LL against the pivot of the same kind before it; a tie is LH or LL.
LabelOf(p, raw) ==
  LET before == {q \in raw : q.kind = p.kind /\ q.i < p.i}
      rises == p.price > LatestOf(before).price
  IN IF before = {} THEN ""
     ELSE IF p.kind = "high" THEN (IF rises THEN "HH" ELSE "LH")
     ELSE (IF rises THEN "HL" ELSE "LL")

SwingPoints(w) ==
  LET raw == RawPivots(w)
  IN {[i |-> p.i, kind |-> p.kind, price |-> p.price, label |-> LabelOf(p, raw)] : p \in raw}

OfKind(S, kind) == {s \in S : s.kind = kind}

\* In the order of the list: by candle, the high of a candle before its low.
Precedes(s, t) == s.i < t.i \/ (s.i = t.i /\ s.kind = "high" /\ t.kind = "low")

\* The trend the labels of the last four pivots agree on.
TrendOf(swings) ==
  LET last4 == {s \in swings : Cardinality({t \in swings : Precedes(s, t)}) < 4}
      labelled == {s \in last4 : s.label # ""}
      ups == {s \in labelled : s.label \in {"HH", "HL"}}
      downs == labelled \ ups
  IN IF Cardinality(labelled) < 2 THEN "sideways"
     ELSE IF downs = {} THEN "up"
     ELSE IF ups = {} THEN "down"
     ELSE "sideways"

\* The range is at most `band` hundredths of a percent of its middle.
Consolidating(w, band) ==
  LET hi == HighestOf(w, Recent(w, Lookback))
      lo == LowestOf(w, Recent(w, Lookback))
  IN hi + lo > 0 /\ (hi - lo) * 20000 <= band * (hi + lo)

AnalyzeStructure(w, band) ==
  IF Len(w) < Larger(Lookback, 2 * SwingSide + 1) THEN None
  ELSE LET swings == SwingPoints(w)
       IN [swings |-> swings,
           trend |-> TrendOf(swings),
           consolidation |-> Consolidating(w, band),
           high |-> HighestOf(w, Recent(w, Lookback)),
           low |-> LowestOf(w, Recent(w, Lookback))]

\* The last candle closes outside the range of the Lookback candles before it;
\* `volume` is the smallest volume that validates it, hundredths of their mean.
DetectBreakout(w, volume) ==
  LET n == Len(w)
      prior == (n - Lookback) .. (n - 1)
      hi == HighestOf(w, prior)
      lo == LowestOf(w, prior)
      enough == /\ VolumeOf(w, prior) > 0
                /\ w[n].v * Lookback * 100 >= volume * VolumeOf(w, prior)
  IN IF n < Lookback + 1 THEN None
     ELSE IF w[n].c > hi THEN [direction |-> "up", level |-> hi, valid |-> enough]
     ELSE IF w[n].c < lo THEN [direction |-> "down", level |-> lo, valid |-> enough]
     ELSE None

\* The recent candles whose wick left their range and whose close came back.
FakeBreakouts(w, direction) ==
  {i \in Recent(w, Scan) \cap ((Lookback + 1) .. Len(w)) :
     LET prior == (i - Lookback) .. (i - 1)
     IN IF direction = "up"
        THEN w[i].h > HighestOf(w, prior) /\ w[i].c <= HighestOf(w, prior)
        ELSE w[i].l < LowestOf(w, prior) /\ w[i].c >= LowestOf(w, prior)}

-----------------------------------------------------------------------------
(***************************************************************************)
(* Smart money: gaps, order blocks, sweeps, equal levels, breaks, zones.   *)
(***************************************************************************)
\* A gap measured only by the candle that made it: what fills it later is not looked at.
Mutant_NeverFilled(w, a) ==
  LET is(i) == w[i + 1].l > w[i - 1].h /\ AtrsAtLeast(w[i + 1].l - w[i - 1].h, FvgMin, a)
  IN {[i |-> i, direction |-> "bullish", top |-> w[i + 1].l, bottom |-> w[i - 1].h,
       open |-> w[Len(w)].l - w[i - 1].h] : i \in {j \in 2 .. (Len(w) - 1) : is(j)}}

\* An open gap carries what of it is still unfilled; a filled one is not listed.
BullishGaps(w, a) ==
  LET after(i) == {w[j].l : j \in (i + 2) .. Len(w)}
      left(i) == Min(after(i) \cup {w[i + 1].l}) - w[i - 1].h
      is(i) == /\ w[i + 1].l > w[i - 1].h
               /\ AtrsAtLeast(w[i + 1].l - w[i - 1].h, FvgMin, a)
               /\ left(i) > 0
  IN {[i |-> i, direction |-> "bullish", top |-> w[i + 1].l, bottom |-> w[i - 1].h,
       open |-> left(i)] : i \in {j \in 2 .. (Len(w) - 1) : is(j)}}

BearishGaps(w, a) ==
  LET after(i) == {w[j].h : j \in (i + 2) .. Len(w)}
      left(i) == w[i - 1].l - Max(after(i) \cup {w[i + 1].h})
      is(i) == /\ w[i - 1].l > w[i + 1].h
               /\ AtrsAtLeast(w[i - 1].l - w[i + 1].h, FvgMin, a)
               /\ left(i) > 0
  IN {[i |-> i, direction |-> "bearish", top |-> w[i - 1].l, bottom |-> w[i + 1].h,
       open |-> left(i)] : i \in {j \in 2 .. (Len(w) - 1) : is(j)}}

FairValueGaps(w, a) ==
  IF a.sum <= 0 \/ Len(w) < 3 THEN {} ELSE BullishGaps(w, a) \cup BearishGaps(w, a)

\* The last opposite candle before a displacement; its zone is its body.
BlockAt(w, i, direction) ==
  LET top == Larger(w[i].o, w[i].c)
      bottom == Smaller(w[i].o, w[i].c)
      after == (i + 2) .. Len(w)
  IN [i |-> i, direction |-> direction, top |-> top, bottom |-> bottom,
      mitigated |-> \E j \in after : w[j].l <= top /\ w[j].h >= bottom,
      breaker |-> \E j \in after : IF direction = "bullish" THEN w[j].c < bottom
                                                            ELSE w[j].c > top]

OrderBlocks(w, a) ==
  LET move(i) == w[i + 1].c - w[i + 1].o
      demand == {i \in 1 .. (Len(w) - 1) :
                   Bearish(w[i]) /\ AtrsAtLeast(move(i), Displacement, a)}
      supply == {i \in 1 .. (Len(w) - 1) :
                   Bullish(w[i]) /\ AtrsAtLeast(-move(i), Displacement, a)}
      all == {BlockAt(w, i, "bullish") : i \in demand} \cup
             {BlockAt(w, i, "bearish") : i \in supply}
  IN IF a.sum <= 0 \/ Len(w) < 3 THEN {}
     ELSE {b \in all : Cardinality({d \in all : d.i > b.i}) < MaxBlocks}

\* A wick more than 0.02 % beyond an earlier pivot; reclaimed when it closes back.
LiquiditySweeps(w, swings) ==
  LET beyond(i, s) == IF s.kind = "high" THEN (w[i].h - s.price) * 10000 > 2 * s.price
                                         ELSE (s.price - w[i].l) * 10000 > 2 * s.price
      back(i, s) == IF s.kind = "high" THEN w[i].c < s.price ELSE w[i].c > s.price
  IN {[i |-> x[1], kind |-> x[2].kind, level |-> x[2].price, reclaimed |-> back(x[1], x[2])] :
        x \in {y \in Recent(w, Scan) \X swings : y[2].i < y[1] /\ beyond(y[1], y[2])}}

\* Prices in increasing order, a new cluster where the step exceeds 0.05 %.  The
\* level is the mean sum/count; internal is away from the tenth next to each edge.
EqualLevels(swings, kind, hi, lo) ==
  LET of == OfKind(swings, kind)
      prices == {s.price : s \in of}
      starts == {p \in prices : \A q \in prices : q < p => (p - q) * 2000 > q}
      cluster(p) == {s \in of : s.price >= p /\ ~\E q \in starts : p < q /\ q <= s.price}
      sum(p) == AddUp([s \in cluster(p) |-> s.price], cluster(p))
      count(p) == Cardinality(cluster(p))
  IN {[kind |-> kind, sum |-> sum(p), count |-> count(p),
       internal |-> /\ (9 * lo + hi) * count(p) < 10 * sum(p)
                    /\ 10 * sum(p) < (9 * hi + lo) * count(p)] :
        p \in {q \in starts : count(q) >= 2}}

\* One pass over the candles: a close beyond the latest pivot breaks structure and
\* uses the pivot up.  A pivot takes effect at its own candle (the loop's last
\* lines), not when the SwingSide candles that confirm it have closed.
ActivePivot(old, swings, i, kind) ==
  LET here == {s \in swings : s.i = i /\ s.kind = kind}
  IN IF here = {} THEN old ELSE CHOOSE s \in here : TRUE

BreakAt(w, i, s, direction, trend, a) ==
  LET against == trend # "" /\ trend # direction
  IN [i |-> i, kind |-> IF against THEN "CHOCH" ELSE "BOS", direction |-> direction,
      level |-> s.price, body |-> Body(w[i]),
      mss |-> against /\ AtrsAtLeast(Body(w[i]), Displacement, a)]

StructureBreaks(w, swings, a) ==
  LET step(s, i) ==
        LET up == s.high # None /\ w[i].c > s.high.price
            down == ~up /\ s.low # None /\ w[i].c < s.low.price
            high == IF up THEN None ELSE s.high
            low == IF down THEN None ELSE s.low
        IN [trend |-> IF up THEN "up" ELSE IF down THEN "down" ELSE s.trend,
            high |-> ActivePivot(high, swings, i, "high"),
            low |-> ActivePivot(low, swings, i, "low"),
            breaks |-> s.breaks \cup
                       (IF up THEN {BreakAt(w, i, s.high, "up", s.trend, a)}
                        ELSE IF down THEN {BreakAt(w, i, s.low, "down", s.trend, a)}
                        ELSE {})]
  IN IF a.sum <= 0 THEN {}
     ELSE FoldLeft(step, [trend |-> "", high |-> None, low |-> None, breaks |-> {}],
                   [i \in 1 .. Len(w) |-> i]).breaks

\* Where the close lies between the outermost pivots; within a tenth of the middle
\* is equilibrium.
PremiumDiscount(w, swings) ==
  LET highs == {s.price : s \in OfKind(swings, "high")}
      lows == {s.price : s \in OfKind(swings, "low")}
      hi == Max(highs)
      lo == Min(lows)
      off == 2 * w[Len(w)].c - (hi + lo)
  IN IF highs = {} \/ lows = {} THEN None
     ELSE IF hi <= lo THEN None
     ELSE [high |-> hi, low |-> lo,
           zone |-> IF 5 * Distance(off, 0) <= hi - lo THEN "equilibrium"
                    ELSE IF off > 0 THEN "premium" ELSE "discount"]

\* The first opposite pivot after the last break.
Inducement(swings, breaks) ==
  LET last == LatestOf(breaks)
      wanted == {s \in swings : /\ s.i > last.i
                                /\ s.kind = IF last.direction = "up" THEN "low" ELSE "high"}
  IN IF breaks = {} \/ wanted = {} THEN None
     ELSE CHOOSE s \in wanted : \A t \in wanted : s.i <= t.i

AnalyzeSMC(w) ==
  LET a == Atr(w, AtrPeriod)
      swings == SwingPoints(w)
      breaks == StructureBreaks(w, swings, a)
  IN IF Len(w) < Larger(AtrPeriod + 1, 2 * SwingSide + 3) THEN None
     ELSE IF a.sum <= 0 THEN None
     ELSE [atr |-> a, swings |-> swings, breaks |-> breaks,
           fvgs |-> FairValueGaps(w, a),
           blocks |-> OrderBlocks(w, a),
           sweeps |-> LiquiditySweeps(w, swings),
           zone |-> PremiumDiscount(w, swings),
           inducement |-> Inducement(swings, breaks)]

-----------------------------------------------------------------------------
(***************************************************************************)
(* Liquidity: pools of resting stops, and the hunts that swept them.       *)
(***************************************************************************)
\* Clusters of highs, clusters of lows, then the extremes of the window that no
\* cluster lies on: the order in which pools are examined and hunts are listed.
Pools(w, swings) ==
  LET hi == HighestOf(w, DOMAIN w)
      lo == LowestOf(w, DOMAIN w)
      clusters(kind) ==
        SetToSortSeq(EqualLevels(swings, kind, hi, lo),
                     LAMBDA p, q : p.sum * q.count < q.sum * p.count)
      extreme(kind, price) ==
        IF \E p \in EqualLevels(swings, kind, hi, lo) : p.sum = price * p.count THEN << >>
        ELSE << [kind |-> kind, sum |-> price, count |-> 1, internal |-> FALSE] >>
  IN clusters("high") \o clusters("low") \o extreme("high", hi) \o extreme("low", lo)

SweptBy(p, k) == IF p.kind = "high" THEN k.h * p.count > p.sum ELSE k.l * p.count < p.sum

\* The first recent candle that sweeps the pool, read as a rejection (close back
\* inside, wick of half the candle) or a continuation.
HuntOf(w, p) ==
  LET by == {i \in Recent(w, Scan) : Span(w[i]) > 0 /\ SweptBy(p, w[i])}
      i == Min(by)
      wick == IF p.kind = "high" THEN UpperWick(w[i]) ELSE LowerWick(w[i])
      inside == IF p.kind = "high" THEN w[i].c * p.count < p.sum ELSE w[i].c * p.count > p.sum
      beyond == IF p.kind = "high" THEN w[i].c * p.count > p.sum ELSE w[i].c * p.count < p.sum
  IN IF by = {} THEN None
     ELSE [i |-> i, pool |-> p, wick |-> wick,
           rejection |-> inside /\ 2 * wick >= Span(w[i]), continuation |-> beyond]

LiquidityOf(w, pools) ==
  [pools |-> pools,
   hunts |-> SelectSeq([n \in DOMAIN pools |-> HuntOf(w, pools[n])], LAMBDA x : x # None),
   swept |-> {n \in DOMAIN pools : HuntOf(w, pools[n]) # None}]

AnalyzeLiquidity(w) ==
  LET swings == SwingPoints(w)
  IN IF Len(w) < 2 * SwingSide + 3 \/ swings = {} THEN None ELSE LiquidityOf(w, Pools(w, swings))

\* The nearest pool not yet swept above (high) or below (low) the price.
NearestPool(map, price, kind) ==
  LET ok == {n \in DOMAIN map.pools :
               LET p == map.pools[n]
               IN /\ p.kind = kind /\ n \notin map.swept
                  /\ IF kind = "high" THEN p.sum > price * p.count ELSE p.sum < price * p.count}
      far(n) == Distance(map.pools[n].sum, price * map.pools[n].count)
  IN IF ok = {} THEN None
     ELSE map.pools[CHOOSE n \in ok : \A m \in ok :
            \/ far(n) * map.pools[m].count < far(m) * map.pools[n].count
            \/ far(n) * map.pools[m].count = far(m) * map.pools[n].count /\ n <= m]

-----------------------------------------------------------------------------
(***************************************************************************)
(* Momentum: only its sign is read; an impulse is the shortest run of      *)
(* candles of one direction, a doji counting as up, that travelled far.    *)
(***************************************************************************)
MomentumSign(w, period) ==
  LET move == w[Len(w)].c - w[Len(w) - period].c
  IN IF Len(w) <= period \/ Atr(w, AtrPeriod).sum = 0 THEN None
     ELSE IF move > 0 THEN 1 ELSE IF move < 0 THEN -1 ELSE 0

ImpulseOver(w, bars) ==
  LET I == (Len(w) - bars + 1) .. Len(w)
      net == Distance(w[Len(w)].c, w[Len(w) - bars + 1].o)
      up == \A i \in I : w[i].c >= w[i].o
      down == \A i \in I : w[i].c < w[i].o
      \* the mean of body/range over the run is at least six tenths
      share == [i \in I |-> IF Span(w[i]) > 0 THEN (1000 * Body(w[i])) \div Span(w[i]) ELSE 0]
      solid == AddUp(share, I) >= 600 * bars
  IN IF (up \/ down) /\ AtrsAtLeast(net, Displacement, Atr(w, AtrPeriod)) /\ solid
     THEN [direction |-> IF up THEN "up" ELSE "down", first |-> Len(w) - bars + 1, net |-> net]
     ELSE None

DetectImpulse(w, maxBars) ==
  LET found == {b \in 1 .. Smaller(maxBars, Len(w)) : ImpulseOver(w, b) # None}
  IN IF Len(w) < 2 \/ Atr(w, AtrPeriod).sum <= 0 \/ found = {} THEN None
     ELSE ImpulseOver(w, Min(found))

-----------------------------------------------------------------------------
(***************************************************************************)
(* VWAP from an anchor: notional/(3*volume) of the candles' typical        *)
(* prices, and its variance spread/(3*volume)^2.                           *)
(***************************************************************************)
\* Three times the candle's own average price, or else that of high, low and close.
Typical(k) == IF k.vwap > 0 THEN k.vwap ELSE k.h + k.l + k.c

AnchoredVwap(w, anchor) ==
  LET I == anchor .. Len(w)
      volume == VolumeOf(w, I)
      notional == AddUp([i \in I |-> Typical(w[i]) * w[i].v], I)
      squares == AddUp([i \in I |-> Typical(w[i]) * Typical(w[i]) * w[i].v], I)
  IN IF anchor \notin DOMAIN w \/ volume = 0 THEN None
     ELSE [notional |-> notional, volume |-> volume, bars |-> Cardinality(I),
           spread |-> squares * volume - notional * notional]

\* The price against the VWAP, times 3*volume.
FromVwap(price, b) == 3 * b.volume * price - b.notional

\* The price is strictly above value + m sigma (below value - m sigma).
AboveBand(price, m, b) ==
  FromVwap(price, b) > 0 /\ FromVwap(price, b) * FromVwap(price, b) > m * m * b.spread
BelowBand(price, m, b) ==
  FromVwap(price, b) < 0 /\ FromVwap(price, b) * FromVwap(price, b) > m * m * b.spread

\* The relative rise per candle from one VWAP to another, as the fraction rise/run.
RiseOf(now, then, back) ==
  IF then.notional <= 0 THEN [rise |-> 0, run |-> 1]
  ELSE [rise |-> now.notional * then.volume - then.notional * now.volume,
        run |-> then.notional * now.volume * back]

\* The slope of the VWAP over the last `back` of its own values: those of the candles
\* from the first one with volume on.
VwapSlopeOver(w, anchor, back) ==
  IF back <= 0 THEN [rise |-> 0, run |-> 1]
  ELSE RiseOf(AnchoredVwap(w, anchor), AnchoredVwap(SubSeq(w, 1, Len(w) - back), anchor), back)

VwapSlope(w, anchor, lookback) ==
  LET values == {i \in anchor .. Len(w) : VolumeOf(w, anchor .. i) > 0}
  IN VwapSlopeOver(w, anchor, Smaller(lookback, Cardinality(values) - 1))

-----------------------------------------------------------------------------
(***************************************************************************)
(* Volume profile: each candle's volume is spread over the bins its range  *)
(* crosses, in proportion.  Prices are counted in units of step/bins, so   *)
(* the edges are integers; a volume is `Grain` shares per contract, where  *)
(* Grain is a multiple of every candle's range times the number of bins.   *)
(***************************************************************************)
ProfileShare(w, k, b, bins, grain) ==
  LET low == LowestOf(w, DOMAIN w)
      step == HighestOf(w, DOMAIN w) - low
      at(price) == (price - low) * bins
      \* the bins of the candle's low and, the edge belonging to the bin below, its high
      first == Smaller(bins - 1, at(k.l) \div step)
      last == Smaller(bins - 1, Larger(0, (at(k.h) - 1) \div step))
      overlap == Smaller(at(k.h), (b + 1) * step) - Larger(at(k.l), b * step)
  IN IF Span(k) <= 0 THEN (IF b = first THEN k.v * grain ELSE 0)
     ELSE IF first = last THEN (IF b = last THEN k.v * grain ELSE 0)
     ELSE IF b \in first .. last /\ overlap > 0
          THEN k.v * overlap * (grain \div (Span(k) * bins)) ELSE 0

\* Widen [lo, hi] from the point of control towards the heavier neighbour, the upper
\* one on a tie, until the area holds seven tenths of the volume.
ValueArea(vol, poc, bins) ==
  LET total == AddUp(vol, DOMAIN vol)
      area(s) == AddUp(vol, s.lo .. s.hi)
      below(s) == IF s.lo > 0 THEN vol[s.lo - 1] ELSE -1
      above(s) == IF s.hi < bins - 1 THEN vol[s.hi + 1] ELSE -1
      widen(s, n) == IF 10 * area(s) >= 7 * total \/ (s.lo = 0 /\ s.hi = bins - 1) THEN s
                     ELSE IF above(s) >= below(s) THEN [s EXCEPT !.hi = @ + 1]
                     ELSE [s EXCEPT !.lo = @ - 1]
  IN FoldLeft(widen, [lo |-> poc, hi |-> poc], [n \in 1 .. bins |-> n])

VolumeProfile(w, bins, grain) ==
  LET vol == [b \in 0 .. (bins - 1) |->
               AddUp([i \in DOMAIN w |-> ProfileShare(w, w[i], b, bins, grain)], DOMAIN w)]
      poc == Min({b \in DOMAIN vol : \A d \in DOMAIN vol : vol[d] <= vol[b]})
  IN IF HighestOf(w, DOMAIN w) <= LowestOf(w, DOMAIN w) \/ VolumeOf(w, DOMAIN w) = 0 THEN None
     ELSE [vol |-> vol, poc |-> poc, area |-> ValueArea(vol, poc, bins)]

-----------------------------------------------------------------------------
(***************************************************************************)
(* Order flow of a list of trades [side, size, price]: the delta by        *)
(* buckets of equally many trades, the last one taking the remainder.      *)
(***************************************************************************)
Signed(t) == IF t.side = "BUY" THEN t.size ELSE IF t.side = "SELL" THEN -t.size ELSE 0

Bucket(trades, b, buckets) ==
  LET per == Len(trades) \div buckets
  IN ((b - 1) * per + 1) .. (IF b < buckets THEN b * per ELSE Len(trades))

BucketDelta(trades, b, buckets) ==
  AddUp([i \in DOMAIN trades |-> Signed(trades[i])], Bucket(trades, b, buckets))

SizeOf(trades, side) ==
  AddUp([i \in DOMAIN trades |-> IF trades[i].side = side THEN trades[i].size ELSE 0], DOMAIN trades)

\* Aggression of at least 65 % that moved the price by at most 0.05 % was absorbed.
Absorption(trades) ==
  LET buy == SizeOf(trades, "BUY")
      total == buy + SizeOf(trades, "SELL")
      moved == Distance(trades[Len(trades)].price, trades[1].price) * 2000 > trades[1].price
  IN IF moved \/ total = 0 THEN ""
     ELSE IF 100 * buy >= 65 * total THEN "bearish"
     ELSE IF 100 * buy <= 35 * total THEN "bullish" ELSE ""

Exhaustion(d) ==
  LET n == Len(d)
  IN IF n < 3 THEN ""
     ELSE IF d[n - 2] > 0 /\ d[n - 2] > d[n - 1] /\ d[n - 1] > d[n] THEN "buyers"
     ELSE IF d[n - 2] < 0 /\ d[n - 2] < d[n - 1] /\ d[n - 1] < d[n] THEN "sellers"
     ELSE ""

AnalyzeOrderFlow(trades, buckets) ==
  LET d == [b \in 1 .. buckets |-> BucketDelta(trades, b, buckets)]
      third == Larger(1, buckets \div 3)
  IN IF Len(trades) < buckets THEN None
     ELSE [delta |-> SizeOf(trades, "BUY") - SizeOf(trades, "SELL"),
           cvd |-> [b \in 1 .. buckets |-> AddUp(d, 1 .. b)],
           slope |-> AddUp(d, (buckets - third + 1) .. buckets) - AddUp(d, 1 .. third),
           total |-> SizeOf(trades, "BUY") + SizeOf(trades, "SELL"),
           buy |-> SizeOf(trades, "BUY"),
           move |-> trades[Len(trades)].price - trades[1].price,
           first |-> trades[1].price,
           absorption |-> Absorption(trades),
           exhaustion |-> Exhaustion(d)]

=============================================================================
