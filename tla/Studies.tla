------------------------------- MODULE Studies -------------------------------
(***************************************************************************)
(* The analytical operators put to work on inputs that move on: a window   *)
(* of candles that gains one at a time and, once full, loses its oldest; a *)
(* tape of trades; a list of votes.  A study is one of the three, read as  *)
(* the program reads its window, so what an action property says of a step *)
(* is what a later reading may change of an earlier one.                   *)
(***************************************************************************)
EXTENDS StrategyLibrary

D == INSTANCE Deliberation

CONSTANTS
  Charts,     \* the charts a study may start from
  Shapes,     \* the candles that may follow
  WindowSize, \* candles the operators are given (120 in store.py)
  MaxCandles, \* bound: candles of a study, those that left its window included
  Trades,     \* the trades that may follow
  MaxTrades,  \* bound: trades of a tape
  Votes,      \* the signals that may join a vote
  MaxVotes,   \* bound: signals of a vote
  Ceiling,    \* the chart is mirrored around Ceiling/2
  Contexts,   \* the contexts the strategies are given
  Panel       \* weights and performance the consensus is configured with

\* A candle whose prices are out of order is discarded (market/validator/validator.py:197-208).
\* Its own average price lies within it (market/aggregator/candles.py:60-78).
Candles == {k \in [o : Int, h : Int, l : Int, c : Int, v : Nat, vwap : Nat] :
              /\ k.l <= k.o /\ k.o <= k.h /\ k.l <= k.c /\ k.c <= k.h
              /\ k.vwap # 0 => 3 * k.l <= k.vwap /\ k.vwap <= 3 * k.h}

\* A trade nobody can tell the aggressor of counts for neither side (orderflow.py:91-106).
Prints == [side : {"BUY", "SELL", "UNKNOWN"}, size : Nat, price : Int]

\* What a strategy knows of the market besides its candles; what the program may not
\* have is None or an empty set (engine/models/models.py:195-230, enums.py:32-59).
Situations ==
  [regime : {"trending", "ranging", "expansion", "compression", "breakout", "reversal",
             "high_volatility", "low_volatility", "unknown"},
   volatility : {"low", "normal", "high"},
   ema : {None} \cup [n : Int, d : Nat \ {0}], anchor : Int,
   book : {None} \cup [imbalance : Int, pressure : Int], trades : Seq(Prints),
   quality : Int, minQuality : Int, maxSpread : SUBSET Int, spread : SUBSET Int,
   spreadElevated : BOOLEAN, volumeRatio : SUBSET Int, volumeSufficient : BOOLEAN,
   inSession : BOOLEAN, grades : [DOMAIN ScoreWeights -> Int]]

Signals == [strategy : DOMAIN Panel.weight, direction : D!Directions, score : Int]

\* A weight set while the system runs is cut at 0 (consensus/engine.py:82-84); those of
\* the settings are taken as they are (settings.py:504), and nobody means them to be negative.
ASSUME ChartsAndVotes ==
  /\ Charts \subseteq Seq(Candles) /\ Shapes \subseteq Candles
  /\ Contexts \subseteq Situations /\ Ceiling \in Int
  /\ Trades \subseteq Prints /\ Votes \subseteq Signals
  /\ Panel.weight \in [DOMAIN Panel.weight -> Nat]
  /\ \A s \in DOMAIN Panel.weight : Panel.performance[s] \in Nat
  /\ \A m \in DOMAIN Panel.multipliers : Panel.multipliers[m] \in Nat

\* No chart starts beyond its window.
ASSUME StudyBounds ==
  /\ {MaxCandles, MaxTrades, MaxVotes} \subseteq Nat /\ WindowSize \in Nat \ {0}
  /\ \A w \in Charts : Len(w) <= WindowSize

\* A contract is cut into as many shares as any candle can be spread in: the profile
\* divides without a rest where the code has floats (volume_profile.py:91-106).
Divided == {k \in Candles : Span(k) # 0 => Grain % (Span(k) * Bins) = 0}

ASSUME SharesAreWhole == Charts \subseteq Seq(Divided) /\ Shapes \subseteq Divided

VARIABLE study

\* gone: candles that have left the window.
Chart(w, ctx, gone) == [kind |-> "chart", data |-> w, context |-> ctx, gone |-> gone]
Tape(t) == [kind |-> "tape", data |-> t]
Vote(v) == [kind |-> "vote", data |-> v]

StudyInit ==
  study \in {Chart(w, ctx, 0) : w \in Charts, ctx \in Contexts} \cup {Tape(<< >>), Vote(<< >>)}

\* The last WindowSize candles; where the day began is counted from the oldest of them.
Grown(k) == Chart(Append(study.data, k), study.context, study.gone)
Slid(k) ==
  Chart(Tail(Append(study.data, k)), [study.context EXCEPT !.anchor = @ - 1], study.gone + 1)

CandleCloses ==
  /\ study.kind = "chart" /\ study.gone + Len(study.data) < MaxCandles
  /\ \E k \in Shapes : study' = IF Len(study.data) < WindowSize THEN Grown(k) ELSE Slid(k)

TradePrints ==
  /\ study.kind = "tape" /\ Len(study.data) < MaxTrades
  /\ \E t \in Trades : study' = Tape(Append(study.data, t))

SignalJoins ==
  /\ study.kind = "vote" /\ Len(study.data) < MaxVotes
  /\ \E v \in Votes : study' = Vote(Append(study.data, v))

StudyNext == CandleCloses \/ TradePrints \/ SignalJoins

StudySpec == StudyInit /\ [][StudyNext]_study

-----------------------------------------------------------------------------
Charted == study.kind = "chart"
Window == study.data
Context == study.context

IsSignal(x) ==
  x # None => /\ x.direction \in {"LONG", "SHORT"}
              /\ {x.score, x.confidence} \subseteq 0 .. 100

\* Whatever the inputs, a signal's score and confidence are grades out of a hundred and
\* so are those of a consensus (quant_strategy.py, consensus/algorithms.py).
StudyTypeOK ==
  CASE Charted ->
         /\ Len(Window) <= WindowSize
         /\ \A s \in Library : IsSignal(Analyze(s, Window, Context, 3, 0))
    [] study.kind = "tape" -> Window \in Seq(Trades) /\ Len(Window) <= MaxTrades
    [] study.kind = "vote" ->
         /\ Window \in Seq(Votes) /\ Len(Window) <= MaxVotes
         /\ \A m \in D!Methods :
              LET c == D!Consensus(m, Window, Panel)
              IN c.direction \in D!Directions /\ c.agreement \in 0 .. 100

\* Candles that leave the window in a step.
Lost == study.gone' - study.gone

\* The pivot of its kind before p is out of reach of the next window.
Unpreceded(p) ==
  \A q \in OfKind(SwingPoints(Window), p.kind) : q.i < p.i => q.i - Lost \notin PivotRange(Window')

\* A confirmed pivot that the window still reaches is never revised by a later candle,
\* nor is the label it got, which is only forgotten when the pivot it was judged
\* against has left (structure.py:34-72, feature_store/store.py:372-395).
PivotsStand ==
  [][Charted => \A p \in SwingPoints(Window) :
       LET now == [p EXCEPT !.i = @ - Lost]
       IN now.i \in PivotRange(Window') =>
            \/ now \in SwingPoints(Window')
            \/ Unpreceded(p) /\ [now EXCEPT !.label = ""] \in SwingPoints(Window')]_study

\* A gap is only ever filled: judged at the same ATR, a later candle adds at most the
\* gap around the previous one, and no gap opens up again (smc.py:139-186).
GapsOnlyFill ==
  [][Charted /\ Len(Window) >= 2 =>
       LET a == Atr(Window, AtrPeriod)
       IN \A g \in FairValueGaps(Window', a) :
            \/ g.i + Lost = Len(Window)
            \/ \E f \in FairValueGaps(Window, a) :
                 /\ f.i = g.i + Lost /\ f.direction = g.direction
                 /\ f.top = g.top /\ f.bottom = g.bottom /\ g.open <= f.open]_study

Flipped(x) == [x EXCEPT !.n = Ceiling * x.d - x.n]
Equal(x, y) == x.n * y.d = y.n * x.d

\* The strategies that treat both sides alike: no tie to break, no side tried first, no
\* threshold that is a percentage of the price.
EvenHanded == {"range_breakout", "opening_range_breakout", "vwap_mean_reversion",
               "mean_reversion", "atr_expansion", "orderbook_imbalance", "cvd",
               "delta_confirmation"}

\* The context of a market where every buyer is a seller.
Reflected(ctx) ==
  LET side(x) == IF x = "BUY" THEN "SELL" ELSE IF x = "SELL" THEN "BUY" ELSE x
  IN [ctx EXCEPT !.book = IF @ = None THEN None
                          ELSE [imbalance |-> -@.imbalance, pressure |-> -@.pressure],
                 !.trades = [i \in DOMAIN @ |-> [side |-> side(@[i].side), size |-> @[i].size,
                                                 price |-> 2 * @[1].price - @[i].price]]]

MirrorEachOther(here, there) ==
  IF here = None THEN there = None
  ELSE /\ there # None
       /\ there.direction # here.direction
       /\ there.confidence = here.confidence /\ there.pending = here.pending
       /\ Equal(there.entry, Flipped(here.entry))
       /\ Equal(there.stop, Flipped(here.stop))
       /\ Equal(there.target, Flipped(here.target))

\* On a chart turned upside down, with the book and the tape turned over too, the
\* library sends the other side's signal at the mirrored levels, with the same
\* confidence and the same confirmations pending (quant_strategy.py:161-262).
MirroredSignals ==
  Charted /\ Len(Window) >= 3 =>
    \A s \in EvenHanded :
      MirrorEachOther(Analyze(s, Window, Context, 3, 0),
                      Analyze(s, Mirror(Window, Ceiling), Reflected(Context), 3, 0))

\* The strategies whose target is projected from the entry or is the mean they revert to.
Projecting == {"range_breakout", "opening_range_breakout", "vwap_breakout",
               "vwap_mean_reversion", "mean_reversion", "atr_expansion",
               "volatility_compression", "orderbook_imbalance", "cvd", "delta_confirmation"}

\* The range a breakout left had no height.
FlatRange(w) ==
  LET prior == (Len(w) - Lookback) .. (Len(w) - 1)
  IN HighestOf(w, prior) = LowestOf(w, prior)

\* What the strategy s answers passes the level checks of the validator, or projects
\* the distance of a flat range, its target being its entry.
InOrderOfTrade(s, x, w) ==
  \/ x = None
  \/ LevelChecks(x)
  \/ s = "range_breakout" /\ FlatRange(w) /\ x.target = x.entry

\* Their signals always pass the level checks of the validator, the stop behind the
\* entry and the target ahead of it, but for a breakout from a flat range
\* (signal_validator.py:36-60, range_breakout.py:65-72).
LevelsHold ==
  Charted /\ Len(Window) >= 3 =>
    \A s \in Projecting : InOrderOfTrade(s, Evaluate(s, Window, Context), Window)

\* With mitigated blocks refused, the order block strategy can only trade the very
\* candle of the displacement: a candle that returns to the block mitigates it, so the
\* return the strategy waits for never finds a fresh block (order_block.py:43-63).
OnlyTheDisplacement ==
  LET smc == AnalyzeSMC(Window)
  IN Charted /\ Len(Window) >= 3 /\ OrderBlock(Window, smc) # None =>
       LatestOf(FreshBlocks(smc)).i = Len(Window) - 1

\* The profile loses no volume between its bins, and its value area holds seven tenths
\* of it around the point of control (volume_profile.py:84-128).
ProfileWhole ==
  Charted /\ Window # << >> =>
    LET p == VolumeProfile(Window, Bins, Grain)
        sum(I) == AddUp(p.vol, I)
    IN p # None =>
         /\ sum(DOMAIN p.vol) = Grain * VolumeOf(Window, DOMAIN Window)
         /\ p.poc \in p.area.lo .. p.area.hi
         /\ 10 * sum(p.area.lo .. p.area.hi) >= 7 * sum(DOMAIN p.vol)

\* The cumulative delta over the buckets ends at the delta of the window: every trade
\* is in exactly one bucket (orderflow.py:96-109).
CvdEndsAtDelta ==
  study.kind = "tape" =>
    LET f == AnalyzeOrderFlow(Window, Buckets)
    IN f # None => f.cvd[Buckets] = f.delta

Reversed(signals) ==
  [i \in DOMAIN signals |-> [signals[i] EXCEPT !.direction = D!Opposite(@)]]

\* Swapping buyers and sellers swaps the verdict and changes nothing else of it.
MirroredVotes ==
  study.kind = "vote" =>
    \A m \in D!Methods :
      LET here == D!Consensus(m, Window, Panel)
          there == D!Consensus(m, Reversed(Window), Panel)
      IN there = [here EXCEPT !.direction = D!Opposite(@)]

\* A further signal on the winning side never takes the decision away from it
\* (consensus/algorithms.py).
SupportKeepsTheWinner ==
  [][study.kind = "vote" =>
       LET joined == Window'[Len(Window')].direction
       IN \A m \in D!Methods :
            D!Consensus(m, Window, Panel).direction = joined /\ joined # "NEUTRAL"
              => D!Consensus(m, Window', Panel).direction = joined]_study

(* Indicators, strategies and votes treat both sides alike, put stops and    *)
(* targets where they belong, and lose no volume                             *)
(* (strategies/*, analytics/indicators/*, consensus/algorithms.py).          *)
StudiesHold ==
  /\ StudyTypeOK
  /\ MirroredSignals /\ LevelsHold /\ OnlyTheDisplacement
  /\ ProfileWhole /\ CvdEndsAtDelta /\ MirroredVotes

(* One more candle, though the oldest leaves for it, or one more voice for   *)
(* the winner, does not take back what was concluded without it              *)
(* (indicators/structure.py:33-73, indicators/smc.py:153-214,                *)
(* consensus/algorithms.py:48-204).                                          *)
NothingIsRewritten == PivotsStand /\ GapsOnlyFill /\ SupportKeepsTheWinner
=============================================================================
