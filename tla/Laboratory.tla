------------------------------ MODULE Laboratory ------------------------------
(* The judgements of the laboratory (app/backtesting: datasets, walk_forward, *)
(* monte_carlo, validation) over bounded inputs, one input per behaviour, and *)
(* the cursor of the market replay.  Money is a small integer; ratios are     *)
(* compared by cross-multiplication.                                          *)
EXTENDS Integers, Sequences, FiniteSets, SequencesExt, FiniteSetsExt

CONSTANTS
    Series,        \* lengths of series of candles
    Sizes,         \* window sizes and steps
    Returns,       \* a fold's return out of sample
    MaxFolds,
    Pnls,          \* a trade's result
    MaxPath,
    Capital,       \* MonteCarloSettings.initial_capital
    RuinPct,       \* MonteCarloSettings.ruin_threshold_pct
    Times,         \* starts of candles
    Closes,
    MaxRows

ASSUME StudyAssumption ==
    /\ Series \subseteq Nat /\ Sizes \subseteq Nat \ {0} /\ {MaxFolds, MaxPath, MaxRows} \subseteq Nat
    /\ Returns \subseteq Int /\ Pnls \subseteq Int /\ Times \subseteq Int
    /\ Capital \in Nat \ {0} /\ RuinPct \in 0..100

VARIABLES
    study,         \* what is judged
    player         \* ReplayController: cursor (-1 before the start), state, candles

studyVars == <<study, player>>

AddUp(s) == SumFunctionOnSet(s, DOMAIN s)

-----------------------------------------------------------------------------
(* Walk forward: windows over the series, and what the folds add up to. *)

Folds(w) == {n \in 0..w.total : w.train + n * w.step + w.test <= w.total}

TestWindow(w, n) == (w.train + n * w.step)..(w.train + n * w.step + w.test - 1)

TrainWindow(w, n) ==
    (IF w.scheme = "rolling" THEN n * w.step ELSE 0)..(w.train + n * w.step - 1)

(* Stability, 1 - deviation / |mean|, is not negative.                        *)
Steady(returns) ==
    LET sum == AddUp(returns)
        squares == AddUp([i \in DOMAIN returns |-> returns[i] * returns[i]])
    IN  Len(returns) < 2 \/ sum = 0 \/ Len(returns) * squares <= 2 * sum * sum

IsStable(returns) ==
    /\ returns # <<>>
    /\ 5 * Cardinality({i \in DOMAIN returns : returns[i] > 0}) >= 3 * Len(returns)
    /\ Steady(returns)

-----------------------------------------------------------------------------
(* Monte Carlo: one path, a shuffle of the results. *)

(* Equity, peak, the deepest fall as <<fall, peak>>, and whether it was ruin. *)
Deeper(fall, worst) == IF fall[1] * worst[2] > worst[1] * fall[2] THEN fall ELSE worst

AfterTrade(at, pnl) ==
    LET equity == at.equity + pnl
        peak == Max({at.peak, equity})
    IN  [equity |-> equity,
         peak |-> peak,
         worst |-> Deeper(<<peak - equity, peak>>, at.worst),
         ruined |-> at.ruined \/ 100 * equity <= Capital * (100 - RuinPct)]

SimulatePath(pnls) ==
    FoldLeft(AfterTrade,
             [equity |-> Capital, peak |-> Capital, worst |-> <<0, Capital>>, ruined |-> FALSE],
             pnls)

-----------------------------------------------------------------------------
(* Overfitting, in tenths, and qualification. *)

AtTheEdges(o) == Min({3, o.edges})

Degraded(o) == CASE o.ratio = "halved" -> 3 [] o.ratio = "lost" -> 4 [] OTHER -> 0

Risk(o) == Min({10, (IF o.outlier THEN 3 ELSE 0) + Degraded(o)
                    + (IF o.many THEN 1 ELSE 0) + AtTheEdges(o)})

IsOverfit(o) == Risk(o) >= 5 \/ o.ratio = "lost"

Minimums == {"min_trades", "profit_factor"}

(* What is refused, and whether the verdict refuses it.                       *)
Qualify(q) ==
    [reasons |-> {m \in Minimums : m \in q.below}
                 \cup {r \in {"monte_carlo"} : q.needs.monteCarlo /\ q.deep}
                 \cup {r \in {"benchmark"} : q.needs.benchmark /\ q.beaten # {"hold", "random"}}
                 \cup {r \in {"robustness"} : ~q.robust}
                 \cup {r \in {"walk_forward"} : q.needs.walkForward /\ q.walked # "stable"},
     approved |-> /\ q.below = {}
                  /\ q.needs.monteCarlo => ~q.deep
                  /\ q.needs.benchmark => q.beaten = {"hold", "random"}
                  /\ q.robust
                  /\ q.needs.walkForward => q.walked = "stable"]

-----------------------------------------------------------------------------
(* Datasets: one candle per start, the last row of it, in order. *)

RowKept(rows, time) == CHOOSE i \in DOMAIN rows :
    rows[i].start = time /\ \A j \in DOMAIN rows : rows[j].start = time => j <= i

Starts(rows) == {rows[i].start : i \in DOMAIN rows}

(* sorted: the n-th start is the one with n - 1 before it.                    *)
Nth(times, n) == CHOOSE t \in times : Cardinality({u \in times : u < t}) = n - 1

FromRows(rows) ==
    [n \in 1..Cardinality(Starts(rows)) |-> rows[RowKept(rows, Nth(Starts(rows), n))]]

-----------------------------------------------------------------------------
(* The replay's cursor. *)

Player(n) == [cursor |-> -1, state |-> "paused", total |-> n]

AtEnd(p) == p.cursor + 1 >= p.total

Arrived(p) == IF AtEnd(p) THEN "finished" ELSE p.state

Play == player' = IF AtEnd(player) THEN player ELSE [player EXCEPT !.state = "playing"]

Pause == player' = IF player.state = "finished" THEN player ELSE [player EXCEPT !.state = "paused"]

StepForward ==
    player' = IF AtEnd(player) THEN [player EXCEPT !.state = "finished"]
              ELSE LET moved == [player EXCEPT !.cursor = @ + 1]
                   IN  [moved EXCEPT !.state = Arrived(moved)]

StepBack ==
    player' = [player EXCEPT !.cursor = IF @ <= 0 THEN -1 ELSE @ - 1, !.state = "paused"]

Seek == \E n \in -1..player.total :
    player' = IF player.total = 0 THEN player
              ELSE LET moved == [cursor |-> Max({0, Min({n, player.total - 1})}),
                                 state |-> "paused", total |-> player.total]
                   IN  [moved EXCEPT !.state = Arrived(moved)]

Rewind == player' = [player EXCEPT !.cursor = -1, !.state = "paused"]

-----------------------------------------------------------------------------
(* Inputs and specification. *)

Windows == [of : {"windows"}, scheme : {"rolling", "expanding"}, total : Series,
            train : Sizes, test : Sizes, step : Sizes]
Walks == [of : {"folds"}, returns : SeqOf(Returns, MaxFolds)]
PnlPaths == [of : {"path"}, pnls : SeqOf(Pnls, MaxPath)]
Optimisations == [of : {"optimisation"}, outlier : BOOLEAN, ratio : {"kept", "halved", "lost"},
                  many : BOOLEAN, edges : 0..5]
Candidacies == [of : {"candidate"}, below : SUBSET Minimums, deep : BOOLEAN,
                beaten : SUBSET {"hold", "random"}, robust : BOOLEAN,
                walked : {"none", "unstable", "stable"},
                needs : [monteCarlo : BOOLEAN, benchmark : BOOLEAN, walkForward : BOOLEAN]]
Datasets == [of : {"rows"}, rows : SeqOf([start : Times, close : Closes], MaxRows)]

StudyInit ==
    \/ /\ study \in Windows \cup Walks \cup PnlPaths \cup Optimisations \cup Candidacies \cup Datasets
       /\ player = Player(0)
    \/ /\ study = [of |-> "replay"]
       /\ player \in {Player(n) : n \in Series}

StudyNext ==
    /\ study.of = "replay"
    /\ UNCHANGED study
    /\ Play \/ Pause \/ StepForward \/ StepBack \/ Seek \/ Rewind

StudySpec == StudyInit /\ [][StudyNext]_studyVars

-----------------------------------------------------------------------------
(* Properties. *)

(* What a fold is tested on was never trained on, in that fold or an earlier  *)
(* one, and no fold the series allows is missing (windows.py:51-101).         *)
OutOfSample ==
    study.of = "windows" =>
        /\ \A n \in Folds(study) :
             /\ \A t \in TrainWindow(study, n), x \in TestWindow(study, n) : t < x
             /\ TestWindow(study, n) \subseteq 0..study.total - 1
             /\ \A m \in 0..n : TrainWindow(study, m) \cap TestWindow(study, n) = {}
        /\ LET next == study.train + Cardinality(Folds(study)) * study.step
           IN  next + study.test > study.total

(* A walk forward that counts as stable has not lost money in total, whatever *)
(* the folds (analysis.py:60-221).                                            *)
StableNeverLoses == study.of = "folds" /\ IsStable(study.returns) => AddUp(study.returns) >= 0

(* On every path: ruin shows as a drawdown at least that deep, and a loss of  *)
(* less than everything as one at least as deep (simulation.py:154-179).      *)
FallsAreSeen ==
    study.of = "path" =>
        LET end == SimulatePath(study.pnls)
            Shows(loss) == end.worst[1] * Capital >= loss * end.worst[2]
        IN  /\ end.ruined => 100 * end.worst[1] >= RuinPct * end.worst[2]
            /\ end.equity >= 0 => Shows(Capital - end.equity)

(* What speaks against an optimisation, once each.                            *)
Doubts(o) == {d \in {"outlier", "degraded", "many", "edges"} :
                 CASE d = "outlier" -> o.outlier [] d = "degraded" -> o.ratio = "halved"
                   [] d = "many" -> o.many [] OTHER -> o.edges > 0}

(* No single test condemns an optimisation, except an out-of-sample result    *)
(* that lost (overfitting.py:33-189).                                         *)
OneDoubtIsNotEnough ==
    study.of = "optimisation" /\ IsOverfit(study) /\ study.ratio # "lost" =>
        Cardinality(Doubts(study)) >= 2

(* A refusal always says why, and what a reason was written for is refused    *)
(* (qualification.py:93-178).                                                 *)
RefusalIsExplained ==
    study.of = "candidate" => (Qualify(study).approved <=> Qualify(study).reasons = {})

(* A loaded series has every start once, in order, with the row that came     *)
(* last (datasets/manager.py:127-150).                                        *)
LastRowWins ==
    study.of = "rows" =>
        LET candles == FromRows(study.rows)
        IN  /\ \A n \in 1..Len(candles) - 1 : candles[n].start < candles[n + 1].start
            /\ \A i \in DOMAIN study.rows :
                 (\A j \in DOMAIN study.rows : j > i => study.rows[j].start # study.rows[i].start)
                     => \E n \in DOMAIN candles : candles[n] = study.rows[i]

(* However it was played, paused and moved, a replay that plays has more to   *)
(* play, and one that finished has not (replay.py:25-131).                    *)
CursorAgrees ==
    /\ player.state = "playing" => ~AtEnd(player)
    /\ player.state = "finished" => AtEnd(player)
    /\ player.cursor \in -1..player.total
===============================================================================
