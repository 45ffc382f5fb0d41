----------------------------- MODULE VirtualTrades -----------------------------
(* The running evaluation of the strategies (app/engine/evaluation/tracker):  *)
(* every signal with an entry and a stop opens a trade on paper, which passes *)
(* over the candles end as a win, a loss or out of time.                      *)
(*                                                                            *)
(* The trades are on one symbol, with the same levels; a candle is what it    *)
(* has touched so far.  Time is counted in candles.                           *)
EXTENDS Integers, Sequences, FiniteSets

CONSTANTS
    SeenLimit,     \* ids remembered (20,000)
    Window,        \* candles a pass reads (500)
    Holding,       \* max_holding_minutes
    MaxSignals,    \* bound: signals
    MaxCandles     \* bound: candles

ASSUME TrackerAssumption ==
    /\ SeenLimit \in Nat /\ Window \in Nat \ {0} /\ Holding \in Nat
    /\ MaxSignals \in Nat /\ MaxCandles \in Nat

VARIABLES
    candles,
    measurable,    \* signals given so far: whether each has an entry and a stop
    seenIds,       \* PerformanceTracker._seen
    virtual,       \* _open: the candle in progress when each trade was opened
    tally,         \* StrategyPerformance
    passedBy,      \* history: trades whose touch left the window before a pass
    again          \* history: a signal was taken for new a second time

trackerVars == <<candles, measurable, seenIds, virtual, tally, passedBy, again>>

Levels == {"stop", "target"}
Minimum(S) == CHOOSE x \in S : \A y \in S : x <= y

-----------------------------------------------------------------------------
(* Endings. *)

(* From the candle in progress at the signal on, as far as they are kept.     *)
Visible(id) == {i \in DOMAIN candles : i >= virtual[id] /\ i > Len(candles) - Window}
Touching(id) == {i \in Visible(id) : candles[i] # {}}

(* A candle that touched both counts as a loss.                               *)
Decided(touched) == IF "stop" \in touched THEN "losses" ELSE "wins"

Ending(id) ==
    IF Touching(id) # {} THEN Decided(candles[Minimum(Touching(id))])
    ELSE IF Len(candles) - virtual[id] >= Holding THEN "timeouts" ELSE "open"

-----------------------------------------------------------------------------
(* Steps. *)

NoTally == [signals |-> 0, tracked |-> 0, wins |-> 0, losses |-> 0, timeouts |-> 0]

TrackerInit ==
    /\ candles = <<>> /\ measurable = <<>> /\ seenIds = <<>> /\ virtual = <<>>
    /\ tally = NoTally
    /\ passedBy = {} /\ again = FALSE

NewCandle(touched) ==
    /\ Len(candles) < MaxCandles
    /\ candles' = Append(candles, touched)
    /\ LET gone == Len(candles') - Window
       IN  passedBy' = passedBy \cup {id \in DOMAIN virtual :
                                         gone >= 1 /\ gone >= virtual[id] /\ candles[gone] # {}}
    /\ UNCHANGED <<measurable, seenIds, virtual, tally, again>>

CandleWidens(level) ==
    /\ candles # <<>> /\ level \notin candles[Len(candles)]
    /\ candles' = [candles EXCEPT ![Len(candles)] = @ \cup {level}]
    /\ UNCHANGED <<measurable, seenIds, virtual, tally, passedBy, again>>

Remembered(ids, id) ==
    LET longer == Append(ids, id)
    IN  SubSeq(longer, 1 + (IF Len(longer) > SeenLimit THEN 1 ELSE 0), Len(longer))

WithTrade(id) ==
    [x \in DOMAIN virtual \cup {id} |-> IF x = id THEN Len(candles) ELSE virtual[x]]

(* A signal is one the tracker has not seen among the last so many.           *)
Track(id, isMeasurable) ==
    /\ \A i \in DOMAIN seenIds : seenIds[i] # id
    /\ seenIds' = Remembered(seenIds, id)
    /\ tally' = [signals |-> tally.signals + 1,
                 tracked |-> tally.tracked + (IF isMeasurable THEN 1 ELSE 0),
                 wins |-> tally.wins, losses |-> tally.losses, timeouts |-> tally.timeouts]
    /\ virtual' = IF isMeasurable THEN WithTrade(id) ELSE virtual

OnSignalRecord(isMeasurable) ==
    /\ Len(measurable) < MaxSignals
    /\ measurable' = Append(measurable, isMeasurable)
    /\ Track(Len(measurable'), isMeasurable)
    /\ UNCHANGED <<candles, passedBy, again>>

(* A record handed in once more, after others.                                *)
OnRecordAgain(id) ==
    /\ Track(id, measurable[id])
    /\ again' = TRUE
    /\ UNCHANGED <<candles, measurable, passedBy>>

Mutant_LossesStayOpen == {id \in DOMAIN virtual : Ending(id) \in {"open", "losses"}}
StillOpen == {id \in DOMAIN virtual : Ending(id) = "open"}
Ended(how) == {id \in DOMAIN virtual : Ending(id) = how}

EvaluateOpen ==
    /\ virtual' = [id \in StillOpen |-> virtual[id]]
    /\ tally' = [signals |-> tally.signals, tracked |-> tally.tracked,
                 wins |-> tally.wins + Cardinality(Ended("wins")),
                 losses |-> tally.losses + Cardinality(Ended("losses")),
                 timeouts |-> tally.timeouts + Cardinality(Ended("timeouts"))]
    /\ UNCHANGED <<candles, measurable, seenIds, passedBy, again>>

TrackerNext ==
    \/ \E touched \in SUBSET Levels : NewCandle(touched)
    \/ \E level \in Levels : CandleWidens(level)
    \/ \E isMeasurable \in BOOLEAN : OnSignalRecord(isMeasurable)
    \/ \E id \in DOMAIN measurable : ~again /\ OnRecordAgain(id)
    \/ EvaluateOpen

TrackerSpec == TrackerInit /\ [][TrackerNext]_trackerVars

-----------------------------------------------------------------------------
(* Properties. *)

TrackerTypeOK ==
    /\ \A i \in DOMAIN candles : candles[i] \subseteq Levels
    /\ Len(seenIds) <= SeenLimit
    /\ DOMAIN virtual \subseteq DOMAIN measurable
    /\ \A counter \in DOMAIN tally : tally[counter] \in 0..MaxSignals + 1

(* Every trade opened is open or has ended once, as one thing, unless a       *)
(* signal came again after it was forgotten (tracker.py:144-275).             *)
LedgerAddsUp ==
    ~again =>
        tally.tracked = tally.wins + tally.losses + tally.timeouts + Cardinality(DOMAIN virtual)

(* Whether a trade has been at its stop, nothing having touched it before.    *)
Since(id) == {i \in DOMAIN candles : i >= virtual[id]}
Stopped(id) == \E i \in Since(id) :
                   "stop" \in candles[i] /\ \A j \in Since(id) : j < i => candles[j] = {}

(* Whenever the passes run, a trade that ends as a win had not been at its    *)
(* stop before, nor in the same candle; unless so many candles went by        *)
(* without a pass that the touch was gone (tracker.py:187-250).               *)
WinsWereNotStopped ==
    [][EvaluateOpen =>
         tally'.wins - tally.wins <=
             Cardinality({id \in DOMAIN virtual \ DOMAIN virtual' : ~Stopped(id)})
             + Cardinality(passedBy)]_trackerVars
================================================================================
