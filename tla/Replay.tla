-------------------------------- MODULE Replay --------------------------------
(* Backtests in flight (app/backtesting: engine, clock, market, quant_source; *)
(* app/utils/time).  Each runs in a thread of its own - a job of the research *)
(* cluster or a request of the dashboard - inside the process that trades,    *)
(* and each replaces the process's only clock for as long as it replays.      *)
(*                                                                            *)
(* A qualification replays the whole series and then its contiguous parts     *)
(* with the same decision source.  A bar is its number in the whole series.   *)
EXTENDS Integers, FiniteSets

CONSTANTS
    Jobs,          \* backtests of the research cluster
    Requests,      \* backtests asked for through the dashboard
    ReplayWorkers, \* ResearchClusterSettings.max_workers
    Bars,          \* bars of the series
    Parts,         \* parts of the robustness test
    Wall           \* the wall clock

ASSUME PartsAssumption == Parts \in Nat \ {0, 1} /\ Bars \in Nat

Replays == Jobs \cup Requests

VARIABLES
    clock,         \* _clock: the clock utc_now() reads
    savedClock,    \* what each replay will put back
    pc,            \* where each replay stands
    segment,       \* 0: the whole series; otherwise the part it replays
    bar,           \* the bar each replay's own clock shows
    fed,           \* QuantCoreDecisionSource._fed_index, within the segment
    market,        \* bars the strategies can see
    overlapped     \* history: two replays have been on the clock at once

replayVars == <<clock, savedClock, pc, segment, bar, fed, market, overlapped>>

-----------------------------------------------------------------------------
(* Segments. *)

SegmentBars(n) ==
    LET size == Bars \div Parts
    IN  IF n = 0 THEN 1..Bars
        ELSE ((n - 1) * size + 1)..(IF n = Parts THEN Bars ELSE n * size)

(* A series shorter than the parts is not divided, and a part of one bar is   *)
(* passed over.                                                               *)
Worthwhile(n) == Bars >= Parts /\ Cardinality(SegmentBars(n)) >= 2

Following(n) == {m \in (n + 1)..Parts : Worthwhile(m) /\ \A k \in (n + 1)..(m - 1) : ~Worthwhile(k)}

(* The bars before the segment.                                               *)
Offset(r) == IF segment[r] = 0 THEN 0 ELSE (segment[r] - 1) * (Bars \div Parts)

LastBar(r) == Offset(r) + Cardinality(SegmentBars(segment[r]))

-----------------------------------------------------------------------------
(* Steps. *)

Inside == {r \in Replays : pc[r] \in {"bar", "decide", "leave", "fail"}}

OnTheClock == {r \in Replays : pc[r] # "idle" /\ pc[r] # "done" /\ pc[r] # "enter"}

(* A source that has been fed nothing, and a market with nothing in it.      *)
Unfed == fed = [r \in Replays |-> 0] /\ market = [r \in Replays |-> {}]

ReplayInit ==
    /\ clock = Wall
    /\ savedClock = [r \in Replays |-> Wall]
    /\ pc = [r \in Replays |-> "idle"]
    /\ segment = [r \in Replays |-> 0]
    /\ bar = [r \in Replays |-> 0]
    /\ Unfed
    /\ overlapped = FALSE

To(r, where) == pc' = [pc EXCEPT ![r] = where]

Reset(r) ==
    /\ fed' = [fed EXCEPT ![r] = 0]
    /\ market' = [market EXCEPT ![r] = {}]

(* The cluster runs so many at a time; the dashboard's requests are not       *)
(* counted among them.                                                        *)
Working == {j \in Jobs : pc[j] \notin {"idle", "done"}}
Free(r) == r \in Jobs => Cardinality(Working) < ReplayWorkers

(* run_async: a fresh stack, a clock of its own, the source reset.            *)
Begin(r) ==
    /\ pc[r] = "idle"
    /\ Free(r)
    /\ To(r, "enter")
    /\ bar' = [bar EXCEPT ![r] = 0]
    /\ Reset(r)
    /\ UNCHANGED <<clock, savedClock, segment, overlapped>>

(* use_clock: what was there is kept, the replay's own is put in its place.   *)
SaveClock(r) ==
    /\ pc[r] = "enter"
    /\ savedClock' = [savedClock EXCEPT ![r] = clock]
    /\ To(r, "install")
    /\ overlapped' = (overlapped \/ OnTheClock # {})
    /\ UNCHANGED <<clock, segment, bar, fed, market>>

SetClock(r) == clock' = r

InstallClock(r) ==
    /\ pc[r] = "install"
    /\ SetClock(r)
    /\ To(r, "bar")
    /\ UNCHANGED <<savedClock, segment, bar, fed, market, overlapped>>

(* The next bar: its close on the clock, its path through the engine.         *)
PlayBar(r) ==
    /\ pc[r] = "bar"
    /\ LET next == IF bar[r] = 0 THEN Offset(r) + 1 ELSE bar[r] + 1
       IN  /\ next <= LastBar(r)
           /\ bar' = [bar EXCEPT ![r] = next]
    /\ To(r, "decide")
    /\ UNCHANGED <<clock, savedClock, segment, fed, market, overlapped>>

PushCandles(r, bars) == market' = [market EXCEPT ![r] = @ \cup bars]

(* The source is fed up to the bar and asked, on the loop all sources share.  *)
FeedUpTo(r) ==
    /\ PushCandles(r, (Offset(r) + fed[r] + 1)..bar[r])
    /\ fed' = [fed EXCEPT ![r] = bar[r] - Offset(r)]

Decide(r) ==
    /\ pc[r] = "decide"
    /\ FeedUpTo(r)
    /\ To(r, IF bar[r] = LastBar(r) THEN "leave" ELSE "bar")
    /\ UNCHANGED <<clock, savedClock, segment, bar, overlapped>>

DecideRaises(r) ==
    /\ pc[r] = "decide"
    /\ FeedUpTo(r)
    /\ To(r, "fail")
    /\ UNCHANGED <<clock, savedClock, segment, bar, overlapped>>

Mutant_OnlyOnSuccess(r) == IF pc[r] = "fail" THEN clock ELSE savedClock[r]
Restored(r) == savedClock[r]

(* What is left open is closed, the clock is put back, and the next part      *)
(* begins, unless there is none.                                              *)
LeaveClock(r) ==
    /\ pc[r] = "leave"
    /\ clock' = Restored(r)
    /\ IF Following(segment[r]) = {}
       THEN To(r, "done") /\ UNCHANGED segment
       ELSE /\ segment' = [segment EXCEPT ![r] = CHOOSE m \in Following(@) : TRUE]
            /\ To(r, "idle")
    /\ UNCHANGED <<savedClock, bar, fed, market, overlapped>>

LeaveFailed(r) ==
    /\ pc[r] = "fail"
    /\ clock' = Restored(r)
    /\ To(r, "done")
    /\ UNCHANGED <<savedClock, segment, bar, fed, market, overlapped>>

ReplayNext ==
    \E r \in Replays : \/ Begin(r) \/ SaveClock(r) \/ InstallClock(r) \/ PlayBar(r)
                       \/ Decide(r) \/ DecideRaises(r) \/ LeaveClock(r) \/ LeaveFailed(r)

ReplaySpec == ReplayInit /\ [][ReplayNext]_replayVars

-----------------------------------------------------------------------------
(* Properties. *)

ReplayTypeOK ==
    /\ clock \in Replays \cup {Wall}
    /\ savedClock \in [Replays -> Replays \cup {Wall}]
    /\ pc \in [Replays -> {"idle", "enter", "install", "bar", "decide", "leave", "fail", "done"}]
    /\ segment \in [Replays -> 0..Parts] /\ bar \in [Replays -> 0..Bars]
    /\ fed \in [Replays -> 0..Bars] /\ market \in [Replays -> SUBSET (1..Bars)]
    /\ overlapped \in BOOLEAN

(* Unless two replays were on the clock at once, a replay reads its own clock *)
(* and everybody reads the wall clock again when it has ended, by success or  *)
(* by an error (utils/time.py:43-59).                                         *)
ClockComesBack ==
    ~overlapped =>
        /\ \A r \in Inside : clock = r
        /\ Inside = {} => clock = Wall

(* Asked about a bar, the strategies see the bars of the segment up to it and *)
(* no other, however often the source was used (quant_source.py:270-361).     *)
SeesExactlyThePast ==
    \A r \in Replays : pc[r] \in {"bar", "leave"} =>
        market[r] = {b \in SegmentBars(segment[r]) : b <= bar[r]}

(* A qualification that reached its end has replayed every bar in a part of   *)
(* its own, when no part is too short (qualification.py:180-199).             *)
PartsCoverTheSeries ==
    \A r \in Replays : pc[r] = "done" /\ segment[r] = Parts =>
        \A b \in 1..Bars : Cardinality({n \in 1..Parts : b \in SegmentBars(n)}) = 1
===============================================================================
