-------------------------- MODULE PositionLifecycle --------------------------
(***************************************************************************)
(* One open position under the management pass: break-even, trailing stop  *)
(* and the precedence of exits.  Where ExecutionEngine lets a pass keep or *)
(* exit any position, this module says which it does and with what stop.   *)
(*                                                                         *)
(* One visit of the pass is one step: nothing in it suspends between the   *)
(* mark and the close.  The market chooses the mark, the candles the ATR   *)
(* (given as the trailing distance, ATR times its multiple, or NoAtr) and  *)
(* the context engine how it reads the regime.  R multiples are whole, and *)
(* the rounding of a trailed stop to 8 decimals is not modelled.  Prices   *)
(* are compared in the direction of the position, as side * price.         *)
(***************************************************************************)
EXTENDS Integers, Sequences, FiniteSets

CONSTANTS
    Entry,                  \* entry price
    Marks,                  \* prices at which the position may be marked
    InitialStops,           \* stops an opened or adopted position may start with
    Targets,                \* likewise its take profits
    NoLevel,                \* no stop, or no take profit
    Distances,              \* trailing distances the ATR may give
    NoAtr,                  \* too few candles for an ATR
    ManualStops,            \* stops an operator may set by hand
    BreakEvenR,             \* ExecutionSettings: 0 disables break-even
    TrailingEnabled,
    TrailingR,              \* trailing_activate_r
    MaxHolding,             \* max_holding_minutes, 0 disables the time exit
    ExitOnRegimeChange,
    MinRegimeAge,           \* regime_change_min_holding_seconds
    Confirmations,          \* regime_exit_confirmations
    MaxAge,                 \* bound: how long the clock runs
    MaxReadings             \* bound: regime readings made

Sides == {1, -1}
Readings == {"favourable", "adverse", "unknown"}
Reasons == {"stop_loss", "break_even", "trailing_stop", "take_profit", "time_exit",
            "regime_change", "kill_switch"}

ASSUME LifecycleAssumption ==
    /\ Entry \in Int
    /\ Marks \subseteq Int
    /\ InitialStops \subseteq Int \cup {NoLevel} /\ Targets \subseteq Int \cup {NoLevel}
    /\ ManualStops \subseteq Int
    /\ NoLevel \notin Int /\ NoAtr \notin Int
    /\ Distances \subseteq (Nat \ {0}) \cup {NoAtr}
    /\ {BreakEvenR, TrailingR, MaxHolding, MinRegimeAge, Confirmations, MaxAge,
        MaxReadings} \subseteq Nat
    /\ {TrailingEnabled, ExitOnRegimeChange} \subseteq BOOLEAN

VARIABLES
    pos,            \* the Position
    age,            \* its holding time
    readings,       \* every regime reading made for it, in order
    byHand          \* history: the operator has moved its stop

positionVars == <<pos, age, readings, byHand>>

Levels == Int \cup {NoLevel}
Position == [side : Sides, initial : Levels, stop : Levels, target : Levels,
             mark : Int, best : Int, breakEven : BOOLEAN, trailing : BOOLEAN,
             regimeKnown : BOOLEAN, adverse : Nat, status : {"open"} \cup Reasons]

PositionTypeOK ==
    /\ pos \in Position
    /\ age \in 0..MaxAge
    /\ readings \in Seq(Readings)
    /\ byHand \in BOOLEAN

IsOpen == pos.status = "open"

-----------------------------------------------------------------------------
(* Opened from a fill, or adopted from the broker with the stop found there. *)
PositionInit ==
    /\ \E side \in Sides, stop \in InitialStops, target \in Targets, known \in BOOLEAN :
          pos = [side |-> side, initial |-> stop, stop |-> stop, target |-> target,
                 mark |-> Entry, best |-> Entry, breakEven |-> FALSE, trailing |-> FALSE,
                 regimeKnown |-> known, adverse |-> 0, status |-> "open"]
    /\ age = 0
    /\ readings = <<>>
    /\ byHand = FALSE

(* a is at least, or more, favourable than b for the position p. *)
AtLeast(p, a, b) == p.side * a >= p.side * b
Beyond(p, a, b) == p.side * a > p.side * b

RiskPerUnit(p) ==
    IF p.initial = NoLevel THEN 0
    ELSE IF Entry >= p.initial THEN Entry - p.initial ELSE p.initial - Entry

(* r_multiple() >= r, of a position with some risk to measure it by. *)
Reached(p, r) == (p.mark - Entry) * p.side >= r * RiskPerUnit(p)

UpdateMark(p, mark) ==
    [p EXCEPT !.mark = mark, !.best = IF Beyond(p, mark, p.best) THEN mark ELSE p.best]

BreakEvenDue(p) ==
    /\ BreakEvenR > 0
    /\ ~p.breakEven
    /\ RiskPerUnit(p) > 0
    /\ Reached(p, BreakEvenR)
ApplyBreakEven(p) ==
    IF BreakEvenDue(p) THEN [p EXCEPT !.stop = Entry, !.breakEven = TRUE] ELSE p

Candidate(p, distance) == p.best - p.side * distance

Mutant_TrailsPastEntryOnly(p, distance) ==
    /\ TrailingEnabled
    /\ distance # NoAtr
    /\ RiskPerUnit(p) > 0
    /\ Reached(p, TrailingR)
    /\ Beyond(p, Candidate(p, distance), Entry)
TrailingDue(p, distance) ==
    /\ TrailingEnabled
    /\ distance # NoAtr
    /\ RiskPerUnit(p) > 0
    /\ Reached(p, TrailingR)
    /\ (p.stop = NoLevel \/ Beyond(p, Candidate(p, distance), p.stop))
ApplyTrailing(p, distance) ==
    IF TrailingDue(p, distance)
    THEN [p EXCEPT !.stop = Candidate(p, distance), !.trailing = TRUE]
    ELSE p

Manage(p, distance) == ApplyTrailing(ApplyBreakEven(p), distance)

-----------------------------------------------------------------------------
(* Why a position exits. *)

Mutant_TimeExitOnTheDot == MaxHolding > 0 /\ age = MaxHolding
TimeExit == MaxHolding > 0 /\ age >= MaxHolding

(* The regime is read at all. *)
RegimeRead(p) == ExitOnRegimeChange /\ p.regimeKnown /\ age >= MinRegimeAge

(* An unknown reading neither confirms nor resets. *)
Mutant_StreakNeverReset(p, reading) ==
    IF reading = "adverse" THEN p.adverse + 1 ELSE p.adverse
AdverseStreak(p, reading) ==
    CASE reading = "adverse" -> p.adverse + 1
      [] reading = "favourable" -> 0
      [] OTHER -> p.adverse
Confirmed(p, reading) ==
    /\ reading = "adverse"
    /\ AdverseStreak(p, reading) >= Confirmations

StopHit(p) == p.stop # NoLevel /\ AtLeast(p, p.stop, p.mark)
TargetHit(p) == p.target # NoLevel /\ AtLeast(p, p.mark, p.target)
StopReason(p) == IF p.trailing THEN "trailing_stop" ELSE IF p.breakEven THEN "break_even" ELSE "stop_loss"

CheckExit(p) ==
    IF StopHit(p) THEN StopReason(p) ELSE IF TargetHit(p) THEN "take_profit" ELSE "open"

-----------------------------------------------------------------------------
(* The steps. *)

(* A visit of the management pass to the position. *)
TimedExit(mark, distance) ==
    /\ IsOpen
    /\ TimeExit
    /\ pos' = [Manage(UpdateMark(pos, mark), distance) EXCEPT !.status = "time_exit"]
    /\ UNCHANGED <<age, readings, byHand>>

Mutant_ExitCheckedOnOldStop(mark, distance) ==
    /\ IsOpen
    /\ ~TimeExit
    /\ ~RegimeRead(pos)
    /\ pos' = [Manage(UpdateMark(pos, mark), distance)
                 EXCEPT !.status = CheckExit(UpdateMark(pos, mark))]
    /\ UNCHANGED <<age, readings, byHand>>
PlainVisit(mark, distance) ==
    /\ IsOpen
    /\ ~TimeExit
    /\ ~RegimeRead(pos)
    /\ LET p == Manage(UpdateMark(pos, mark), distance)
       IN  pos' = [p EXCEPT !.status = CheckExit(p)]
    /\ UNCHANGED <<age, readings, byHand>>

RegimeVisit(mark, distance, reading) ==
    /\ IsOpen
    /\ ~TimeExit
    /\ RegimeRead(pos)
    /\ Len(readings) < MaxReadings
    /\ LET p == Manage(UpdateMark(pos, mark), distance)
       IN  pos' = [p EXCEPT !.adverse = AdverseStreak(p, reading),
                            !.status = IF Confirmed(p, reading) THEN "regime_change"
                                                                ELSE CheckExit(p)]
    /\ readings' = Append(readings, reading)
    /\ UNCHANGED <<age, byHand>>

(* The kill switch flattens at the last mark. *)
Flatten ==
    /\ IsOpen
    /\ pos' = [pos EXCEPT !.status = "kill_switch"]
    /\ UNCHANGED <<age, readings, byHand>>

(* The operator's own stop moves. *)
ModifyStop(stop) ==
    /\ IsOpen
    /\ pos' = [pos EXCEPT !.stop = stop]
    /\ byHand' = TRUE
    /\ UNCHANGED <<age, readings>>

MoveBreakEven ==
    /\ IsOpen
    /\ pos' = [pos EXCEPT !.stop = Entry, !.breakEven = TRUE]
    /\ byHand' = TRUE
    /\ UNCHANGED <<age, readings>>

Tick ==
    /\ IsOpen
    /\ age < MaxAge
    /\ age' = age + 1
    /\ UNCHANGED <<pos, readings, byHand>>

Visit ==
    \E mark \in Marks, distance \in Distances :
        \/ TimedExit(mark, distance)
        \/ PlainVisit(mark, distance)
        \/ \E reading \in Readings : RegimeVisit(mark, distance, reading)

PositionNext ==
    \/ Visit
    \/ Tick
    \/ Flatten
    \/ \E stop \in ManualStops : ModifyStop(stop)
    \/ MoveBreakEven

(* The loop visits an open position again and again, and time passes. *)
Fairness == WF_positionVars(Visit) /\ WF_positionVars(Tick)

PositionSpec == PositionInit /\ [][PositionNext]_positionVars
FairSpec == PositionSpec /\ Fairness

-----------------------------------------------------------------------------
(* Properties *)

Handless == ~byHand
Bracketed(p) == /\ p.initial = NoLevel \/ Beyond(p, Entry, p.initial)
                /\ p.target = NoLevel \/ Beyond(p, p.target, Entry)

(* Unless the operator does it, nothing moves the stop away from the price:   *)
(* break-even and trailing share one stop, and trailing may not start before  *)
(* break-even has been applied, nor the stop start on the profit side of the  *)
(* entry (position_manager/manager.py:234-297).                               *)
StopNeverLoosens ==
    [][~byHand' /\ BreakEvenR <= TrailingR /\ Bracketed(pos) /\ pos.stop # NoLevel
         => pos'.stop # NoLevel /\ AtLeast(pos, pos'.stop, pos.stop)]_positionVars

(* A position the pass leaves open is inside its bracket: a stop the visit    *)
(* itself tightened past the mark exits in that same visit, and no reading of *)
(* the regime postpones it (execution_engine/engine.py:487-498, 681-688).     *)
OpenInsideBracket == Handless /\ Bracketed(pos) /\ IsOpen => ~StopHit(pos) /\ ~TargetHit(pos)

(* Once at break-even the position cannot be stopped at a loss again, however *)
(* the ATR moves the trailing distance afterwards                             *)
(* (position_manager/manager.py:253-297).                                     *)
BreakEvenLocks == Handless /\ pos.breakEven => pos.stop # NoLevel /\ AtLeast(pos, pos.stop, Entry)

(* "El trailing sólo protege beneficio": a trailed stop means the price has   *)
(* been trailing_activate_r in favour at some time                            *)
(* (position_manager/manager.py:269-275).                                     *)
TrailingProtectsProfit ==
    pos.trailing => (pos.best - Entry) * pos.side >= TrailingR * RiskPerUnit(pos)

(* The adverse readings no favourable one follows: unknown ones between them *)
(* neither count nor interrupt.                                              *)
AdverseRun ==
    {k \in DOMAIN readings :
        /\ readings[k] = "adverse"
        /\ \A j \in k..Len(readings) : readings[j] # "favourable"}

(* A change of regime only exits a position held long enough, on a reading    *)
(* that is itself adverse and after the required adverse readings with no     *)
(* favourable one between them (execution_engine/engine.py:690-738).          *)
RegimeExitConfirmed ==
    pos.status = "regime_change" =>
        /\ age >= MinRegimeAge
        /\ Len(readings) \in AdverseRun
        /\ Cardinality(AdverseRun) >= Confirmations

(* No position is held for ever when a maximum holding time is set, even if   *)
(* no pass happens to run at the very minute it expires                       *)
(* (execution_engine/engine.py:681-685).                                      *)
HoldingBounded == (MaxHolding > 0) ~> ~IsOpen

(* What the stop of a position still open promises: it is inside its bracket,*)
(* never back at a loss after break-even, and trailed only on a profit       *)
(* (position_manager/manager.py:234-297, execution_engine/engine.py:487-498).*)
StopProtects ==
    PositionTypeOK /\ OpenInsideBracket /\ BreakEvenLocks /\ TrailingProtectsProfit
=============================================================================
