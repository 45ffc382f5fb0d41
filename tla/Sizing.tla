-------------------------------- MODULE Sizing --------------------------------
(* How much to buy and where the bracket goes (app/execution: sizing,         *)
(* models/instrument, slippage, latency and the entry path of the engine),    *)
(* and the exposure the risk manager lets a row of equal entries reach.       *)
(*                                                                            *)
(* A tick is five basis points of Price; money is in ticks.  Lots and units   *)
(* are exact fractions <<numerator, denominator>>; a contract's lots are in   *)
(* hundredths.                                                                *)
EXTENDS Integers

CONSTANTS
    Equities,
    Methods,       \* SizingSettings.method
    Contracts,     \* InstrumentSpec: size, least, step and most lots; 0: none
    Atrs,          \* 0: unknown
    Spreads,
    Confidences,   \* of the decision, in quarters
    Records,       \* win rate and reward to risk in tenths, or <<>>: too few trades
    ExposurePct,   \* ExecutionRiskSettings.max_exposure_pct
    MaxHeld        \* bound: entries accepted

VARIABLES
    account,       \* equity, method and contract
    quote,         \* side, ATR, spread, confidence and record of the entries
    held           \* entries accepted

sizingVars == <<account, quote, held>>

Price == 2000

NoMore(a, b) == a[1] * b[2] <= b[1] * a[2]
Lesser(a, b) == IF NoMore(a, b) THEN a ELSE b
Largest(S) == CHOOSE x \in S : \A y \in S : y <= x

-----------------------------------------------------------------------------
(* The bracket. *)

(* Half as far again as the ATR, but no less than 0.15 % and eight spreads.   *)
StopDistance(q) ==
    LET floor == Largest({3, 8 * q.spread})
    IN  Largest({floor, IF q.atr > 0 THEN (3 * q.atr) \div 2 ELSE Price \div 200})

Against(q) == IF q.side = "buy" THEN 1 ELSE -1

(* The target is one and a half stops away (in half ticks).                   *)
Stops(q) == [stop |-> Price - Against(q) * StopDistance(q),
             target2 |-> 2 * Price + Against(q) * 3 * StopDistance(q)]

(* Slippage and the drift of the latency make the price worse, never better.  *)
FillPrice(q, cost) == Price + Against(q) * cost

(* A position is marked at the side it would be closed at.                    *)
MarkAfter(q) == Price - Against(q) * q.spread

-----------------------------------------------------------------------------
(* Units, and the lots they come to. *)

(* Half a per cent of the equity, between the entry and the stop.             *)
RiskBased(a, q, quarters) == <<(a.equity \div 200) * quarters, 4 * StopDistance(q)>>

(* A quarter of W - (1 - W) / R of the equity, and no more than half a per    *)
(* cent.                                                                      *)
Kelly(a, q) ==
    LET w == q.record[1]
        r == q.record[2]
        edge == Largest({0, w * r - 10 * (10 - w)})
    IN  <<-Largest({-(a.equity \div (40 * r)) * edge, -(a.equity \div 200)}), StopDistance(q)>>

Wanted(a, q) ==
    CASE a.method = "fixed_amount" -> <<4000, Price>>
      [] a.method = "percent" -> <<a.equity \div 50, Price>>
      [] a.method = "dynamic_risk" -> RiskBased(a, q, Largest({1, q.confidence}))
      [] a.method = "kelly" /\ q.record # <<>> -> Kelly(a, q)
      [] OTHER -> RiskBased(a, q, 4)

(* A fifth of the equity at most.                                             *)
Units(a, q) == Lesser(Wanted(a, q), <<a.equity \div 5, Price>>)

Capped(c, lots) == IF c.most = 0 THEN lots ELSE Lesser(lots, <<c.most, 100>>)

(* Down to the step, and never up to the least.                               *)
Quantize(c, lots) ==
    IF c.step = 0 THEN Capped(c, lots)
    ELSE LET most == Capped(c, lots)
         IN  <<c.step * ((100 * most[1]) \div (most[2] * c.step)), 100>>

Fits(c, lots) == lots[1] * 100 >= c.least * lots[2]

(* Zero lots: the entry is refused.                                           *)
Calculate(a, q) ==
    LET units == Units(a, q)
        lots == Quantize(a.contract, <<units[1], units[2] * a.contract.size>>)
    IN  IF Fits(a.contract, lots) THEN lots ELSE <<0, 1>>

UnitsOf(c, lots) == <<lots[1] * c.size, lots[2]>>

-----------------------------------------------------------------------------
(* Entries. *)

Quotes == [side : {"buy", "sell"}, atr : Atrs, spread : Spreads, confidence : Confidences,
           record : Records]
Accounts == [equity : Equities, method : Methods, contract : Contracts]

ASSUME SizingAssumption ==
    /\ Equities \subseteq Nat /\ Atrs \subseteq Nat /\ Spreads \subseteq Nat
    /\ Confidences \subseteq 0..4
    /\ \A c \in Contracts : c.size \in Nat \ {0} /\ {c.least, c.step, c.most} \subseteq Nat
    /\ \A r \in Records : r # <<>> => r[1] \in 0..10 /\ r[2] \in Nat \ {0}
    /\ ExposurePct \in Nat /\ MaxHeld \in Nat
    /\ Accounts # {} /\ Quotes # {}

SizingInit ==
    /\ account \in Accounts
    /\ quote \in Quotes
    /\ held = 0

(* What is held, at its mark.                                                *)
Exposure(lots) == held * lots[1] * Price

(* What is held counts by its lots, what is asked for by its units.           *)
ExposureAllows(a, lots) ==
    NoMore(<<Exposure(lots) + UnitsOf(a.contract, lots)[1] * Price, lots[2]>>,
           <<(a.equity \div 100) * ExposurePct, 1>>)

Enter ==
    /\ held < MaxHeld
    /\ LET lots == Calculate(account, quote)
       IN  lots[1] > 0 /\ ExposureAllows(account, lots)
    /\ held' = held + 1
    /\ UNCHANGED <<account, quote>>

SizingSpec == SizingInit /\ [][Enter]_sizingVars

-----------------------------------------------------------------------------
(* Properties. *)

SizingTypeOK ==
    /\ account \in Accounts
    /\ quote \in Quotes /\ held \in 0..MaxHeld

RiskMethods == Methods \ {"fixed_amount", "percent"}

(* What is sent, in lots, is never worth more than a fifth of the equity in   *)
(* units of the contract and, where the method looks at the risk, never loses *)
(* more than half a per cent of the equity at the stop, whatever the contract *)
(* and its step (sizing/engine.py:59-188, instrument.py:76-95).               *)
RiskWithinBudget ==
    LET units == UnitsOf(account.contract, Calculate(account, quote))
    IN  /\ NoMore(<<units[1] * Price, units[2]>>, <<account.equity \div 5, 1>>)
        /\ account.method \in RiskMethods =>
             NoMore(<<units[1] * StopDistance(quote), units[2]>>, <<account.equity \div 200, 1>>)

(* The least lot of a contract, up to a whole number of steps.                *)
LeastLot(c) ==
    IF c.step = 0 THEN c.least
    ELSE Largest({c.step, c.step * ((c.least + c.step - 1) \div c.step)})

(* An entry is refused for its size only when the least lot does not fit what *)
(* the method, the cap and the contract allow (sizing/engine.py:110-131).     *)
RefusedOnlyWhenItDoesNotFit ==
    LET c == account.contract
        units == Units(account, quote)
    IN  Calculate(account, quote)[1] = 0 =>
            \/ units[1] = 0
            \/ ~NoMore(<<LeastLot(c) * c.size, 100>>, units)
            \/ c.most # 0 /\ c.most < LeastLot(c)

(* A position is not opened at its stop: neither its mark nor a fill that     *)
(* cost less than eight spreads is beyond it (engine.py:907-940).             *)
OpensInsideItsBracket ==
    LET stop == Stops(quote).stop
        Inside(p) == (p - stop) * Against(quote) > 0
                     /\ (Stops(quote).target2 - 2 * p) * Against(quote) > 0
    IN  /\ quote.spread > 0 => Inside(MarkAfter(quote))
        /\ \A cost \in 0..8 * quote.spread - 1 : Inside(FillPrice(quote, cost))

(* However many entries in a row: together they stay within the exposure      *)
(* limit, where a lot is one unit (engine.py:386-402, 953-958; risk_manager   *)
(* _exposure_check).                                                          *)
ExposureAddsUp ==
    account.contract.size = 1 =>
        LET lots == Calculate(account, quote)
        IN  NoMore(<<held * lots[1] * Price, lots[2]>>, <<(account.equity \div 100) * ExposurePct, 1>>)
===============================================================================
