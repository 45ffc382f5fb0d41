--------------------------- MODULE ExecutionEngine ---------------------------
(***************************************************************************)
(* The paper-trading core: app/execution.  One ExecutionEngine drives the  *)
(* Position, Portfolio, Risk and Order Managers, the paper broker and the  *)
(* trade journal from two callers on one asyncio loop: the handler of      *)
(* DecisionGenerated events and the periodic management pass.              *)
(*                                                                         *)
(* Neither caller suspends once it holds a quote: EventBus.publish and the *)
(* paper broker are synchronous.  A decision is therefore one step.  A     *)
(* pass is cut into one step per position, and `phase' keeps every other   *)
(* caller out until the pass ends.                                         *)
(*                                                                         *)
(* Left to other modules or abstracted: why a position exits (a pass may   *)
(* exit any position it visits; module PositionLifecycle says which), the  *)
(* spread, liquidity, veto and symbol toggle filters (a decision they stop *)
(* changes nothing but the order history), order records, sizing (any      *)
(* quantity of Quantities), the slippage model (any slip up to MaxSlip)    *)
(* and the commission schedule (a fee per unit).  Money and prices are     *)
(* integers, in ticks; the rounding of the drawdown to 4 decimals is not   *)
(* modelled.                                                               *)
(***************************************************************************)
EXTENDS Integers, Sequences, FiniteSets, Functions

CONSTANTS
    Symbols,                    \* traded symbols
    Prices,                     \* mid prices the market may quote
    HalfSpread,                 \* ask = mid + HalfSpread, bid = mid - HalfSpread
    MaxSlip,                    \* worst adverse slippage of a fill
    Quantities,                 \* quantities the sizer may return
    FeePerUnit,                 \* commission of one unit, each way
    InitialBalance,             \* ExecutionSettings.initial_balance
    MaxOpenPositions,           \* the hard limits of ExecutionRiskSettings
    MaxPositionsPerSymbol,
    MaxConsecutiveLosses,       \* 0 disables the rule
    MaxExposurePct,
    MaxSymbolExposurePct,
    MaxCorrelationExposurePct,
    CorrelationGroups,
    Periods,                    \* {[len, limit]}: day, week and month, and their loss limits
    BreakerLoss,                \* loss that trips the circuit breaker ...
    BreakerWindow,              \* ... within this window, which is also the pause
    KillDrawdownPct,            \* 0 disables the drawdown kill switch
    NoQuote,                    \* no ticker received yet
    MaxTrades,                  \* bound: positions ever opened
    MaxTime                     \* bound: clock

Long == 1
Short == -1
Sides == {Long, Short}

ASSUME EngineAssumption ==
    /\ Prices \subseteq Nat /\ NoQuote \notin Prices
    /\ Quantities \subseteq Nat \ {0}
    /\ {HalfSpread, MaxSlip, FeePerUnit, InitialBalance} \subseteq Nat
    /\ {MaxOpenPositions, MaxPositionsPerSymbol, MaxConsecutiveLosses} \subseteq Nat
    /\ {MaxExposurePct, MaxSymbolExposurePct, MaxCorrelationExposurePct} \subseteq Nat
    /\ CorrelationGroups \subseteq SUBSET Symbols
    /\ Periods \subseteq [len : Nat \ {0}, limit : Nat]
    /\ {BreakerLoss, BreakerWindow, KillDrawdownPct} \subseteq Nat
    /\ {MaxTrades, MaxTime} \subseteq Nat

VARIABLES
    now,            \* the clock, in units of the circuit breaker window
    ticker,         \* MarketState: last mid price of each symbol
    positions,      \* every position ever opened, in order; id = index
    balance,        \* PortfolioManager._balance
    peak,           \* PortfolioManager._peak_equity
    wins,           \* PortfolioManager._wins
    losses,         \* PortfolioManager._losses
    ledger,         \* RiskManager._ledger
    streak,         \* RiskManager._consecutive_losses
    kill,           \* RiskManager._kill_switch
    circuitUntil,   \* RiskManager._circuit_until, 0 when not tripped
    journal,        \* TradeJournal._trades
    phase,          \* where the management pass is
    todo            \* positions the pass has still to visit

market == <<now, ticker>>
portfolio == <<balance, peak, wins, losses>>
risk == <<ledger, streak, kill, circuitUntil>>
pass == <<phase, todo>>
vars == <<market, positions, portfolio, risk, journal, pass>>

Position == [symbol : Symbols, side : Sides, quantity : Nat \ {0}, entry : Int,
             mark : Int, fee : Nat, open : BOOLEAN, pnl : Int]

TypeOK ==
    /\ now \in 0..MaxTime
    /\ ticker \in [Symbols -> Prices \cup {NoQuote}]
    /\ positions \in Seq(Position)
    /\ balance \in Int
    /\ wins \in Nat /\ losses \in Nat
    /\ ledger \in Seq([at : 0..MaxTime, pnl : Int])
    /\ streak \in Nat
    /\ kill \in BOOLEAN
    /\ circuitUntil \in Nat
    /\ journal \in Seq([id : Nat \ {0}, pnl : Int])
    /\ phase \in {"idle", "manage", "flatten"}
    /\ todo \subseteq DOMAIN positions

-----------------------------------------------------------------------------
(* Positions and the portfolio at mark prices. *)

OpenIds == {i \in DOMAIN positions : positions[i].open}
OpenOn(s) == {i \in OpenIds : positions[i].symbol = s}

Bid(s) == ticker[s] - HalfSpread
Ask(s) == ticker[s] + HalfSpread

FloatingPnl(p) == (p.mark - p.entry) * p.quantity * p.side
Equity == balance + SumFunctionOnSet([i \in OpenIds |-> FloatingPnl(positions[i])], OpenIds)

ExposureOf(ids) ==
    SumFunctionOnSet([i \in ids |-> positions[i].quantity * positions[i].mark], ids)
SymbolExposure(s) == ExposureOf(OpenOn(s))
CorrelatedExposure(s) ==
    LET groups == {g \in CorrelationGroups : s \in g}
    IN  SumFunctionOnSet([g \in groups |-> ExposureOf(UNION {OpenOn(m) : m \in g})], groups)

-----------------------------------------------------------------------------
(* RiskManager: the hard limits an entry must pass. *)

PnlOf(entries) == SumFunctionOnSet([k \in entries |-> ledger[k].pnl], entries)

PeriodStart(len) == now - (now % len)
WithinPeriodLimit(period) ==
    PnlOf({k \in DOMAIN ledger : ledger[k].at >= PeriodStart(period.len)}) > -period.limit

CircuitBreakerActive == now < circuitUntil

WithinExposure(s, notional) ==
    LET equity == Equity
        Fits(exposure, pct) == (exposure + notional) * 100 <= equity * pct
    IN  /\ equity > 0
        /\ Fits(ExposureOf(OpenIds), MaxExposurePct)
        /\ Fits(SymbolExposure(s), MaxSymbolExposurePct)
        /\ Fits(CorrelatedExposure(s), MaxCorrelationExposurePct)

Mutant_HaltIgnoresKill == CircuitBreakerActive
Halted == kill \/ CircuitBreakerActive

Mutant_StreakOffByOne == MaxConsecutiveLosses > 0 /\ streak > MaxConsecutiveLosses
StreakExhausted == MaxConsecutiveLosses > 0 /\ streak >= MaxConsecutiveLosses

Mutant_RoomOffByOne(s) ==
    /\ Cardinality(OpenIds) < MaxOpenPositions
    /\ Cardinality(OpenOn(s)) <= MaxPositionsPerSymbol
RoomFor(s) ==
    /\ Cardinality(OpenIds) < MaxOpenPositions
    /\ Cardinality(OpenOn(s)) < MaxPositionsPerSymbol

EvaluateEntry(s, notional) ==
    /\ ~Halted
    /\ notional > 0
    /\ ~StreakExhausted
    /\ RoomFor(s)
    /\ \A period \in Periods : WithinPeriodLimit(period)
    /\ WithinExposure(s, notional)

-----------------------------------------------------------------------------
(* Initial state: a started engine with no trade behind it. *)

Init ==
    /\ now = 0
    /\ ticker = [s \in Symbols |-> NoQuote]
    /\ positions = <<>>
    /\ balance = InitialBalance
    /\ peak = InitialBalance
    /\ wins = 0
    /\ losses = 0
    /\ ledger = <<>>
    /\ streak = 0
    /\ kill = FALSE
    /\ circuitUntil = 0
    /\ journal = <<>>
    /\ phase = "idle"
    /\ todo = {}

(* The environment: quotes and time.  A quote replaces the previous one and *)
(* is never withdrawn, so a symbol with a position always has one.          *)
UpdateTicker(s, price) ==
    /\ phase = "idle"
    /\ ticker' = [ticker EXCEPT ![s] = price]
    /\ UNCHANGED <<now, positions, portfolio, risk, journal, pass>>

Tick ==
    /\ phase = "idle"
    /\ now < MaxTime
    /\ now' = now + 1
    /\ UNCHANGED <<ticker, positions, portfolio, risk, journal, pass>>

-----------------------------------------------------------------------------
(* The paper broker: a buy pays the ask plus the slip, a sell gets the bid  *)
(* less the slip.                                                           *)

Touch(s, side) == IF side = Long THEN Ask(s) ELSE Bid(s)
FillPrice(s, side, slip) == Touch(s, side) + side * slip
Commission(quantity) == FeePerUnit * quantity

(* An accepted decision: every filter passed, the order created, filled in  *)
(* full or in part, its commission charged and the position registered.     *)
ProcessDecision(s, side, quantity, filled, slip) ==
    /\ phase = "idle"
    /\ Len(positions) < MaxTrades
    /\ ticker[s] # NoQuote
    /\ EvaluateEntry(s, quantity * Touch(s, side))
    /\ LET price == FillPrice(s, side, slip)
           fee == Commission(filled)
       IN  /\ positions' = Append(positions,
                  [symbol |-> s, side |-> side, quantity |-> filled, entry |-> price,
                   mark |-> price, fee |-> fee, open |-> TRUE, pnl |-> 0])
           /\ balance' = balance - fee
    /\ UNCHANGED <<market, peak, wins, losses, risk, journal, pass>>

-----------------------------------------------------------------------------
(* Closing a position: PositionManager.close, then the portfolio, the risk  *)
(* ledger and the journal, in that order.                                   *)

(* The PnL of the trailing window that ends at entry k of the ledger l. *)
WindowPnl(l, k) ==
    LET window == {j \in 1..k : l[k].at - l[j].at <= BreakerWindow}
    IN  SumFunctionOnSet([j \in window |-> l[j].pnl], window)
Breached(l, k) == WindowPnl(l, k) <= -BreakerLoss

(* RiskManager.on_trade_closed: a break-even trade leaves the streak alone. *)
Mutant_StreakResetByScratch(pnl) == IF pnl < 0 THEN streak + 1 ELSE 0
StreakAfter(pnl) == IF pnl < 0 THEN streak + 1 ELSE IF pnl > 0 THEN 0 ELSE streak

(* RiskManager._check_circuit_breaker: every breach restarts the pause. *)
Mutant_PauseNotRestarted(l) ==
    IF Breached(l, Len(l)) /\ ~CircuitBreakerActive THEN now + BreakerWindow ELSE circuitUntil
CircuitAfter(l) == IF Breached(l, Len(l)) THEN now + BreakerWindow ELSE circuitUntil

RegisterRisk(pnl) ==
    LET entry == [at |-> now, pnl |-> pnl]
    IN  /\ ledger' = Append(ledger, entry)
        /\ streak' = StreakAfter(pnl)
        /\ circuitUntil' = CircuitAfter(Append(ledger, entry))

(* PortfolioManager.on_trade_closed: the win is judged without the opening fee. *)
Mutant_CloseForgetsFee(gross, fee) ==
    /\ balance' = balance + gross
    /\ wins' = IF gross - fee > 0 THEN wins + 1 ELSE wins
    /\ losses' = IF gross - fee < 0 THEN losses + 1 ELSE losses
SettlePortfolio(gross, fee) ==
    /\ balance' = balance + gross - fee
    /\ wins' = IF gross - fee > 0 THEN wins + 1 ELSE wins
    /\ losses' = IF gross - fee < 0 THEN losses + 1 ELSE losses

(* What the journal keeps of a trade, as far as the properties tell apart.   *)
TradeRecord(i, pnl) == [id |-> i, pnl |-> pnl]

ClosePosition(i, slip) ==
    LET p == positions[i]
        price == FillPrice(p.symbol, -p.side, slip)
        gross == (price - p.entry) * p.quantity * p.side
        fee == Commission(p.quantity)
        pnl == gross - (p.fee + fee)
    IN  /\ positions' = [positions EXCEPT ![i] =
               [p EXCEPT !.mark = price, !.fee = p.fee + fee, !.open = FALSE, !.pnl = pnl]]
        /\ SettlePortfolio(gross, fee)
        /\ RegisterRisk(pnl)
        /\ journal' = Append(journal, TradeRecord(i, pnl))

-----------------------------------------------------------------------------
(* The management pass. *)

IsNext(i) == i \in todo /\ \A j \in todo : i <= j

Mutant_PassVisitsClosed ==
    /\ phase = "idle"
    /\ phase' = "manage"
    /\ todo' = DOMAIN positions
    /\ UNCHANGED <<market, positions, portfolio, risk, journal>>
StartPass ==
    /\ phase = "idle"
    /\ phase' = "manage"
    /\ todo' = OpenIds
    /\ UNCHANGED <<market, positions, portfolio, risk, journal>>

(* Marked at the price it would exit at, and kept. *)
KeepPosition(i) ==
    /\ phase = "manage"
    /\ IsNext(i)
    /\ positions' = [positions EXCEPT ![i].mark =
                        Touch(positions[i].symbol, -positions[i].side)]
    /\ todo' = todo \ {i}
    /\ UNCHANGED <<market, portfolio, risk, journal, phase>>

(* Marked, given an exit reason, and closed. *)
ExitPosition(i, slip) ==
    /\ phase = "manage"
    /\ IsNext(i)
    /\ ClosePosition(i, slip)
    /\ todo' = todo \ {i}
    /\ UNCHANGED <<market, peak, kill, phase>>

(* The end of the pass: PortfolioManager.snapshot raises the peak, a drawdown *)
(* over the limit engages the kill switch, an engaged one flattens.           *)
Drawdown(high, equity) ==
    /\ KillDrawdownPct > 0
    /\ high > 0
    /\ (high - equity) * 100 >= KillDrawdownPct * high

(* The announcement is latched, the flattening is not: an engaged switch *)
(* flattens on every pass.                                                *)
Mutant_FlattenLatched(engaged) == engaged /\ ~kill
FlattensOn(engaged) == engaged

RefreshRisk ==
    /\ phase = "manage"
    /\ todo = {}
    /\ peak' = IF Equity > peak THEN Equity ELSE peak
    /\ kill' = (kill \/ Drawdown(peak', Equity))
    /\ IF FlattensOn(kill')
       THEN phase' = "flatten" /\ todo' = OpenIds
       ELSE phase' = "idle" /\ todo' = {}
    /\ UNCHANGED <<market, positions, balance, wins, losses, ledger, streak,
                   circuitUntil, journal>>

FlattenPosition(i, slip) ==
    /\ phase = "flatten"
    /\ IsNext(i)
    /\ ClosePosition(i, slip)
    /\ todo' = todo \ {i}
    /\ UNCHANGED <<market, peak, kill, phase>>

EndPass ==
    /\ phase = "flatten"
    /\ todo = {}
    /\ phase' = "idle"
    /\ UNCHANGED <<market, positions, portfolio, risk, journal, todo>>

-----------------------------------------------------------------------------
(* The operator, through KillSwitchController. *)

EngageKillSwitch ==
    /\ phase = "idle"
    /\ ~kill
    /\ kill' = TRUE
    /\ UNCHANGED <<market, positions, portfolio, ledger, streak, circuitUntil, journal, pass>>

ResetKillSwitch ==
    /\ phase = "idle"
    /\ kill
    /\ kill' = FALSE
    /\ UNCHANGED <<market, positions, portfolio, ledger, streak, circuitUntil, journal, pass>>

PassStep ==
    \/ \E i \in todo, slip \in 0..MaxSlip : ExitPosition(i, slip) \/ FlattenPosition(i, slip)
    \/ \E i \in todo : KeepPosition(i)
    \/ RefreshRisk
    \/ EndPass

Next ==
    \/ \E s \in Symbols, price \in Prices : UpdateTicker(s, price)
    \/ Tick
    \/ \E s \in Symbols, side \in Sides, quantity \in Quantities, slip \in 0..MaxSlip :
          \E filled \in 1..quantity : ProcessDecision(s, side, quantity, filled, slip)
    \/ StartPass
    \/ PassStep
    \/ EngageKillSwitch
    \/ ResetKillSwitch

(* The loop sleeps and runs a pass for ever, and a pass runs to its end. *)
Fairness == WF_vars(StartPass) /\ WF_vars(PassStep)

Spec == Init /\ [][Next]_vars
FairSpec == Spec /\ Fairness

-----------------------------------------------------------------------------
(* Properties *)

ClosedIds == DOMAIN positions \ OpenIds
JournalTotal == SumFunctionOnSet([k \in DOMAIN journal |-> journal[k].pnl], DOMAIN journal)
OpenFees == SumFunctionOnSet([i \in OpenIds |-> positions[i].fee], OpenIds)

(* No money appears or disappears: the cash the portfolio books at every     *)
(* opening and closing is the starting balance plus the net results the      *)
(* journal recorded, less the commissions already paid on positions still    *)
(* open.  Three managers book the same fees at different moments             *)
(* (portfolio_manager/manager.py:134-147, position_manager/manager.py:350).  *)
CashConservation == balance = InitialBalance + JournalTotal - OpenFees

(* The limits on the number of positions hold in every state, also between   *)
(* the steps of a pass, not only when an entry is checked                    *)
(* (risk_manager/manager.py:178-189).                                        *)
LimitsHold ==
    /\ Cardinality(OpenIds) <= MaxOpenPositions
    /\ \A s \in Symbols : Cardinality(OpenOn(s)) <= MaxPositionsPerSymbol

(* The losing streak of a history of trades: losses since the last win, a    *)
(* break-even trade counting as neither.                                     *)
LossesSinceLastWin(trades) ==
    Cardinality({k \in DOMAIN trades :
        /\ trades[k].pnl < 0
        /\ \A j \in k..Len(trades) : trades[j].pnl <= 0})

(* A closed position is in the journal and in the risk ledger exactly once,  *)
(* at the same place and with the same result, and the streak the hard limit *)
(* is checked against is the one the journal shows: the two settlement paths *)
(* update four books one after another (execution_engine/engine.py:780-800). *)
BooksAgree ==
    /\ Len(journal) = Len(ledger)
    /\ {journal[k].id : k \in DOMAIN journal} = ClosedIds
    /\ \A k, m \in DOMAIN journal : journal[k].id = journal[m].id => k = m
    /\ \A k \in DOMAIN journal : /\ ledger[k].pnl = journal[k].pnl
                                 /\ positions[journal[k].id].pnl = journal[k].pnl
    /\ streak = LossesSinceLastWin(journal)

(* After any close that left the trailing window's loss at the limit, no     *)
(* position opens until a whole window has passed: later closes, wins and    *)
(* re-trips included, never shorten the pause                                *)
(* (risk_manager/manager.py:295-315).                                        *)
BreakerCoolsDown ==
    [][Len(positions') > Len(positions) =>
         \A k \in DOMAIN ledger : Breached(ledger, k) => now >= ledger[k].at + BreakerWindow]_vars

(* While the kill switch stays engaged positions only leave: whoever engaged *)
(* it, between whatever steps, no decision opens one                         *)
(* (risk_manager/manager.py:166, execution_engine/engine.py:676-679).        *)
KillSwitchHolds ==
    [][kill /\ kill' => /\ OpenIds' \subseteq OpenIds
                        /\ Len(positions') = Len(positions)]_vars

(* The losing streak is a lock without a key: with the streak at its limit   *)
(* and nothing open, no step of the system ever opens a position or lowers   *)
(* the streak, because only a winning close does (risk_manager/manager.py:   *)
(* 172, 281-284).  Only a restart that forgets the streak unlocks it.        *)
LockedOut == /\ MaxConsecutiveLosses > 0
             /\ streak >= MaxConsecutiveLosses
             /\ OpenIds = {}
StreakLockout == [][LockedOut => LockedOut']_vars

(* An engaged kill switch flattens: sooner or later nothing is open, unless  *)
(* an operator releases it first (execution_engine/engine.py:656-679).       *)
KillFlattens == kill ~> (~kill \/ OpenIds = {})

-----------------------------------------------------------------------------
(* The promise kept (module TradeBook). *)

TermsOf(p) == [symbol |-> p.symbol, side |-> p.side, quantity |-> p.quantity, entry |-> p.entry]

TB == INSTANCE TradeBook WITH
        Limit <- MaxOpenPositions,
        Terms <- [symbol : Symbols, side : Sides, quantity : Nat \ {0}, entry : Int],
        Records <- [id : Nat \ {0}, pnl : Int],
        trades <- [i \in DOMAIN positions |-> TermsOf(positions[i])],
        open <- OpenIds,
        booked <- journal,
        halted <- kill

(* The engine implements the trade book: four managers, a pass cut in steps  *)
(* and an operator between them, and still a trade's terms never change, it  *)
(* leaves the open ones in the very step that journals it, once, and none is *)
(* entered under the kill switch (execution_engine/engine.py:286-460,        *)
(* 656-679, 780-830).                                                        *)
ImplementsTradeBook == TB!Spec

(* The books agree and are within the limits, all along a session.           *)
BooksHold == TypeOK /\ BooksAgree /\ LimitsHold
=============================================================================
