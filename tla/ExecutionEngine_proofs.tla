----------------------- MODULE ExecutionEngine_proofs -----------------------
(***************************************************************************)
(* Theorems of ExecutionEngine, for every value of its constants.          *)
(*                                                                         *)
(* TypeOK is not inductive: a fill has a price only because a symbol with  *)
(* a position keeps its quote.  With that fact, and three the action       *)
(* properties rest on, it makes the inductive invariant IInv: the pass     *)
(* only holds positions that are still open, no ledger entry lies in the   *)
(* future, and the pause of the circuit breaker reaches a full window past *)
(* every breach the ledger shows.  Of the sums over the journal and over   *)
(* the positions the proofs know what module Sums proves.                  *)
(***************************************************************************)
EXTENDS ExecutionEngine, FiniteSetTheorems, Sums, TLAPS

PositionsQuoted == \A i \in DOMAIN positions : ticker[positions[i].symbol] # NoQuote
PassHoldsOpen == todo \subseteq OpenIds
LedgerInThePast == \A k \in DOMAIN ledger : ledger[k].at <= now
PauseCoversBreaches ==
    \A k \in DOMAIN ledger : Breached(ledger, k) => ledger[k].at + BreakerWindow <= circuitUntil

IInv == TypeOK /\ PositionsQuoted /\ PassHoldsOpen /\ LedgerInThePast /\ PauseCoversBreaches

(* Every constant is a natural number: the assumption, spelled out. *)
LEMMA Constants ==
    /\ HalfSpread \in Nat /\ MaxSlip \in Nat /\ FeePerUnit \in Nat
    /\ InitialBalance \in Nat /\ BreakerWindow \in Nat /\ BreakerLoss \in Nat
    /\ MaxOpenPositions \in Nat /\ MaxPositionsPerSymbol \in Nat
    /\ MaxConsecutiveLosses \in Nat /\ MaxTrades \in Nat /\ MaxTime \in Nat
    /\ Prices \subseteq Nat /\ Quantities \subseteq Nat \ {0}
  BY EngineAssumption

(* A fill at a quoted symbol has an integer price. *)
LEMMA FillPriceType ==
    ASSUME TypeOK, NEW s \in Symbols, ticker[s] # NoQuote, NEW side \in Sides, NEW slip \in Nat
    PROVE  FillPrice(s, side, slip) \in Int /\ Touch(s, side) \in Int
  <1>1. ticker[s] \in Nat
    BY Constants DEF TypeOK
  <1>2. side = 1 \/ side = -1
    BY DEF Sides, Long, Short
  <1>. QED BY <1>1, <1>2, Constants DEF FillPrice, Touch, Ask, Bid

(* What ProcessDecision appends is a position. *)
LEMMA EntryType ==
    ASSUME TypeOK, NEW s \in Symbols, NEW side \in Sides, NEW quantity \in Quantities,
           NEW filled \in 1..quantity, NEW slip \in 0..MaxSlip,
           ProcessDecision(s, side, quantity, filled, slip)
    PROVE  /\ balance' \in Int
           /\ \E p \in Position : /\ positions' = Append(positions, p)
                                  /\ p.symbol = s /\ p.open
                                  /\ balance' = balance - p.fee
  <1> DEFINE price == FillPrice(s, side, slip)
             fee == Commission(filled)
             new == [symbol |-> s, side |-> side, quantity |-> filled, entry |-> price,
                     mark |-> price, fee |-> fee, open |-> TRUE, pnl |-> 0]
  <1>1. filled \in Nat \ {0} /\ slip \in Nat
    BY Constants
  <1>2. price \in Int
    BY <1>1, FillPriceType DEF ProcessDecision
  <1>3. fee \in Nat
    BY <1>1, Constants DEF Commission
  <1>4. new \in Position
    BY <1>1, <1>2, <1>3 DEF Position
  <1>5. positions' = Append(positions, new) /\ balance' = balance - fee
    BY DEF ProcessDecision
  <1>6. new.symbol = s /\ new.open /\ new.fee = fee
    OBVIOUS
  <1> HIDE DEF new, fee
  <1>. QED BY <1>3, <1>4, <1>5, <1>6 DEF TypeOK

(* Closing a position keeps every book well typed, and replaces that position *)
(* by a closed one of the same symbol.                                        *)
LEMMA CloseType ==
    ASSUME TypeOK, PositionsQuoted, NEW i \in DOMAIN positions, NEW slip \in 0..MaxSlip,
           ClosePosition(i, slip)
    PROVE  /\ balance' \in Int /\ wins' \in Nat /\ losses' \in Nat
           /\ streak' \in Nat /\ circuitUntil' \in Nat
           /\ ledger' \in Seq([at : 0..MaxTime, pnl : Int])
           /\ journal' \in Seq([id : Nat \ {0}, pnl : Int])
           /\ \E pnl \in Int : RegisterRisk(pnl)
           /\ \E p \in Position : /\ positions' = [positions EXCEPT ![i] = p]
                                  /\ p.symbol = positions[i].symbol /\ ~p.open
  <1> DEFINE p == positions[i]
             price == FillPrice(p.symbol, -p.side, slip)
             gross == (price - p.entry) * p.quantity * p.side
             fee == Commission(p.quantity)
             pnl == gross - (p.fee + fee)
             new == [p EXCEPT !.mark = price, !.fee = p.fee + fee, !.open = FALSE, !.pnl = pnl]
  <1>1. p \in Position /\ i \in Nat \ {0} /\ slip \in Nat
    BY Constants DEF TypeOK
  <1>2. p.quantity \in Nat \ {0} /\ p.side \in Int /\ p.entry \in Int /\ p.fee \in Nat
        /\ -p.side \in Sides /\ p.symbol \in Symbols
    BY <1>1 DEF Position, Sides, Long, Short
  <1>3. price \in Int
    BY <1>1, <1>2, FillPriceType DEF PositionsQuoted
  <1>4. fee \in Nat
    BY <1>2, Constants DEF Commission
  <1>5. gross \in Int
    <2>1. price - p.entry \in Int
      BY <1>2, <1>3
    <2>2. (price - p.entry) * p.quantity \in Int
      BY <1>2, <2>1
    <2>. QED BY <1>2, <2>2
  <1>6. pnl \in Int
    BY <1>2, <1>4, <1>5
  <1>7. new \in Position /\ new.symbol = p.symbol /\ ~new.open
    <2>1. p.fee + fee \in Nat
      BY <1>2, <1>4
    <2>. HIDE DEF p, price, fee, pnl
    <2>. QED BY <1>1, <1>3, <1>6, <2>1 DEF Position
  <1>8. positions' = [positions EXCEPT ![i] = new]
    BY DEF ClosePosition
  <1>9. balance' \in Int /\ wins' \in Nat /\ losses' \in Nat
    <2>1. SettlePortfolio(gross, fee)
      BY DEF ClosePosition
    <2>. HIDE DEF gross, fee
    <2>. QED BY <1>4, <1>5, <2>1 DEF SettlePortfolio, TypeOK
  <1>10. /\ streak' \in Nat /\ circuitUntil' \in Nat
         /\ ledger' \in Seq([at : 0..MaxTime, pnl : Int])
    <2>1. RegisterRisk(pnl)
      BY DEF ClosePosition
    <2>. HIDE DEF pnl
    <2>2. StreakAfter(pnl) \in Nat
      BY <1>6 DEF StreakAfter, TypeOK
    <2>3. CircuitAfter(Append(ledger, [at |-> now, pnl |-> pnl])) \in Nat
      BY Constants DEF CircuitAfter, TypeOK
    <2>. QED BY <1>6, <2>1, <2>2, <2>3 DEF RegisterRisk, TypeOK
  <1>11. journal' \in Seq([id : Nat \ {0}, pnl : Int])
    <2>1. journal' = Append(journal, [id |-> i, pnl |-> pnl])
      BY DEF ClosePosition, TradeRecord
    <2>. HIDE DEF pnl
    <2>. QED BY <1>1, <1>6, <2>1 DEF TypeOK
  <1>12. RegisterRisk(pnl)
    BY DEF ClosePosition
  <1>. HIDE DEF new, pnl
  <1>. QED BY <1>6, <1>7, <1>8, <1>9, <1>10, <1>11, <1>12

(* Whether an entry of the ledger breached depends on no later entry. *)
LEMMA BreachedAppend ==
    ASSUME NEW Entry, NEW l \in Seq(Entry), NEW x \in Entry, NEW k \in 1..Len(l)
    PROVE  Breached(Append(l, x), k) <=> Breached(l, k)
  <1> DEFINE m == Append(l, x)
             old == {j \in 1..k : l[k].at - l[j].at <= BreakerWindow}
             new == {j \in 1..k : m[k].at - m[j].at <= BreakerWindow}
  <1>1. \A j \in 1..k : m[j] = l[j]
    OBVIOUS
  <1>2. new = old
    BY <1>1
  <1>3. [j \in new |-> m[j].pnl] = [j \in old |-> l[j].pnl]
    BY <1>1, <1>2
  <1>4. WindowPnl(m, k) = WindowPnl(l, k)
    BY <1>2, <1>3 DEF WindowPnl
  <1>. QED BY <1>4 DEF Breached

(* What the sequences hold. *)
LEMMA LedgerEntries ==
    ASSUME TypeOK, NEW k \in DOMAIN ledger
    PROVE  k \in 1..Len(ledger) /\ ledger[k].at \in 0..MaxTime
  <1> DEFINE Entry == [at : 0..MaxTime, pnl : Int]
  <1>1. ledger \in Seq(Entry)
    BY DEF TypeOK
  <1> HIDE DEF Entry
  <1>2. k \in 1..Len(ledger) /\ ledger[k] \in Entry
    BY <1>1
  <1>. QED BY <1>2 DEF Entry

LEMMA PositionTypes ==
    ASSUME TypeOK, NEW i \in DOMAIN positions
    PROVE  positions[i] \in Position /\ positions[i].symbol \in Symbols
  <1>1. positions[i] \in Position
    BY DEF TypeOK
  <1>. QED BY <1>1 DEF Position

(* A step that leaves positions, ledger and pause alone leaves the breaker's *)
(* half of the invariant alone, if the clock does not go back.               *)
LEMMA QuietStep ==
    ASSUME IInv, UNCHANGED <<positions, ledger, circuitUntil>>, now' \in Int, now' >= now
    PROVE  LedgerInThePast' /\ PauseCoversBreaches' /\ OpenIds' = OpenIds
  <1>1. OpenIds' = OpenIds
    BY DEF OpenIds
  <1>2. LedgerInThePast'
    <2>1. \A k \in DOMAIN ledger : ledger[k].at \in Int
      BY Constants, LedgerEntries DEF IInv
    <2>. QED BY <2>1 DEF LedgerInThePast, IInv, TypeOK
  <1>3. PauseCoversBreaches'
    BY DEF IInv, PauseCoversBreaches, Breached, WindowPnl
  <1>. QED BY <1>1, <1>2, <1>3

LEMMA InitInv == Init => IInv
  <1> SUFFICES ASSUME Init PROVE IInv
    OBVIOUS
  <1>1. TypeOK
    <2>1. /\ positions \in Seq(Position) /\ journal \in Seq([id : Nat \ {0}, pnl : Int])
          /\ ledger \in Seq([at : 0..MaxTime, pnl : Int])
      BY DEF Init
    <2>2. ticker \in [Symbols -> Prices \cup {NoQuote}]
      BY DEF Init
    <2>3. now \in 0..MaxTime /\ balance \in Int
      BY Constants DEF Init
    <2>. QED BY <2>1, <2>2, <2>3 DEF Init, TypeOK
  <1>2. PositionsQuoted /\ PassHoldsOpen /\ LedgerInThePast /\ PauseCoversBreaches
    BY DEF Init, PositionsQuoted, PassHoldsOpen, LedgerInThePast, PauseCoversBreaches, OpenIds
  <1>. QED BY <1>1, <1>2 DEF IInv

(* Quotes, time, the operator and the pass's own bookkeeping. *)
LEMMA QuietSteps ==
    ASSUME IInv,
           \/ \E s \in Symbols, price \in Prices : UpdateTicker(s, price)
           \/ Tick
           \/ StartPass
           \/ RefreshRisk
           \/ EndPass
           \/ EngageKillSwitch
           \/ ResetKillSwitch
           \/ UNCHANGED vars
    PROVE  IInv'
  <1> USE DEF IInv, TypeOK, market, portfolio, risk, pass, vars
  <1>1. UNCHANGED <<positions, ledger, circuitUntil>> /\ now' \in Int /\ now' >= now
    BY Constants DEF UpdateTicker, Tick, StartPass, RefreshRisk, EndPass,
        EngageKillSwitch, ResetKillSwitch
  <1>2. LedgerInThePast' /\ PauseCoversBreaches' /\ OpenIds' = OpenIds
    BY <1>1, QuietStep
  <1>3. OpenIds \subseteq DOMAIN positions
    BY DEF OpenIds
  <1>4. CASE \E s \in Symbols, price \in Prices : UpdateTicker(s, price)
    <2>1. TypeOK' /\ PassHoldsOpen'
      BY <1>2, <1>4 DEF UpdateTicker, PassHoldsOpen
    <2>2. PositionsQuoted'
      <3>1. \A s \in Symbols : ticker[s] # NoQuote => ticker'[s] # NoQuote
        BY <1>4, EngineAssumption DEF UpdateTicker
      <3>2. \A i \in DOMAIN positions : positions[i].symbol \in Symbols
        BY PositionTypes
      <3>. QED BY <1>1, <3>1, <3>2 DEF PositionsQuoted
    <2>. QED BY <1>2, <2>1, <2>2
  <1>5. CASE ~ \E s \in Symbols, price \in Prices : UpdateTicker(s, price)
    <2>1. UNCHANGED ticker
      BY <1>5 DEF Tick, StartPass, RefreshRisk, EndPass, EngageKillSwitch, ResetKillSwitch
    <2>2. PositionsQuoted'
      BY <1>1, <2>1 DEF PositionsQuoted
    <2>3. PassHoldsOpen' /\ todo' \subseteq DOMAIN positions
      BY <1>2, <1>3, <1>5 DEF Tick, StartPass, RefreshRisk, EndPass, EngageKillSwitch,
          ResetKillSwitch, PassHoldsOpen
    <2>4. TypeOK'
      <3>1. now' \in 0..MaxTime
        BY <1>5, Constants DEF Tick, StartPass, RefreshRisk, EndPass, EngageKillSwitch,
            ResetKillSwitch
      <3>2. UNCHANGED <<balance, wins, losses, streak, journal>>
        BY <1>5 DEF Tick, StartPass, RefreshRisk, EndPass, EngageKillSwitch, ResetKillSwitch
      <3>3. phase' \in {"idle", "manage", "flatten"}
        BY <1>5 DEF Tick, StartPass, RefreshRisk, EndPass, EngageKillSwitch, ResetKillSwitch
      <3>4. kill' \in BOOLEAN
        BY <1>5 DEF Tick, StartPass, RefreshRisk, EndPass, EngageKillSwitch, ResetKillSwitch
      <3>. HIDE DEF IInv
      <3>. QED BY <1>1, <2>1, <2>3, <3>1, <3>2, <3>3, <3>4 DEF IInv
    <2>. QED BY <1>2, <2>2, <2>3, <2>4
  <1>. QED BY <1>4, <1>5

(* Registering a close keeps the breaker's half of the invariant: the new  *)
(* entry is not in the future, and if it breaches, the pause starts afresh. *)
LEMMA RegisterStep ==
    ASSUME IInv, NEW pnl \in Int, RegisterRisk(pnl), now' = now
    PROVE  LedgerInThePast' /\ PauseCoversBreaches'
  <1> DEFINE Entry == [at : 0..MaxTime, pnl : Int]
             x == [at |-> now, pnl |-> pnl]
             n == Len(ledger)
  <1>1. ledger \in Seq(Entry) /\ now \in Int /\ now \in 0..MaxTime /\ circuitUntil \in Nat
    BY Constants DEF IInv, TypeOK
  <1>2. x \in Entry /\ x.at = now
    BY <1>1
  <1>3. ledger' = Append(ledger, x) /\ circuitUntil' = CircuitAfter(ledger')
    BY DEF RegisterRisk
  <1> HIDE DEF Entry, x
  <1>4. /\ DOMAIN ledger = 1..n /\ DOMAIN ledger' = 1..(n + 1) /\ Len(ledger') = n + 1
        /\ ledger'[n + 1] = x /\ n \in Nat
    BY <1>1, <1>2, <1>3
  <1>5. \A k \in 1..n : ledger'[k] = ledger[k] /\ ledger[k].at \in Int /\ ledger[k].at <= now
    <2>1. \A k \in 1..n : ledger'[k] = ledger[k]
      BY <1>1, <1>2, <1>3
    <2>2. \A k \in 1..n : ledger[k].at \in 0..MaxTime
      BY <1>4, LedgerEntries DEF IInv
    <2>. QED BY <1>4, <2>1, <2>2, Constants DEF IInv, LedgerInThePast
  <1>6. LedgerInThePast'
    BY <1>1, <1>2, <1>4, <1>5 DEF LedgerInThePast
  <1>7. circuitUntil' = IF Breached(ledger', n + 1) THEN now + BreakerWindow ELSE circuitUntil
    BY <1>3, <1>4 DEF CircuitAfter
  <1>8. ASSUME NEW k \in 1..(n + 1), Breached(ledger', k)
        PROVE  ledger'[k].at + BreakerWindow <= circuitUntil'
    <2>1. CASE k = n + 1
      BY <1>1, <1>2, <1>4, <1>7, <1>8, <2>1, Constants
    <2>2. CASE k \in 1..n
      <3>1. Breached(ledger, k)
        BY <1>1, <1>2, <1>3, <1>8, <2>2, BreachedAppend
      <3>2. ledger[k].at + BreakerWindow <= circuitUntil
        BY <1>4, <2>2, <3>1 DEF IInv, PauseCoversBreaches
      <3>3. ledger[k].at + BreakerWindow <= now + BreakerWindow
        BY <1>1, <1>5, <2>2, Constants
      <3>4. ledger'[k].at = ledger[k].at
        BY <1>5, <2>2
      <3>. QED BY <1>7, <3>2, <3>3, <3>4
    <2>. QED BY <1>4, <2>1, <2>2
  <1>9. PauseCoversBreaches'
    BY <1>4, <1>8 DEF PauseCoversBreaches
  <1>. QED BY <1>6, <1>9

(* A pass never visits a position twice: replacing the position it visits, by  *)
(* one of the same symbol, leaves the others quoted and open.                  *)
LEMMA ReplaceStep ==
    ASSUME IInv, NEW i \in todo, NEW p \in Position, p.symbol = positions[i].symbol,
           positions' = [positions EXCEPT ![i] = p], todo' = todo \ {i}, UNCHANGED ticker
    PROVE  /\ positions' \in Seq(Position) /\ todo' \subseteq DOMAIN positions'
           /\ PositionsQuoted' /\ PassHoldsOpen'
  <1>1. positions \in Seq(Position) /\ i \in DOMAIN positions
    BY DEF IInv, TypeOK
  <1>2. positions' \in Seq(Position) /\ DOMAIN positions' = DOMAIN positions
    BY <1>1
  <1>3. \A j \in DOMAIN positions : /\ positions'[j].symbol = positions[j].symbol
                                    /\ j # i => positions'[j] = positions[j]
    BY <1>1
  <1>4. PositionsQuoted'
    BY <1>2, <1>3 DEF IInv, PositionsQuoted
  <1>5. PassHoldsOpen'
    BY <1>2, <1>3 DEF IInv, PassHoldsOpen, OpenIds
  <1>. QED BY <1>2, <1>4, <1>5 DEF IInv, TypeOK

(* A position closed by the pass, for whatever reason. *)
LEMMA CloseStep ==
    ASSUME IInv, NEW i \in todo, NEW slip \in 0..MaxSlip,
           ClosePosition(i, slip), todo' = todo \ {i}, UNCHANGED <<market, kill, phase>>
    PROVE  IInv'
  <1> USE DEF IInv
  <1>1. i \in DOMAIN positions /\ UNCHANGED <<now, ticker>>
    BY DEF TypeOK, market
  <1>2. /\ balance' \in Int /\ wins' \in Nat /\ losses' \in Nat
        /\ streak' \in Nat /\ circuitUntil' \in Nat
        /\ ledger' \in Seq([at : 0..MaxTime, pnl : Int])
        /\ journal' \in Seq([id : Nat \ {0}, pnl : Int])
    BY <1>1, CloseType
  <1>3. /\ positions' \in Seq(Position) /\ todo' \subseteq DOMAIN positions'
        /\ PositionsQuoted' /\ PassHoldsOpen'
    <2>1. PICK p \in Position : /\ positions' = [positions EXCEPT ![i] = p]
                                /\ p.symbol = positions[i].symbol
      BY <1>1, CloseType
    <2>. QED BY <1>1, <2>1, ReplaceStep
  <1>4. TypeOK'
    BY <1>1, <1>2, <1>3 DEF TypeOK
  <1>5. LedgerInThePast' /\ PauseCoversBreaches'
    <2>1. PICK pnl \in Int : RegisterRisk(pnl)
      BY <1>1, CloseType
    <2>. QED BY <1>1, <2>1, RegisterStep
  <1>. QED BY <1>3, <1>4, <1>5

LEMMA KeepStep ==
    ASSUME IInv, NEW i \in todo, KeepPosition(i)
    PROVE  IInv' /\ OpenIds' = OpenIds
  <1> USE DEF IInv
  <1> DEFINE price == Touch(positions[i].symbol, -positions[i].side)
             new == [positions[i] EXCEPT !.mark = price]
  <1>1. /\ i \in DOMAIN positions /\ positions[i] \in Position
        /\ UNCHANGED <<now, ticker, ledger, circuitUntil, kill, phase>>
        /\ UNCHANGED <<balance, wins, losses, streak, journal>>
    BY PositionTypes DEF TypeOK, KeepPosition, market, portfolio, risk
  <1>2. price \in Int
    <2>1. positions[i].symbol \in Symbols /\ -positions[i].side \in Sides
      BY <1>1 DEF Position, Sides, Long, Short
    <2>. QED BY <1>1, <2>1, FillPriceType DEF PositionsQuoted, FillPrice
  <1>3. positions' = [positions EXCEPT ![i] = new] /\ todo' = todo \ {i}
    BY DEF KeepPosition
  <1>4. new \in Position /\ new.symbol = positions[i].symbol /\ new.open = positions[i].open
    <2> HIDE DEF price
    <2>. QED BY <1>1, <1>2 DEF Position
  <1> HIDE DEF new
  <1>5. /\ positions' \in Seq(Position) /\ todo' \subseteq DOMAIN positions'
        /\ PositionsQuoted' /\ PassHoldsOpen'
    BY <1>1, <1>3, <1>4, ReplaceStep
  <1>6. TypeOK'
    BY <1>1, <1>5 DEF TypeOK
  <1>7. OpenIds' = OpenIds
    BY <1>1, <1>3, <1>4 DEF OpenIds, TypeOK
  <1>8. LedgerInThePast' /\ PauseCoversBreaches'
    BY <1>1 DEF LedgerInThePast, PauseCoversBreaches, Breached, WindowPnl
  <1>. QED BY <1>5, <1>6, <1>7, <1>8

LEMMA OpenStep ==
    ASSUME IInv, NEW s \in Symbols, NEW side \in Sides, NEW quantity \in Quantities,
           NEW filled \in 1..quantity, NEW slip \in 0..MaxSlip,
           ProcessDecision(s, side, quantity, filled, slip)
    PROVE  /\ IInv'
           /\ OpenIds' = OpenIds \cup {Len(positions) + 1}
           /\ \A t \in Symbols : OpenOn(t)' = IF t = s THEN OpenOn(t) \cup {Len(positions) + 1}
                                                       ELSE OpenOn(t)
  <1> USE DEF IInv
  <1> DEFINE n == Len(positions)
  <1>1. balance' \in Int
    BY EntryType
  <1>2. PICK p \in Position : positions' = Append(positions, p) /\ p.symbol = s /\ p.open
    BY EntryType
  <1>3. /\ ticker[s] # NoQuote
        /\ UNCHANGED <<now, ticker, wins, losses, ledger, streak, kill, circuitUntil, journal>>
        /\ UNCHANGED <<phase, todo>>
    BY DEF ProcessDecision, market, risk, pass
  <1>4. positions \in Seq(Position) /\ n \in Nat /\ DOMAIN positions = 1..n
    BY DEF TypeOK
  <1>5. /\ positions' \in Seq(Position) /\ DOMAIN positions' = 1..(n + 1)
        /\ positions'[n + 1] = p /\ \A i \in 1..n : positions'[i] = positions[i]
    BY <1>2, <1>4
  <1>6. OpenIds' = OpenIds \cup {n + 1}
    BY <1>2, <1>4, <1>5 DEF OpenIds
  <1>7. \A t \in Symbols : OpenOn(t)' = IF t = s THEN OpenOn(t) \cup {n + 1} ELSE OpenOn(t)
    BY <1>2, <1>4, <1>5, <1>6 DEF OpenOn, OpenIds
  <1>8. TypeOK'
    BY <1>1, <1>3, <1>4, <1>5 DEF TypeOK
  <1>9. PositionsQuoted'
    BY <1>2, <1>3, <1>4, <1>5 DEF PositionsQuoted
  <1>10. PassHoldsOpen'
    BY <1>3, <1>6 DEF PassHoldsOpen
  <1>11. LedgerInThePast' /\ PauseCoversBreaches'
    BY <1>3 DEF LedgerInThePast, PauseCoversBreaches, Breached, WindowPnl
  <1>. QED BY <1>6, <1>7, <1>8, <1>9, <1>10, <1>11

(* The steps of Next, by what they do to the set of open positions. *)
LEMMA StepCases ==
    ASSUME IInv, [Next]_vars
    PROVE  \/ \E s \in Symbols, side \in Sides, quantity \in Quantities, slip \in 0..MaxSlip :
                \E filled \in 1..quantity : ProcessDecision(s, side, quantity, filled, slip)
           \/ \E i \in todo : KeepPosition(i)
           \/ \E i \in todo, slip \in 0..MaxSlip :
                /\ ClosePosition(i, slip)
                /\ todo' = todo \ {i}
                /\ UNCHANGED <<market, kill, phase>>
           \/ \/ \E s \in Symbols, price \in Prices : UpdateTicker(s, price)
              \/ Tick
              \/ StartPass
              \/ RefreshRisk
              \/ EndPass
              \/ EngageKillSwitch
              \/ ResetKillSwitch
              \/ UNCHANGED vars
  <1>1. CASE PassStep
    BY <1>1 DEF PassStep, ExitPosition, FlattenPosition
  <1>. QED BY <1>1 DEF Next

LEMMA Induction == IInv /\ [Next]_vars => IInv'
  <1> SUFFICES ASSUME IInv, [Next]_vars PROVE IInv'
    OBVIOUS
  <1>. QED BY StepCases, QuietSteps, KeepStep, CloseStep, OpenStep

LEMMA Invariance == Spec => []IInv
  BY InitInv, Induction, PTL DEF Spec

(* Every state of the engine is well typed, whatever the limits, prices and  *)
(* quantities: in particular every fill found a quote.                       *)
THEOREM TypeCorrect == Spec => []TypeOK
  BY Invariance, PTL DEF IInv

(* Only an accepted decision lengthens the list of positions. *)
LEMMA OnlyDecisionsOpen ==
    ASSUME IInv, [Next]_vars
    PROVE  \/ \E s \in Symbols, side \in Sides, quantity \in Quantities, slip \in 0..MaxSlip :
                \E filled \in 1..quantity : ProcessDecision(s, side, quantity, filled, slip)
           \/ /\ Len(positions') = Len(positions)
              /\ OpenIds' \subseteq OpenIds
              /\ \A s \in Symbols : OpenOn(s)' \subseteq OpenOn(s)
  <1>1. CASE \E i \in todo : KeepPosition(i)
    <2>1. PICK i \in todo : KeepPosition(i)
      BY <1>1
    <2>2. OpenIds' = OpenIds
      BY <2>1, KeepStep
    <2>3. positions \in Seq(Position) /\ i \in DOMAIN positions
      BY DEF IInv, TypeOK
    <2>4. /\ Len(positions') = Len(positions)
          /\ \A j \in DOMAIN positions : positions'[j].symbol = positions[j].symbol
      <3>1. \E m : positions' = [positions EXCEPT ![i].mark = m]
        BY <2>1 DEF KeepPosition
      <3>2. positions[i] \in Position
        BY <2>3
      <3>. QED BY <2>3, <3>1, <3>2 DEF Position
    <2>. QED BY <2>2, <2>4 DEF OpenOn, OpenIds
  <1>2. CASE \E i \in todo, slip \in 0..MaxSlip :
                /\ ClosePosition(i, slip)
                /\ todo' = todo \ {i}
                /\ UNCHANGED <<market, kill, phase>>
    <2>1. PICK i \in todo, slip \in 0..MaxSlip : ClosePosition(i, slip)
      BY <1>2
    <2>2. positions \in Seq(Position) /\ i \in DOMAIN positions
      BY DEF IInv, TypeOK
    <2>3. PICK p \in Position : /\ positions' = [positions EXCEPT ![i] = p]
                                /\ p.symbol = positions[i].symbol /\ ~p.open
      BY <2>1, <2>2, CloseType DEF IInv
    <2>. QED BY <2>2, <2>3 DEF OpenOn, OpenIds
  <1>3. CASE \/ \E s \in Symbols, price \in Prices : UpdateTicker(s, price)
             \/ Tick
             \/ StartPass
             \/ RefreshRisk
             \/ EndPass
             \/ EngageKillSwitch
             \/ ResetKillSwitch
             \/ UNCHANGED vars
    <2>1. UNCHANGED positions
      BY <1>3 DEF UpdateTicker, Tick, StartPass, RefreshRisk, EndPass, EngageKillSwitch,
          ResetKillSwitch, vars
    <2>. QED BY <2>1 DEF OpenOn, OpenIds
  <1>. QED BY <1>1, <1>2, <1>3, StepCases

(* No position opens before the circuit breaker's pause is over: the pause   *)
(* reaches a full window past every breach, and an entry needs it behind.    *)
THEOREM BreakerHolds == Spec => BreakerCoolsDown
  <1>1. ASSUME IInv, [Next]_vars
        PROVE  Len(positions') > Len(positions) =>
                 \A k \in DOMAIN ledger : Breached(ledger, k) => now >= ledger[k].at + BreakerWindow
    <2> SUFFICES ASSUME Len(positions') > Len(positions), NEW k \in DOMAIN ledger,
                        Breached(ledger, k)
                 PROVE  now >= ledger[k].at + BreakerWindow
      OBVIOUS
    <2>1. Len(positions) \in Nat
      BY DEF IInv, TypeOK
    <2>2. ~(now < circuitUntil)
      <3>1. Len(positions') # Len(positions)
        BY <2>1
      <3>2. \E s, notional : EvaluateEntry(s, notional)
        BY <1>1, <3>1, OnlyDecisionsOpen DEF ProcessDecision
      <3>. QED BY <3>2 DEF EvaluateEntry, Halted, CircuitBreakerActive
    <2>3. ledger[k].at + BreakerWindow <= circuitUntil
      BY <1>1 DEF IInv, PauseCoversBreaches
    <2>4. now \in Int /\ circuitUntil \in Int /\ ledger[k].at \in Int
      <3>1. TypeOK
        BY <1>1 DEF IInv
      <3>2. now \in 0..MaxTime /\ circuitUntil \in Nat
        BY <3>1 DEF TypeOK
      <3>3. ledger[k].at \in 0..MaxTime
        BY <3>1, LedgerEntries
      <3>. QED BY <3>2, <3>3, Constants
    <2>. QED BY <2>2, <2>3, <2>4, Constants
  <1>. QED BY <1>1, Invariance, PTL DEF Spec, BreakerCoolsDown

(* While the kill switch stays engaged, positions only leave. *)
THEOREM KillHolds == Spec => KillSwitchHolds
  <1>1. ASSUME IInv, [Next]_vars
        PROVE  kill /\ kill' => /\ OpenIds' \subseteq OpenIds
                                /\ Len(positions') = Len(positions)
    BY <1>1, OnlyDecisionsOpen DEF ProcessDecision, EvaluateEntry, Halted
  <1>. QED BY <1>1, Invariance, PTL DEF Spec, KillSwitchHolds

(* A losing streak at its limit with nothing open is never left: with no      *)
(* position there is no close, and only a winning close lowers the streak.    *)
THEOREM StreakLocks == Spec => StreakLockout
  <1>1. ASSUME IInv, [Next]_vars, LockedOut
        PROVE  LockedOut'
    <2>1. todo = {}
      BY <1>1 DEF IInv, PassHoldsOpen, LockedOut
    <2>2. \A s, side, quantity, filled, slip : ~ProcessDecision(s, side, quantity, filled, slip)
      BY <1>1 DEF LockedOut, ProcessDecision, EvaluateEntry, StreakExhausted
    <2>3. \/ \E s \in Symbols, price \in Prices : UpdateTicker(s, price)
          \/ Tick
          \/ StartPass
          \/ RefreshRisk
          \/ EndPass
          \/ EngageKillSwitch
          \/ ResetKillSwitch
          \/ UNCHANGED vars
      BY <1>1, <2>1, <2>2, StepCases
    <2>4. UNCHANGED <<positions, streak>>
      BY <2>3 DEF UpdateTicker, Tick, StartPass, RefreshRisk, EndPass, EngageKillSwitch,
          ResetKillSwitch, vars, risk
    <2>. QED BY <1>1, <2>4 DEF LockedOut, OpenIds
  <1>. QED BY <1>1, Invariance, PTL DEF Spec, StreakLockout

(* The number of open positions, in all and on one symbol, stays finite and    *)
(* under its limit.                                                            *)
LEMMA LimitsInductive ==
    ASSUME IInv, IInv', LimitsHold, [Next]_vars
    PROVE  LimitsHold'
  <1>1. /\ IsFiniteSet(OpenIds) /\ IsFiniteSet(OpenIds')
        /\ \A s \in Symbols : IsFiniteSet(OpenOn(s)) /\ IsFiniteSet(OpenOn(s)')
    <2>1. OpenIds \subseteq 1..Len(positions) /\ Len(positions) \in Nat
      BY DEF OpenIds, IInv, TypeOK
    <2>2. OpenIds' \subseteq 1..Len(positions') /\ Len(positions') \in Nat
      BY DEF OpenIds, IInv, TypeOK
    <2>3. IsFiniteSet(OpenIds) /\ IsFiniteSet(OpenIds')
      <3>1. \A n \in Nat : IsFiniteSet(1..n)
        BY FS_Interval
      <3>. QED BY <2>1, <2>2, <3>1, FS_Subset
    <2>4. \A s \in Symbols : OpenOn(s) \subseteq OpenIds /\ OpenOn(s)' \subseteq OpenIds'
      BY DEF OpenOn
    <2>. QED BY <2>3, <2>4, FS_Subset
  <1>2. ASSUME NEW s \in Symbols, NEW side \in Sides, NEW quantity \in Quantities,
               NEW filled \in 1..quantity, NEW slip \in 0..MaxSlip,
               ProcessDecision(s, side, quantity, filled, slip)
        PROVE  LimitsHold'
    <2> DEFINE new == Len(positions) + 1
    <2>1. /\ OpenIds' = OpenIds \cup {new}
          /\ \A t \in Symbols : OpenOn(t)' = IF t = s THEN OpenOn(t) \cup {new} ELSE OpenOn(t)
      BY <1>2, OpenStep
    <2>2. Cardinality(OpenIds) < MaxOpenPositions /\ Cardinality(OpenOn(s)) < MaxPositionsPerSymbol
      BY <1>2 DEF ProcessDecision, EvaluateEntry, RoomFor
    <2>3. new \notin OpenIds /\ new \notin OpenOn(s)
      <3>1. new \notin DOMAIN positions
        BY DEF IInv, TypeOK
      <3>. QED BY <3>1 DEF OpenOn, OpenIds
    <2>4. /\ Cardinality(OpenIds') = Cardinality(OpenIds) + 1
          /\ Cardinality(OpenOn(s) \cup {new}) = Cardinality(OpenOn(s)) + 1
          /\ Cardinality(OpenIds) \in Nat /\ Cardinality(OpenOn(s)) \in Nat
      BY <1>1, <2>1, <2>3, FS_AddElement, FS_CardinalityType
    <2>5. Cardinality(OpenIds') <= MaxOpenPositions
      BY <2>2, <2>4, Constants
    <2>6. \A t \in Symbols : Cardinality(OpenOn(t)') <= MaxPositionsPerSymbol
      <3> SUFFICES ASSUME NEW t \in Symbols
                   PROVE  Cardinality(OpenOn(t)') <= MaxPositionsPerSymbol
        OBVIOUS
      <3>1. CASE t = s
        <4>1. OpenOn(t)' = OpenOn(s) \cup {new}
          BY <2>1, <3>1
        <4>. QED BY <2>2, <2>4, <4>1, Constants
      <3>2. CASE t # s
        BY <2>1, <3>2 DEF LimitsHold
      <3>. QED BY <3>1, <3>2
    <2>. QED BY <2>5, <2>6 DEF LimitsHold
  <1>3. ASSUME /\ OpenIds' \subseteq OpenIds
               /\ \A s \in Symbols : OpenOn(s)' \subseteq OpenOn(s)
        PROVE  LimitsHold'
    <2>1. Cardinality(OpenIds') <= Cardinality(OpenIds)
      BY <1>1, <1>3, FS_Subset
    <2>2. \A s \in Symbols : Cardinality(OpenOn(s)') <= Cardinality(OpenOn(s))
      BY <1>1, <1>3, FS_Subset
    <2>3. /\ Cardinality(OpenIds) \in Nat /\ Cardinality(OpenIds') \in Nat
          /\ \A s \in Symbols : Cardinality(OpenOn(s)) \in Nat /\ Cardinality(OpenOn(s)') \in Nat
      BY <1>1, FS_CardinalityType
    <2>. QED BY <2>1, <2>2, <2>3, Constants DEF LimitsHold
  <1>. QED BY <1>2, <1>3, OnlyDecisionsOpen

(* The limits on the number of positions hold in every state. *)
THEOREM LimitsRespected == Spec => []LimitsHold
  <1>1. Init => LimitsHold
    <2>1. Init => OpenIds = {} /\ \A s \in Symbols : OpenOn(s) = {}
      BY DEF Init, OpenIds, OpenOn
    <2>. QED BY <2>1, FS_EmptySet, Constants DEF LimitsHold
  <1>. QED BY <1>1, Invariance, LimitsInductive, PTL DEF Spec

-----------------------------------------------------------------------------
(* The books agree.  A close writes positions, ledger, streak and journal    *)
(* one after another, and every one of them with the same result.            *)

Trades == [id : Nat \ {0}, pnl : Int]

(* What a close writes, book by book.                                        *)
LEMMA CloseWrites ==
    ASSUME IInv, NEW i \in todo, NEW slip \in 0..MaxSlip, ClosePosition(i, slip)
    PROVE  \E pnl \in Int, q \in Position :
             /\ ~q.open /\ q.pnl = pnl /\ positions' = [positions EXCEPT ![i] = q]
             /\ journal' = Append(journal, [id |-> i, pnl |-> pnl])
             /\ ledger' = Append(ledger, [at |-> now, pnl |-> pnl])
             /\ streak' = StreakAfter(pnl)
             /\ balance' = balance + pnl + positions[i].fee
  <1> DEFINE p == positions[i]
             price == FillPrice(p.symbol, -p.side, slip)
             gross == (price - p.entry) * p.quantity * p.side
             fee == Commission(p.quantity)
             pnl == gross - (p.fee + fee)
             q == [p EXCEPT !.mark = price, !.fee = p.fee + fee, !.open = FALSE, !.pnl = pnl]
  <1>1. p \in Position /\ slip \in Nat
    BY Constants, PositionTypes DEF IInv, TypeOK
  <1>2. p.quantity \in Nat \ {0} /\ p.side \in Int /\ p.entry \in Int /\ p.fee \in Nat
        /\ -p.side \in Sides /\ p.symbol \in Symbols
    BY <1>1 DEF Position, Sides, Long, Short
  <1>3. price \in Int
    BY <1>1, <1>2, FillPriceType DEF IInv, TypeOK, PositionsQuoted
  <1>4. fee \in Nat
    BY <1>2, Constants DEF Commission
  <1>5. gross \in Int
    <2>1. (price - p.entry) * p.quantity \in Int
      BY <1>2, <1>3
    <2>. QED BY <1>2, <2>1
  <1>6. pnl \in Int
    BY <1>2, <1>4, <1>5
  <1>7. q \in Position /\ ~q.open /\ q.pnl = pnl
    <2>1. p.fee + fee \in Nat
      BY <1>2, <1>4
    <2>. HIDE DEF p, price, fee, pnl
    <2>. QED BY <1>1, <1>3, <1>6, <2>1 DEF Position
  <1>8. balance' = balance + gross - fee
    BY DEF ClosePosition, SettlePortfolio
  <1>9. balance' = balance + pnl + p.fee
    <2>. HIDE DEF gross, fee, p
    <2>. QED BY <1>2, <1>4, <1>5, <1>8 DEF pnl, IInv, TypeOK
  <1>10. /\ positions' = [positions EXCEPT ![i] = q]
         /\ journal' = Append(journal, [id |-> i, pnl |-> pnl])
         /\ RegisterRisk(pnl)
    BY DEF ClosePosition, TradeRecord
  <1>. HIDE DEF q, pnl
  <1>. QED BY <1>6, <1>7, <1>9, <1>10 DEF RegisterRisk

LEMMA StreakCounted ==
    ASSUME NEW trades
    PROVE  LossesSinceLastWin(trades) = Cardinality(LosingStreak(trades))
  BY DEF LossesSinceLastWin, LosingStreak

LEMMA BooksStart == Init => BooksAgree
  <1>1. LossesSinceLastWin(<<>>) = 0
    <2>1. LosingStreak(<<>>) = {}
      BY DEF LosingStreak
    <2>. QED BY <2>1, StreakCounted, FS_EmptySet
  <1>. QED BY <1>1 DEF Init, BooksAgree, ClosedIds, OpenIds

LEMMA BooksInductive ==
    ASSUME IInv, IInv', BooksAgree, [Next]_vars
    PROVE  BooksAgree'
  <1>0. /\ positions \in Seq(Position) /\ journal \in Seq(Trades)
        /\ ledger \in Seq([at : 0..MaxTime, pnl : Int]) /\ todo \subseteq OpenIds
        /\ todo \subseteq DOMAIN positions
    BY DEF IInv, TypeOK, PassHoldsOpen, Trades
  <1>1. ASSUME NEW i \in todo, NEW slip \in 0..MaxSlip, ClosePosition(i, slip)
        PROVE  BooksAgree'
    <2>1. PICK pnl \in Int : \E q \in Position :
             /\ ~q.open /\ q.pnl = pnl /\ positions' = [positions EXCEPT ![i] = q]
             /\ journal' = Append(journal, [id |-> i, pnl |-> pnl])
             /\ ledger' = Append(ledger, [at |-> now, pnl |-> pnl])
             /\ streak' = StreakAfter(pnl)
      BY <1>1, CloseWrites
    <2>2. PICK q \in Position :
             /\ ~q.open /\ q.pnl = pnl /\ positions' = [positions EXCEPT ![i] = q]
             /\ journal' = Append(journal, [id |-> i, pnl |-> pnl])
             /\ ledger' = Append(ledger, [at |-> now, pnl |-> pnl])
             /\ streak' = StreakAfter(pnl)
      BY <2>1
    <2>. DEFINE trade == [id |-> i, pnl |-> pnl]
                entry == [at |-> now, pnl |-> pnl]
                n == Len(journal)
    <2>3. trade \in Trades /\ entry \in [at : 0..MaxTime, pnl : Int]
      BY <1>0 DEF Trades, IInv, TypeOK
    <2>4. trade.id = i /\ trade.pnl = pnl /\ entry.pnl = pnl
      OBVIOUS
    <2>. HIDE DEF trade, entry
    <2>5. /\ n \in Nat /\ n = Len(ledger) /\ DOMAIN journal = 1..n /\ DOMAIN ledger = 1..n
          /\ Len(journal') = n + 1 /\ Len(ledger') = n + 1
          /\ DOMAIN journal' = 1..(n + 1)
          /\ journal'[n + 1] = trade /\ ledger'[n + 1] = entry
          /\ \A k \in 1..n : journal'[k] = journal[k] /\ ledger'[k] = ledger[k]
      <3>1. journal' = Append(journal, trade) /\ ledger' = Append(ledger, entry)
        BY <2>2 DEF trade, entry
      <3>. QED BY <1>0, <2>3, <3>1 DEF BooksAgree
    <2>6. /\ DOMAIN positions' = DOMAIN positions /\ positions'[i] = q
          /\ \A j \in DOMAIN positions : j # i => positions'[j] = positions[j]
      BY <1>0, <2>2
    <2>7. ClosedIds' = ClosedIds \cup {i} /\ i \notin ClosedIds
      BY <1>0, <2>2, <2>6 DEF ClosedIds, OpenIds
    <2>8. \A k \in 1..n : journal[k].id \in ClosedIds /\ journal[k].id # i
      BY <2>5, <2>7 DEF BooksAgree
    <2>9. {journal'[k].id : k \in DOMAIN journal'} = ClosedIds'
      BY <2>4, <2>5, <2>7 DEF BooksAgree
    <2>10. \A k, m \in DOMAIN journal' : journal'[k].id = journal'[m].id => k = m
      BY <2>4, <2>5, <2>8 DEF BooksAgree
    <2>11. \A k \in DOMAIN journal' : /\ ledger'[k].pnl = journal'[k].pnl
                                      /\ positions'[journal'[k].id].pnl = journal'[k].pnl
      <3>1. \A k \in 1..n : journal[k].id \in DOMAIN positions
        BY <2>8 DEF ClosedIds
      <3>. QED BY <2>2, <2>4, <2>5, <2>6, <2>8, <3>1 DEF BooksAgree
    <2>12. streak' = LossesSinceLastWin(journal')
      <3>1. journal' = Append(journal, trade)
        BY <2>2 DEF trade
      <3>3. streak = Cardinality(LosingStreak(journal))
        BY StreakCounted DEF BooksAgree
      <3>4. \A t \in Trades : t.pnl \in Int
        BY DEF Trades
      <3>5. Cardinality(LosingStreak(journal'))
              = IF pnl < 0 THEN streak + 1 ELSE IF pnl > 0 THEN 0 ELSE streak
        BY <1>0, <2>3, <2>4, <3>1, <3>3, <3>4, StreakOfOneMore
      <3>2. LossesSinceLastWin(journal') = IF pnl < 0 THEN streak + 1 ELSE IF pnl > 0 THEN 0 ELSE streak
        BY <3>5, StreakCounted
      <3>. QED BY <2>2, <3>2 DEF StreakAfter
    <2>. QED BY <2>5, <2>9, <2>10, <2>11, <2>12 DEF BooksAgree
  <1>2. ASSUME UNCHANGED <<journal, ledger, streak>>, ClosedIds' = ClosedIds,
               \A j \in ClosedIds : positions'[j] = positions[j]
        PROVE  BooksAgree'
    <2>1. \A k \in DOMAIN journal : journal[k].id \in ClosedIds
      BY DEF BooksAgree
    <2>. QED BY <1>2, <2>1 DEF BooksAgree
  <1>3. ASSUME NEW i \in todo, KeepPosition(i) PROVE BooksAgree'
    <2>1. UNCHANGED <<journal, ledger, streak>> /\ OpenIds' = OpenIds
      BY <1>3, KeepStep DEF KeepPosition, risk
    <2>2. /\ DOMAIN positions' = DOMAIN positions
          /\ \A j \in DOMAIN positions : j # i => positions'[j] = positions[j]
      BY <1>0, <1>3 DEF KeepPosition
    <2>3. ClosedIds' = ClosedIds /\ \A j \in ClosedIds : positions'[j] = positions[j]
      BY <1>0, <2>1, <2>2 DEF ClosedIds
    <2>. QED BY <1>2, <2>1, <2>3
  <1>4. ASSUME NEW s \in Symbols, NEW side \in Sides, NEW quantity \in Quantities,
               NEW slip \in 0..MaxSlip, NEW filled \in 1..quantity,
               ProcessDecision(s, side, quantity, filled, slip)
        PROVE  BooksAgree'
    <2>1. PICK p \in Position : positions' = Append(positions, p) /\ p.open
      BY <1>4, EntryType DEF IInv
    <2>2. UNCHANGED <<journal, ledger, streak>>
      BY <1>4 DEF ProcessDecision, risk
    <2>3. /\ DOMAIN positions' = DOMAIN positions \cup {Len(positions) + 1}
          /\ positions'[Len(positions) + 1] = p /\ Len(positions) + 1 \notin DOMAIN positions
          /\ \A j \in DOMAIN positions : positions'[j] = positions[j]
      BY <1>0, <2>1
    <2>4. ClosedIds' = ClosedIds /\ \A j \in ClosedIds : positions'[j] = positions[j]
      BY <2>1, <2>3 DEF ClosedIds, OpenIds
    <2>. QED BY <1>2, <2>2, <2>4
  <1>5. CASE \/ \E s \in Symbols, price \in Prices : UpdateTicker(s, price)
             \/ Tick
             \/ StartPass
             \/ RefreshRisk
             \/ EndPass
             \/ EngageKillSwitch
             \/ ResetKillSwitch
             \/ UNCHANGED vars
    <2>1. UNCHANGED <<positions, journal, ledger, streak>>
      BY <1>5 DEF UpdateTicker, Tick, StartPass, RefreshRisk, EndPass, EngageKillSwitch,
          ResetKillSwitch, vars, risk
    <2>. QED BY <1>2, <2>1 DEF ClosedIds, OpenIds
  <1>. QED BY <1>1, <1>3, <1>4, <1>5, StepCases

(* The journal, the risk ledger, the positions and the streak show the same  *)
(* trades, each once, within the limits, in whatever order positions exit    *)
(* (execution_engine/engine.py:780-830).                                     *)
THEOREM BooksKept == Spec => []BooksHold
  <1>1. Spec => []BooksAgree
    BY BooksStart, BooksInductive, Invariance, PTL DEF Spec
  <1>. QED BY <1>1, TypeCorrect, LimitsRespected, PTL DEF BooksHold

-----------------------------------------------------------------------------
(* The cash.  An opening pays a fee the open positions now show; a close     *)
(* books the net result, and the opening fee that result contains leaves the *)
(* open positions with it.                                                   *)

LEMMA FiniteBooks ==
    ASSUME IInv
    PROVE  /\ IsFiniteSet(OpenIds) /\ IsFiniteSet(DOMAIN journal)
           /\ \A i \in OpenIds : positions[i].fee \in Int
           /\ \A k \in DOMAIN journal : journal[k].pnl \in Int
           /\ JournalTotal \in Int /\ OpenFees \in Int /\ balance \in Int
  <1>1. positions \in Seq(Position) /\ journal \in Seq(Trades) /\ balance \in Int
    BY DEF IInv, TypeOK, Trades
  <1>2. /\ Len(positions) \in Nat /\ Len(journal) \in Nat
        /\ OpenIds \subseteq 1..Len(positions) /\ DOMAIN journal = 1..Len(journal)
    BY <1>1 DEF OpenIds
  <1>3. IsFiniteSet(1..Len(positions)) /\ IsFiniteSet(1..Len(journal))
    BY <1>2, FS_Interval
  <1>4. IsFiniteSet(OpenIds) /\ IsFiniteSet(DOMAIN journal)
    BY <1>2, <1>3, FS_Subset
  <1>5. \A i \in OpenIds : positions[i].fee \in Int
    <2>1. \A i \in OpenIds : positions[i] \in Position
      BY <1>1 DEF OpenIds
    <2>. QED BY <2>1 DEF Position
  <1>6. \A k \in DOMAIN journal : journal[k].pnl \in Int
    <2>1. \A k \in DOMAIN journal : journal[k] \in Trades
      BY <1>1
    <2>. QED BY <2>1 DEF Trades
  <1>7. JournalTotal \in Int
    <2> DEFINE f == [k \in DOMAIN journal |-> journal[k].pnl]
    <2>1. IntsOn(f, DOMAIN journal)
      BY <1>6 DEF IntsOn
    <2> HIDE DEF f
    <2>2. SumFunctionOnSet(f, DOMAIN journal) \in Int
      BY <1>4, <2>1, SumIsInt
    <2>. QED BY <2>2 DEF f, JournalTotal
  <1>8. OpenFees \in Int
    <2> DEFINE f == [i \in OpenIds |-> positions[i].fee]
    <2>1. IntsOn(f, OpenIds)
      BY <1>5 DEF IntsOn
    <2> HIDE DEF f
    <2>2. SumFunctionOnSet(f, OpenIds) \in Int
      BY <1>4, <2>1, SumIsInt
    <2>. QED BY <2>2 DEF f, OpenFees
  <1>. QED BY <1>1, <1>4, <1>5, <1>6, <1>7, <1>8

(* One record more in the journal adds its result to the total. *)
LEMMA JournalGrows ==
    ASSUME IInv, NEW trade \in Trades, journal' = Append(journal, trade)
    PROVE  JournalTotal' = JournalTotal + trade.pnl
  <1>1. journal \in Seq(Trades) /\ \A t \in Trades : t.pnl \in Int
    BY DEF IInv, TypeOK, Trades
  <1>2. JournalTotal \in Int /\ SumsTo(PnlsOf(journal), DOMAIN journal, JournalTotal)
    BY FiniteBooks DEF JournalTotal, SumsTo, PnlsOf
  <1>3. SumsTo(PnlsOf(journal'), DOMAIN journal', JournalTotal + trade.pnl)
    BY <1>1, <1>2, TotalOfOneMore
  <1>. QED BY <1>3 DEF JournalTotal, SumsTo, PnlsOf

LEMMA FiniteBooksNext ==
    ASSUME IInv'
    PROVE  IsFiniteSet(OpenIds') /\ (\A i \in OpenIds' : positions'[i].fee \in Int) /\ OpenFees' \in Int
  <1>1. (IInv => /\ IsFiniteSet(OpenIds) /\ (\A i \in OpenIds : positions[i].fee \in Int)
                 /\ OpenFees \in Int)'
    BY FiniteBooks, PTL
  <1>. QED BY <1>1

LEMMA CashInductive ==
    ASSUME IInv, IInv', CashConservation, [Next]_vars
    PROVE  CashConservation'
  <1>0. /\ positions \in Seq(Position) /\ journal \in Seq(Trades)
        /\ todo \subseteq OpenIds /\ OpenIds \subseteq DOMAIN positions
    BY DEF IInv, TypeOK, PassHoldsOpen, Trades, OpenIds
  <1>a. /\ IsFiniteSet(OpenIds) /\ IsFiniteSet(OpenIds') /\ InitialBalance \in Nat
        /\ \A i \in OpenIds : positions[i].fee \in Int
        /\ \A i \in OpenIds' : positions'[i].fee \in Int
        /\ JournalTotal \in Int /\ OpenFees \in Int /\ OpenFees' \in Int /\ balance \in Int
    BY FiniteBooks, FiniteBooksNext, Constants
  <1>1. ASSUME NEW i \in todo, NEW slip \in 0..MaxSlip, ClosePosition(i, slip)
        PROVE  CashConservation'
    <2>1. PICK pnl \in Int : \E q \in Position :
             /\ ~q.open /\ positions' = [positions EXCEPT ![i] = q]
             /\ journal' = Append(journal, [id |-> i, pnl |-> pnl])
             /\ balance' = balance + pnl + positions[i].fee
      BY <1>1, CloseWrites
    <2>2. PICK q \in Position :
             /\ ~q.open /\ positions' = [positions EXCEPT ![i] = q]
             /\ journal' = Append(journal, [id |-> i, pnl |-> pnl])
             /\ balance' = balance + pnl + positions[i].fee
      BY <2>1
    <2>. DEFINE trade == [id |-> i, pnl |-> pnl]
    <2>3. trade \in Trades /\ trade.pnl = pnl
      <3>1. i \in DOMAIN positions
        BY <1>0
      <3>2. i \in Nat \ {0}
        BY <1>0, <3>1
      <3>. QED BY <3>2 DEF Trades
    <2>4. JournalTotal' = JournalTotal + pnl
      <3>1. journal' = Append(journal, trade)
        BY <2>2
      <3>. HIDE DEF trade
      <3>. QED BY <2>3, <3>1, JournalGrows
    <2>5. /\ i \in OpenIds /\ i \notin OpenIds' /\ OpenIds = OpenIds' \cup {i}
          /\ \A j \in OpenIds' : positions'[j] = positions[j]
      <3>1. /\ DOMAIN positions' = DOMAIN positions /\ positions'[i] = q
            /\ \A j \in DOMAIN positions : j # i => positions'[j] = positions[j]
        BY <1>0, <2>2
      <3>. QED BY <1>0, <2>2, <3>1 DEF OpenIds
    <2>6. positions[i].fee \in Int
      BY <1>a, <2>5
    <2>7. OpenFees = OpenFees' + positions[i].fee
      <3> DEFINE f == [j \in OpenIds' |-> positions'[j].fee]
                 g == [j \in OpenIds |-> positions[j].fee]
      <3>1. SumsTo(f, OpenIds', OpenFees') /\ g[i] = positions[i].fee
        BY <2>5 DEF OpenFees, SumsTo
      <3>2. AgreeOn(f, g, OpenIds') /\ IntsOn(g, OpenIds' \cup {i})
        BY <1>a, <2>5 DEF AgreeOn, IntsOn
      <3> HIDE DEF f, g
      <3>3. SumsTo(g, OpenIds' \cup {i}, OpenFees' + positions[i].fee)
        BY <1>a, <2>5, <2>6, <3>1, <3>2, SumWithOneMore
      <3>. QED BY <2>5, <3>3 DEF OpenFees, SumsTo, g
    <2>. DEFINE fee == positions[i].fee
    <2>8. /\ balance = InitialBalance + JournalTotal - OpenFees
          /\ balance' = balance + pnl + fee /\ OpenFees = OpenFees' + fee /\ fee \in Int
      BY <2>2, <2>6, <2>7 DEF CashConservation
    <2>. HIDE DEF fee
    <2>9. balance' = InitialBalance + JournalTotal' - OpenFees'
      BY <1>a, <2>4, <2>8
    <2>. QED BY <2>9 DEF CashConservation
  <1>2. ASSUME UNCHANGED <<journal, balance>>, OpenIds' = OpenIds,
               \A j \in OpenIds : positions'[j].fee = positions[j].fee
        PROVE  CashConservation'
    <2> DEFINE f == [j \in OpenIds |-> positions[j].fee]
               g == [j \in OpenIds' |-> positions'[j].fee]
    <2>1. f = g
      BY <1>2
    <2>2. OpenFees' = OpenFees
      <3> HIDE DEF f, g
      <3>1. SumFunctionOnSet(f, OpenIds) = SumFunctionOnSet(g, OpenIds')
        BY <1>2, <2>1
      <3>. QED BY <3>1 DEF OpenFees, f, g
    <2>3. JournalTotal' = JournalTotal
      BY <1>2 DEF JournalTotal
    <2>. QED BY <1>2, <2>2, <2>3 DEF CashConservation
  <1>3. ASSUME NEW i \in todo, KeepPosition(i) PROVE CashConservation'
    <2>1. UNCHANGED <<journal, balance>> /\ OpenIds' = OpenIds
      BY <1>3, KeepStep DEF KeepPosition, portfolio
    <2>2. \A j \in DOMAIN positions : positions'[j].fee = positions[j].fee
      <3>1. \A j \in DOMAIN positions : positions[j] \in Position
        BY <1>0
      <3>. QED BY <1>0, <1>3, <3>1 DEF KeepPosition, Position
    <2>. QED BY <1>0, <1>2, <2>1, <2>2
  <1>4. ASSUME NEW s \in Symbols, NEW side \in Sides, NEW quantity \in Quantities,
               NEW slip \in 0..MaxSlip, NEW filled \in 1..quantity,
               ProcessDecision(s, side, quantity, filled, slip)
        PROVE  CashConservation'
    <2> DEFINE new == Len(positions) + 1
    <2>1. PICK p \in Position : positions' = Append(positions, p) /\ balance' = balance - p.fee
      BY <1>4, EntryType DEF IInv
    <2>2. journal' = journal
      BY <1>4 DEF ProcessDecision
    <2>3. /\ new \notin DOMAIN positions /\ positions'[new] = p
          /\ \A j \in DOMAIN positions : positions'[j] = positions[j]
      BY <1>0, <2>1
    <2>4. OpenIds' = OpenIds \cup {new}
      BY <1>4, OpenStep
    <2>. HIDE DEF new
    <2>6. OpenFees' = OpenFees + p.fee
      <3> DEFINE f == [j \in OpenIds |-> positions[j].fee]
                 g == [j \in OpenIds' |-> positions'[j].fee]
      <3>1. SumsTo(f, OpenIds, OpenFees)
        BY DEF OpenFees, SumsTo
      <3>2. g[new] = p.fee /\ p.fee \in Int /\ new \notin OpenIds
        BY <1>0, <2>3, <2>4 DEF Position
      <3>3. AgreeOn(f, g, OpenIds) /\ IntsOn(g, OpenIds \cup {new})
        BY <1>0, <1>a, <2>3, <2>4 DEF AgreeOn, IntsOn
      <3> HIDE DEF f, g
      <3>4. SumsTo(g, OpenIds \cup {new}, OpenFees + p.fee)
        BY <1>a, <3>1, <3>2, <3>3, SumWithOneMore
      <3>. QED BY <2>4, <3>4 DEF OpenFees, SumsTo, g
    <2>7. JournalTotal' = JournalTotal /\ p.fee \in Int
      BY <2>2 DEF JournalTotal, Position
    <2>8. balance = InitialBalance + JournalTotal - OpenFees
      BY DEF CashConservation
    <2>9. balance' = InitialBalance + JournalTotal' - OpenFees'
      <3>1. balance' = balance - p.fee
        BY <2>1
      <3>. QED BY <1>a, <2>6, <2>7, <2>8, <3>1
    <2>. QED BY <2>9 DEF CashConservation
  <1>5. CASE \/ \E s \in Symbols, price \in Prices : UpdateTicker(s, price)
             \/ Tick
             \/ StartPass
             \/ RefreshRisk
             \/ EndPass
             \/ EngageKillSwitch
             \/ ResetKillSwitch
             \/ UNCHANGED vars
    <2>1. UNCHANGED <<positions, journal, balance>>
      BY <1>5 DEF UpdateTicker, Tick, StartPass, RefreshRisk, EndPass, EngageKillSwitch,
          ResetKillSwitch, vars, portfolio
    <2>. QED BY <1>2, <2>1 DEF OpenIds
  <1>. QED BY <1>1, <1>3, <1>4, <1>5, StepCases

(* No money appears or disappears, whatever the fees, slips, partial fills   *)
(* and order of exits: the balance is the starting one, plus the journal,    *)
(* less the fees of what is open (portfolio_manager/manager.py:134-147).     *)
THEOREM CashConserved == Spec => []CashConservation
  <1>1. Init => CashConservation
    <2>1. SumFunctionOnSet([k \in {} |-> journal[k].pnl], {}) = 0
          /\ SumFunctionOnSet([i \in {} |-> positions[i].fee], {}) = 0
      BY SumOfNothing
    <2>2. Init => DOMAIN journal = {} /\ OpenIds = {} /\ balance = InitialBalance
      BY DEF Init, OpenIds
    <2>3. ASSUME Init PROVE JournalTotal = 0 /\ OpenFees = 0
      BY <2>1, <2>2, <2>3 DEF JournalTotal, OpenFees
    <2>. QED BY <2>2, <2>3, Constants DEF CashConservation
  <1>. QED BY <1>1, CashInductive, Invariance, PTL DEF Spec

-----------------------------------------------------------------------------
(* The engine implements the trade book.  The abstract list of trades is a   *)
(* function on the places of `positions': it changes exactly when one of     *)
(* them changes its terms or one is added.                                   *)

TradeTerms == [symbol : Symbols, side : Sides, quantity : Nat \ {0}, entry : Int]
TradesOf == [i \in DOMAIN positions |-> TermsOf(positions[i])]

LEMMA TradesType ==
    ASSUME NEW list \in Seq(Position)
    PROVE  /\ [i \in DOMAIN list |-> TermsOf(list[i])] \in Seq(TradeTerms)
           /\ Len([i \in DOMAIN list |-> TermsOf(list[i])]) = Len(list)
  <1>1. Len(list) \in Nat /\ DOMAIN list = 1..Len(list)
    OBVIOUS
  <1>2. \A i \in DOMAIN list : TermsOf(list[i]) \in TradeTerms
    <2> SUFFICES ASSUME NEW i \in DOMAIN list PROVE TermsOf(list[i]) \in TradeTerms
      OBVIOUS
    <2>1. list[i] \in Position
      OBVIOUS
    <2>. QED BY <2>1 DEF Position, TermsOf, TradeTerms
  <1> HIDE DEF TradeTerms
  <1>. QED BY <1>1, <1>2

(* Replacing a position by one of the same terms is invisible. *)
LEMMA TermsKept ==
    ASSUME NEW i \in DOMAIN positions, NEW p, positions' = [positions EXCEPT ![i] = p],
           TermsOf(p) = TermsOf(positions[i])
    PROVE  TradesOf' = TradesOf
  <1>1. DOMAIN positions' = DOMAIN positions
    OBVIOUS
  <1>2. \A j \in DOMAIN positions : TermsOf(positions'[j]) = TermsOf(positions[j])
    OBVIOUS
  <1>. QED BY <1>1, <1>2 DEF TradesOf

LEMMA EnterUnfolded ==
    TB!Enter <=>
        /\ ~kill
        /\ Cardinality(OpenIds) < MaxOpenPositions
        /\ TB!Extends(TradesOf', TradesOf, TradeTerms)
        /\ OpenIds' = OpenIds \cup {Len(TradesOf')}
        /\ UNCHANGED <<journal, kill>>
  BY DEF TB!Enter, TradesOf, TradeTerms, Cardinality, TB!Cardinality

LEMMA EnterRefines ==
    ASSUME IInv, NEW s \in Symbols, NEW side \in Sides, NEW quantity \in Quantities,
           NEW filled \in 1..quantity, NEW slip \in 0..MaxSlip,
           ProcessDecision(s, side, quantity, filled, slip)
    PROVE  TB!Enter
  <1> DEFINE n == Len(positions)
             e == TradesOf'[n + 1]
  <1>1. ~kill /\ Cardinality(OpenIds) < MaxOpenPositions
    BY DEF ProcessDecision, EvaluateEntry, Halted, RoomFor
  <1>2. journal' = journal /\ kill' = kill
    BY DEF ProcessDecision, risk
  <1>3. OpenIds' = OpenIds \cup {n + 1}
    BY OpenStep
  <1>4. TypeOK /\ TypeOK'
    BY OpenStep DEF IInv
  <1>5. PICK p \in Position : positions' = Append(positions, p)
    BY <1>4, EntryType
  <1>6. /\ n \in Nat /\ DOMAIN positions = 1..n /\ DOMAIN positions' = 1..(n + 1)
        /\ Len(positions') = n + 1
        /\ \A i \in 1..n : positions'[i] = positions[i]
    BY <1>4, <1>5 DEF TypeOK
  <1>7. /\ TradesOf \in Seq(TradeTerms) /\ Len(TradesOf) = n
        /\ TradesOf' \in Seq(TradeTerms) /\ Len(TradesOf') = n + 1
    <2>1. positions \in Seq(Position) /\ positions' \in Seq(Position)
      BY <1>4 DEF TypeOK
    <2>. QED BY <1>6, <2>1, TradesType DEF TradesOf
  <1>8. \A i \in 1..n : TradesOf'[i] = TradesOf[i]
    BY <1>6 DEF TradesOf
  <1>9. e \in TradeTerms /\ TradesOf' = Append(TradesOf, e)
    <2> HIDE DEF TradesOf, TradeTerms, n
    <2>. QED BY <1>6, <1>7, <1>8
  <1>10. TB!Extends(TradesOf', TradesOf, TradeTerms)
    BY <1>7, <1>9 DEF TB!Extends
  <1>. QED BY <1>1, <1>2, <1>3, <1>7, <1>10, EnterUnfolded

LEMMA FinishUnfolded ==
    ASSUME NEW i
    PROVE  TB!Finish(i) <=>
             /\ OpenIds' = OpenIds \ {i}
             /\ TB!Extends(journal', journal, [id : Nat \ {0}, pnl : Int])
             /\ journal'[Len(journal')].id = i
             /\ UNCHANGED <<TradesOf, kill>>
  BY DEF TB!Finish, TradesOf

LEMMA FinishRefines ==
    ASSUME IInv, NEW i \in todo, NEW slip \in 0..MaxSlip, ClosePosition(i, slip), kill' = kill
    PROVE  i \in OpenIds /\ TB!Finish(i)
  <1> DEFINE p == positions[i]
             price == FillPrice(p.symbol, -p.side, slip)
             fee == Commission(p.quantity)
             pnl == (price - p.entry) * p.quantity * p.side - (p.fee + fee)
             new == [p EXCEPT !.mark = price, !.fee = p.fee + fee, !.open = FALSE, !.pnl = pnl]
             Record == [id : Nat \ {0}, pnl : Int]
             record == [id |-> i, pnl |-> pnl]
  <1>1. /\ i \in DOMAIN positions /\ i \in OpenIds /\ p \in Position
        /\ positions \in Seq(Position) /\ journal \in Seq(Record)
    BY PositionTypes DEF IInv, TypeOK, PassHoldsOpen
  <1>2. positions' = [positions EXCEPT ![i] = new] /\ journal' = Append(journal, record)
    BY DEF ClosePosition, TradeRecord
  <1>3. journal' \in Seq(Record)
    BY <1>1, CloseType DEF IInv
  <1>4. TermsOf(new) = TermsOf(p) /\ ~new.open
    <2> HIDE DEF price, fee, pnl
    <2>. QED BY <1>1 DEF TermsOf, Position
  <1>5. record.id = i
    OBVIOUS
  <1> HIDE DEF new, record, Record
  <1>6. TradesOf' = TradesOf
    BY <1>1, <1>2, <1>4, TermsKept
  <1>7. OpenIds' = OpenIds \ {i}
    BY <1>1, <1>2, <1>4 DEF OpenIds
  <1>8. /\ Len(journal') = Len(journal) + 1 /\ journal'[Len(journal')] = record
        /\ journal'[Len(journal')] \in Record
    BY <1>1, <1>2, <1>3
  <1>9. TB!Extends(journal', journal, Record)
    BY <1>2, <1>8 DEF TB!Extends
  <1>. QED BY <1>1, <1>5, <1>6, <1>7, <1>8, <1>9, FinishUnfolded DEF Record

LEMMA KeepRefines ==
    ASSUME IInv, NEW i \in todo, KeepPosition(i)
    PROVE  UNCHANGED TB!book
  <1> DEFINE p == positions[i]
             price == Touch(p.symbol, -p.side)
             new == [p EXCEPT !.mark = price]
  <1>1. i \in DOMAIN positions /\ p \in Position /\ positions \in Seq(Position)
    BY PositionTypes DEF IInv, TypeOK
  <1>2. positions' = [positions EXCEPT ![i] = new] /\ UNCHANGED <<journal, kill>>
    BY DEF KeepPosition, risk
  <1>3. TermsOf(new) = TermsOf(p)
    <2> HIDE DEF price
    <2>. QED BY <1>1 DEF TermsOf, Position
  <1> HIDE DEF new
  <1>4. TradesOf' = TradesOf
    BY <1>1, <1>2, <1>3, TermsKept
  <1>5. OpenIds' = OpenIds
    BY KeepStep
  <1>. QED BY <1>2, <1>4, <1>5 DEF TB!book, TradesOf

(* Everything else leaves positions and journal alone and at most turns the switch. *)
LEMMA QuietRefines ==
    ASSUME IInv,
           \/ \E s \in Symbols, price \in Prices : UpdateTicker(s, price)
           \/ Tick
           \/ StartPass
           \/ RefreshRisk
           \/ EndPass
           \/ EngageKillSwitch
           \/ ResetKillSwitch
           \/ UNCHANGED vars
    PROVE  TB!Halt \/ TB!Release \/ UNCHANGED TB!book
  <1>1. UNCHANGED <<positions, journal>>
    BY DEF UpdateTicker, Tick, StartPass, RefreshRisk, EndPass, EngageKillSwitch,
        ResetKillSwitch, vars
  <1>2. UNCHANGED <<TradesOf, OpenIds>>
    BY <1>1 DEF TradesOf, OpenIds
  <1>3. kill \in BOOLEAN /\ kill' \in BOOLEAN
    <2>1. IInv'
      BY QuietSteps
    <2>. QED BY <2>1 DEF IInv, TypeOK
  <1>4. TB!Halt <=> ~kill /\ kill' = TRUE /\ UNCHANGED <<TradesOf, OpenIds, journal>>
    BY DEF TB!Halt, TradesOf
  <1>5. TB!Release <=> kill /\ kill' = FALSE /\ UNCHANGED <<TradesOf, OpenIds, journal>>
    BY DEF TB!Release, TradesOf
  <1>6. CASE kill' = kill
    BY <1>1, <1>2, <1>6 DEF TB!book, TradesOf
  <1>7. CASE kill' # kill
    BY <1>1, <1>2, <1>3, <1>4, <1>5, <1>7
  <1>. QED BY <1>6, <1>7

(* Every step of the engine is a step of the trade book, or invisible to it: *)
(* for any number of symbols, trades, limits and prices.                     *)
THEOREM EngineImplementsTradeBook == Spec => ImplementsTradeBook
  <1>1. Init => TB!Init
    <2> SUFFICES ASSUME Init PROVE TB!Init
      OBVIOUS
    <2>1. TradesOf = <<>> /\ OpenIds = {} /\ journal = <<>> /\ kill = FALSE
      BY DEF Init, TradesOf, OpenIds
    <2>. QED BY <2>1 DEF TB!Init, TradesOf
  <1>2. IInv /\ [Next]_vars => [TB!Next]_(TB!book)
    <2> SUFFICES ASSUME IInv, [Next]_vars PROVE TB!Next \/ UNCHANGED TB!book
      OBVIOUS
    <2>1. CASE \E s \in Symbols, side \in Sides, quantity \in Quantities, slip \in 0..MaxSlip :
                 \E filled \in 1..quantity : ProcessDecision(s, side, quantity, filled, slip)
      <3>1. TB!Enter
        BY <2>1, EnterRefines
      <3>. QED BY <3>1 DEF TB!Next
    <2>2. CASE \E i \in todo : KeepPosition(i)
      BY <2>2, KeepRefines
    <2>3. CASE \E i \in todo, slip \in 0..MaxSlip :
                 /\ ClosePosition(i, slip)
                 /\ todo' = todo \ {i}
                 /\ UNCHANGED <<market, kill, phase>>
      <3>1. \E i \in OpenIds : TB!Finish(i)
        BY <2>3, FinishRefines
      <3>. QED BY <3>1 DEF TB!Next
    <2>4. CASE \/ \E s \in Symbols, price \in Prices : UpdateTicker(s, price)
               \/ Tick
               \/ StartPass
               \/ RefreshRisk
               \/ EndPass
               \/ EngageKillSwitch
               \/ ResetKillSwitch
               \/ UNCHANGED vars
      <3>1. TB!Halt \/ TB!Release \/ UNCHANGED TB!book
        BY <2>4, QuietRefines
      <3>. QED BY <3>1 DEF TB!Next
    <2>. QED BY <2>1, <2>2, <2>3, <2>4, StepCases
  <1>. QED BY <1>1, <1>2, Invariance, PTL DEF Spec, ImplementsTradeBook, TB!Spec

-----------------------------------------------------------------------------
(* What the promise of the trade book means: whoever keeps it records each   *)
(* trade once, and exactly the finished ones.                                *)

BookInv ==
    /\ TradesOf \in Seq(TradeTerms) /\ journal \in Seq(Trades)
    /\ \A k, m \in DOMAIN journal : journal[k].id = journal[m].id => k = m
    /\ DOMAIN TradesOf = OpenIds \cup {journal[k].id : k \in DOMAIN journal}
    /\ \A k \in DOMAIN journal : journal[k].id \notin OpenIds

(* A longer list has one new place, and its old places as they were. *)
LEMMA ExtendsKeeps ==
    ASSUME NEW Entries, NEW old \in Seq(Entries), NEW new, TB!Extends(new, old, Entries)
    PROVE  /\ new \in Seq(Entries)
           /\ Len(old) \in Nat
           /\ DOMAIN old = 1..Len(old)
           /\ DOMAIN new = 1..(Len(old) + 1)
           /\ Len(new) = Len(old) + 1
           /\ \A k \in 1..Len(old) : new[k] = old[k]
  <1> DEFINE e == new[Len(new)]
  <1>1. e \in Entries /\ new = Append(old, e)
    BY DEF TB!Extends
  <1> HIDE DEF e
  <1>. QED BY <1>1

LEMMA EnterKeepsBook ==
    ASSUME BookInv, TB!Enter
    PROVE  BookInv'
  <1> USE DEF BookInv
  <1> DEFINE id == Len(TradesOf')
             n == Len(TradesOf)
  <1>0. TB!Extends(TradesOf', TradesOf, TradeTerms) /\ OpenIds' = OpenIds \cup {id}
        /\ journal' = journal
    BY EnterUnfolded
  <1>a. TradesOf \in Seq(TradeTerms)
    OBVIOUS
  <1>1. /\ TradesOf' \in Seq(TradeTerms) /\ DOMAIN TradesOf = 1..n /\ n \in Nat
        /\ DOMAIN TradesOf' = 1..(n + 1) /\ id = n + 1
    BY <1>0, <1>a, ExtendsKeeps
  <1> HIDE DEF id, n
  <1>2. DOMAIN TradesOf' = DOMAIN TradesOf \cup {id} /\ id \notin DOMAIN TradesOf
    BY <1>1
  <1>3. \A k \in DOMAIN journal : journal[k].id \notin OpenIds'
    BY <1>0, <1>2
  <1>. QED BY <1>0, <1>1, <1>2, <1>3

LEMMA FinishKeepsBook ==
    ASSUME BookInv, NEW id \in OpenIds, TB!Finish(id)
    PROVE  BookInv'
  <1> USE DEF BookInv
  <1> DEFINE n == Len(journal)
  <1>0. /\ OpenIds' = OpenIds \ {id} /\ TB!Extends(journal', journal, Trades)
        /\ journal'[Len(journal')].id = id /\ TradesOf' = TradesOf
    BY FinishUnfolded DEF Trades
  <1>1. /\ journal' \in Seq(Trades) /\ DOMAIN journal = 1..n /\ n \in Nat
        /\ DOMAIN journal' = 1..(n + 1) /\ Len(journal') = n + 1
        /\ \A k \in 1..n : journal'[k] = journal[k]
    BY <1>0, ExtendsKeeps
  <1>2. journal'[n + 1].id = id
    BY <1>0, <1>1
  <1> HIDE DEF n
  <1>3. DOMAIN journal' = DOMAIN journal \cup {n + 1} /\ n + 1 \notin DOMAIN journal
    BY <1>1
  <1>4. \A k \in DOMAIN journal : journal'[k].id = journal[k].id /\ journal[k].id # id
    BY <1>1
  <1>5. \A k, m \in DOMAIN journal' : journal'[k].id = journal'[m].id => k = m
    BY <1>2, <1>3, <1>4
  <1>6. {journal'[k].id : k \in DOMAIN journal'} = {journal[k].id : k \in DOMAIN journal} \cup {id}
    BY <1>2, <1>3, <1>4
  <1>7. DOMAIN TradesOf = OpenIds \cup {journal[k].id : k \in DOMAIN journal}
    OBVIOUS
  <1>8. DOMAIN TradesOf' = OpenIds' \cup {journal'[k].id : k \in DOMAIN journal'}
    BY <1>0, <1>6, <1>7
  <1>9. \A k \in DOMAIN journal' : journal'[k].id \notin OpenIds'
    BY <1>0, <1>2, <1>3, <1>4
  <1>. QED BY <1>0, <1>1, <1>5, <1>8, <1>9

(* Whoever keeps the promise never books a trade twice, and loses none: every *)
(* trade entered is alive or in the journal (execution/api.py:62-72).         *)
THEOREM NoTradeLost == TB!Spec => []TB!EveryTradeOnce
  <1>1. TB!Init => BookInv
    BY DEF TB!Init, BookInv, TradesOf
  <1>2. BookInv /\ [TB!Next]_(TB!book) => BookInv'
    <2> SUFFICES ASSUME BookInv, [TB!Next]_(TB!book) PROVE BookInv'
      OBVIOUS
    <2>1. CASE TB!Enter
      BY <2>1, EnterKeepsBook
    <2>2. CASE \E id \in OpenIds : TB!Finish(id)
      BY <2>2, FinishKeepsBook
    <2>3. CASE TB!Halt \/ TB!Release \/ UNCHANGED TB!book
      <3>1. UNCHANGED <<TradesOf, OpenIds, journal>>
        BY <2>3 DEF TB!Halt, TB!Release, TB!book, TradesOf
      <3>. QED BY <3>1 DEF BookInv
    <2>. QED BY <2>1, <2>2, <2>3 DEF TB!Next
  <1>3. BookInv => TB!EveryTradeOnce
    BY DEF BookInv, TB!EveryTradeOnce, TradesOf
  <1>. QED BY <1>1, <1>2, <1>3, PTL DEF TB!Spec

(* So does the engine, which keeps it.                                        *)
THEOREM EngineLosesNoTrade == Spec => []TB!EveryTradeOnce
  BY EngineImplementsTradeBook, NoTradeLost DEF ImplementsTradeBook
=============================================================================
