--------------------- MODULE BrokerReconciliation_proofs ---------------------
(***************************************************************************)
(* Theorems of BrokerReconciliation: type correctness, and what the book   *)
(* says of the account for the default limit of one position per symbol.   *)
(* While nobody else opens positions and the terminal keeps the account,   *)
(* the book holds the account's one position, so a close cannot name       *)
(* another ticket than its own.                                            *)
(*                                                                         *)
(* And theorems of Studies, the readings a position is opened on: what was *)
(* concluded from the candles and the votes so far is not taken back, the  *)
(* methods of consensus treat both sides alike, the cumulative delta ends  *)
(* at the delta, a block that is returned to is no longer traded, stops    *)
(* and targets lie on their sides of the entry, the profile loses no       *)
(* volume, and grades are grades out of a hundred.                         *)
(***************************************************************************)
EXTENDS BrokerReconciliation, Studies, Sums, FiniteSetTheorems, SequenceTheorems, TLAPS

-----------------------------------------------------------------------------
(* Type correctness. *)

LEMMA TypeInit == Init => TypeOK
  BY ReconciliationAssumption DEF Init, TypeOK

LEMMA OpenedTyped ==
    ASSUME TypeOK, NEW side \in Sides, NEW bot \in BOOLEAN, Opened(side, bot)
    PROVE  /\ live' \in SUBSET Position /\ issued' \in 0..MaxTickets
           /\ [ticket |-> issued + 1, side |-> side, bot |-> bot] \in Position
  BY ReconciliationAssumption DEF Opened, TypeOK, Position, Tickets

LEMMA BookedTyped == ASSUME NEW t \in 0..2 PROVE Booked(t) \in 0..2
  BY DEF Booked

LEMMA TypeStep == TypeOK /\ [Next]_vars => TypeOK'
  <1> SUFFICES ASSUME TypeOK, [Next]_vars PROVE TypeOK'
    OBVIOUS
  <1> USE DEF account, pass
  <1>1. ASSUME NEW p \in live, BrokerCloses(p) PROVE TypeOK'
    BY <1>1 DEF BrokerCloses, TypeOK
  <1>2. ASSUME NEW side \in Sides, OperatorOpens(side) \/ UnansweredEntry(side)
        PROVE  TypeOK'
    BY <1>2, OpenedTyped DEF OperatorOpens, UnansweredEntry, TypeOK
  <1>3. ASSUME NEW side \in Sides, Enter(side) PROVE TypeOK'
    <2> DEFINE new == [ticket |-> issued + 1, side |-> side, bot |-> TRUE]
    <2>1. new \in Position /\ new.bot
      BY <1>3, OpenedTyped DEF Enter
    <2>2. tracked' = tracked \cup {new}
      BY <1>3 DEF Enter
    <2>3. tracked' \in SUBSET {p \in Position : p.bot}
      BY <2>1, <2>2 DEF TypeOK
    <2>. QED BY <1>3, <2>3, OpenedTyped DEF Enter, TypeOK
  <1>4. CASE LinkDown \/ LinkUp \/ Healthcheck \/ Reconnect
    BY <1>4 DEF LinkDown, LinkUp, Healthcheck, Reconnect, TypeOK
  <1>5. CASE StartPass
    <2>1. settled' \in [Tickets -> 0..2]
      BY <1>5, BookedTyped DEF StartPass, TypeOK
    <2>. QED BY <1>5, <2>1 DEF StartPass, TypeOK
  <1>6. ASSUME NEW p \in todo, Keep(p) \/ RejectedClose(p) \/ UnansweredClose(p)
        PROVE  TypeOK'
    BY <1>6 DEF Keep, RejectedClose, UnansweredClose, TypeOK
  <1>7. ASSUME NEW p \in todo, Close(p) PROVE TypeOK'
    <2>1. settled' = [settled EXCEPT ![p.ticket] = Booked(settled[p.ticket])]
      BY <1>7 DEF Close, FilledClose
    <2>2. settled' \in [Tickets -> 0..2]
      BY <2>1, BookedTyped DEF TypeOK
    <2>. QED BY <1>7, <2>2 DEF Close, FilledClose, TypeOK
  <1>8. CASE EndPass
    BY <1>8 DEF EndPass, TypeOK
  <1>9. CASE Restart
    BY <1>9 DEF Restart, Adoptable, TypeOK
  <1>10. CASE UNCHANGED vars
    BY <1>10 DEF vars, TypeOK
  <1>. QED
    BY <1>1, <1>2, <1>3, <1>4, <1>5, <1>6, <1>7, <1>8, <1>9, <1>10 DEF Next, PassStep

(* The book only ever holds positions of the account that carry the engine's *)
(* magic number, whatever a restart finds there                              *)
(* (execution_engine/engine.py:242-292).                                     *)
THEOREM TypeCorrect == Spec => []TypeOK
  BY TypeInit, TypeStep, PTL DEF Spec

-----------------------------------------------------------------------------
(* The book is the account. *)

Quiet == mishaps = {}
Connected == link /\ connected
Single == \A p, q \in tracked : p = q
Booking ==
    /\ \A p \in tracked : p.ticket <= issued
    /\ \A t \in Tickets : settled[t] > 0 =>
           settled[t] = 1 /\ t <= issued /\ t \notin TicketsOf(tracked)

InStep ==
    /\ Connected
    /\ live \subseteq tracked
    /\ todo \subseteq tracked
    /\ Single
    /\ Booking

IInv == TypeOK /\ (Quiet => InStep)

LEMMA EmptyBook ==
    ASSUME MaxPositionsPerSymbol = 1, Single, HasRoom PROVE tracked = {}
  <1>1. SUFFICES ASSUME NEW p \in tracked PROVE FALSE
    OBVIOUS
  <1>2. tracked = {p}
    BY <1>1 DEF Single
  <1>3. Cardinality(tracked) = 1
    BY <1>2, FS_Singleton
  <1>. QED BY <1>3 DEF HasRoom

(* With one tracked position and nothing else in the account, the ticket a *)
(* close names is the position's own.                                      *)
LEMMA OwnTicket ==
    ASSUME TypeOK, InStep, NEW p \in todo, Matching(p) # {}
    PROVE  Oldest(Matching(p)) = p /\ p \in live
  <1>1. p \in tracked /\ Matching(p) \subseteq tracked
    BY DEF InStep, Matching
  <1>2. Matching(p) = {p}
    BY <1>1 DEF InStep, Single
  <1>3. p \in live
    BY <1>2 DEF Matching
  <1>4. \A q \in {p} : \A r \in {p} : q.ticket <= r.ticket
    BY <1>1 DEF TypeOK, InStep, Position, Tickets
  <1>5. Oldest({p}) = p
    BY <1>4 DEF Oldest
  <1>. QED BY <1>2, <1>3, <1>5

(* What has gone wrong is not forgotten. *)
LEMMA QuietStep == ASSUME [Next]_vars, Quiet' PROVE Quiet
  <1> USE DEF Quiet
  <1>1. CASE \E p \in live : BrokerCloses(p)
    BY <1>1 DEF BrokerCloses
  <1>2. CASE \E side \in Sides :
                 OperatorOpens(side) \/ Enter(side) \/ UnansweredEntry(side)
    BY <1>2 DEF OperatorOpens, Enter, UnansweredEntry
  <1>3. CASE LinkDown \/ LinkUp \/ Healthcheck \/ Reconnect
    BY <1>3 DEF LinkDown, LinkUp, Healthcheck, Reconnect
  <1>4. CASE StartPass \/ PassStep
    BY <1>4 DEF StartPass, PassStep, Keep, Close, UnansweredClose, RejectedClose,
                EndPass
  <1>5. CASE Restart
    BY <1>5 DEF Restart
  <1>6. CASE UNCHANGED vars
    BY <1>6 DEF vars
  <1>. QED BY <1>1, <1>2, <1>3, <1>4, <1>5, <1>6 DEF Next

LEMMA AccountStep ==
    ASSUME MaxPositionsPerSymbol = 1 PROVE IInv /\ [Next]_vars => IInv'
  <1> SUFFICES ASSUME IInv, [Next]_vars PROVE Quiet' => InStep'
    BY TypeStep DEF IInv
  <1> HAVE Quiet'
  <1>a. TypeOK /\ InStep
    BY QuietStep DEF IInv
  <1>0. /\ TypeOK /\ Connected /\ live \subseteq tracked /\ todo \subseteq tracked
        /\ Single /\ Booking /\ MaxTickets \in Nat
    BY <1>a, ReconciliationAssumption DEF InStep
  <1> USE <1>0
  <1>1. ASSUME NEW p \in live, BrokerCloses(p) PROVE InStep'
    BY <1>1 DEF BrokerCloses, InStep, TypeOK, Connected, Single, Booking, TicketsOf, pass
  <1>2. ASSUME NEW side \in Sides, OperatorOpens(side) \/ UnansweredEntry(side)
        PROVE  InStep'
    BY <1>2 DEF OperatorOpens, UnansweredEntry, Quiet
  <1>3. ASSUME NEW side \in Sides, Enter(side) PROVE InStep'
    <2> DEFINE new == [ticket |-> issued + 1, side |-> side, bot |-> TRUE]
    <2>1. tracked = {} /\ live = {} /\ todo = {}
      BY <1>3, EmptyBook DEF Enter
    <2>2. /\ tracked' = {new} /\ live' = {new} /\ issued' = issued + 1 /\ issued < MaxTickets
          /\ link' = link /\ connected' = connected /\ settled' = settled
          /\ phase' = phase /\ todo' = {}
      BY <1>3, <2>1 DEF Enter, Opened, pass
    <2>3. new \in {p \in Position : p.bot} /\ new.ticket = issued + 1
      BY <2>2 DEF Position, Tickets, TypeOK
    <2>4. Booking'
      <3>1. TicketsOf(tracked') = {issued + 1}
        BY <2>2, <2>3 DEF TicketsOf
      <3>2. \A t \in Tickets : t <= issued => t # issued + 1 /\ t <= issued + 1
        BY DEF TypeOK, Tickets
      <3>. QED BY <2>2, <2>3, <3>1, <3>2 DEF Booking, TicketsOf, TypeOK
    <2>. QED BY <2>2, <2>4 DEF InStep, Connected, Single
  <1>4. CASE LinkDown \/ LinkUp \/ Healthcheck \/ Reconnect
    BY <1>4 DEF LinkDown, LinkUp, Healthcheck, Reconnect, Connected, Quiet
  <1>5. CASE StartPass
    <2>1. /\ tracked' = tracked \ Gone /\ todo' = tracked'
          /\ phase' = "visit" /\ live' = live /\ issued' = issued
          /\ link' = link /\ connected' = connected
          /\ settled' = [t \in Tickets |->
                 IF t \in TicketsOf(Gone) THEN Booked(settled[t]) ELSE settled[t]]
      BY <1>5 DEF StartPass, account
    <2>2. Gone \subseteq tracked /\ live \cap Gone = {}
      BY DEF Gone, Visible, Answers, Connected, TicketsOf
    <2>3. \A t \in TicketsOf(Gone) : t \in Tickets /\ settled[t] = 0 /\ t <= issued
                                     /\ t \notin TicketsOf(tracked')
      <3>1. SUFFICES ASSUME NEW p \in Gone
                     PROVE  /\ p.ticket \in Tickets /\ settled[p.ticket] = 0
                            /\ p.ticket <= issued /\ p.ticket \notin TicketsOf(tracked')
        BY DEF TicketsOf
      <3>2. p \in tracked /\ p.ticket \in Tickets /\ p.ticket \in TicketsOf(tracked)
        BY <2>2 DEF TypeOK, Position, TicketsOf
      <3>3. tracked' = {}
        BY <2>1, <3>2 DEF Single
      <3>4. settled[p.ticket] \in 0..2 /\ ~(settled[p.ticket] > 0)
        BY <3>2 DEF Booking, TypeOK
      <3>. QED BY <3>2, <3>3, <3>4 DEF Booking, TicketsOf
    <2>4. Booking'
      BY <2>1, <2>2, <2>3 DEF Booking, TicketsOf, Booked, TypeOK
    <2>. QED BY <2>1, <2>2, <2>4 DEF InStep, Connected, Single
  <1>6. ASSUME NEW p \in todo, Keep(p) \/ RejectedClose(p) PROVE InStep'
    <2>1. /\ todo' = todo \ {p} /\ live' = live /\ issued' = issued /\ link' = link
          /\ connected' = connected /\ tracked' = tracked /\ phase' = phase
          /\ settled' = settled
      BY <1>6 DEF Keep, RejectedClose, account
    <2>. QED BY <2>1 DEF InStep, Connected, Single, Booking, TicketsOf
  <1>7. ASSUME NEW p \in todo, Close(p) PROVE InStep'
    <2>1. Oldest(Matching(p)) = p /\ p \in live /\ p \in tracked
      BY <1>a, <1>7, OwnTicket DEF Close, FilledClose
    <2>2. tracked = {p} /\ live = {p} /\ todo = {p}
      BY <2>1 DEF Single
    <2>3. /\ live' = {} /\ tracked' = {} /\ todo' = {}
          /\ issued' = issued /\ link' = link /\ connected' = connected /\ phase' = phase
          /\ settled' = [settled EXCEPT ![p.ticket] = Booked(settled[p.ticket])]
      BY <1>7, <2>1, <2>2 DEF Close, FilledClose
    <2>4. p.ticket \in Tickets /\ settled[p.ticket] = 0 /\ p.ticket <= issued
      <3>1. p.ticket \in Tickets /\ p.ticket \in TicketsOf(tracked)
        BY <2>1 DEF TypeOK, Position, TicketsOf
      <3>2. settled[p.ticket] \in 0..2 /\ ~(settled[p.ticket] > 0)
        BY <3>1 DEF Booking, TypeOK
      <3>. QED BY <2>1, <3>1, <3>2 DEF Booking
    <2>5. Booking'
      BY <2>3, <2>4 DEF Booking, Booked, TicketsOf, TypeOK
    <2>. QED BY <2>3, <2>5 DEF InStep, Connected, Single
  <1>7a. ASSUME NEW p \in todo, UnansweredClose(p) PROVE InStep'
    <2>1. /\ live' \subseteq live /\ todo' \subseteq todo
          /\ issued' = issued /\ link' = link /\ connected' = connected
          /\ tracked' = tracked /\ phase' = phase /\ settled' = settled
      BY <1>7a DEF UnansweredClose
    <2>2. live' \subseteq tracked' /\ todo' \subseteq tracked'
      BY <2>1
    <2>. QED BY <2>1, <2>2 DEF InStep, Connected, Single, Booking, TicketsOf
  <1>8. CASE EndPass
    BY <1>8 DEF EndPass, account, InStep, TypeOK, Connected, Single, Booking, TicketsOf
  <1>9. CASE Restart
    <2>1. /\ tracked' = Adoptable /\ todo' = {} /\ phase' = "idle"
          /\ connected' = link /\ link' = link
          /\ live' = live /\ issued' = issued /\ settled' = settled
      BY <1>9 DEF Restart, Connected, account
    <2>2. Adoptable = live
      BY DEF Adoptable, TypeOK
    <2>. QED BY <2>1, <2>2 DEF InStep, Connected, Single, Booking, TicketsOf
  <1>10. CASE UNCHANGED vars
    BY <1>10 DEF vars, account, pass, InStep, TypeOK, Connected, Single, Booking, TicketsOf
  <1>. QED
    BY <1>1, <1>2, <1>3, <1>4, <1>5, <1>6, <1>7, <1>7a, <1>8, <1>9, <1>10 DEF Next, PassStep

LEMMA AccountInit == Init => IInv
  BY TypeInit DEF Init, IInv, InStep, Connected, Single, Booking, TicketsOf

(* With the default limit of one position per symbol, and for as long as     *)
(* nobody else opens positions, the terminal keeps the account and answers   *)
(* every entry, every live position is in the engine's book and every close  *)
(* is booked once, for a position that is gone: for any number of positions, *)
(* restarts, closes whose answer is lost and stops executed at any moment of *)
(* a pass                                                                    *)
(* (execution_engine/engine.py:242-292, 483-499, 540-654).                   *)
THEOREM BookIsTheAccount ==
    ASSUME MaxPositionsPerSymbol = 1
    PROVE  Spec => [](NoOrphans /\ BookedWhenClosed)
  <1>1. IInv => NoOrphans /\ BookedWhenClosed
    BY DEF IInv, Quiet, InStep, Booking, NoOrphans, OwnLive, BookedWhenClosed, TicketsOf
  <1>. QED BY AccountInit, AccountStep, <1>1, PTL DEF Spec

(* That result, with the types, under the name the account run checks        *)
(* (execution_engine/engine.py:242-292, 483-499, 540-654, 740-800).          *)
THEOREM BookKept ==
    ASSUME MaxPositionsPerSymbol = 1
    PROVE  Spec => []BookIsKept
  <1>1. NoOrphans /\ BookedWhenClosed /\ TypeOK => BookIsKept
    BY DEF BookIsKept
  <1>. QED BY BookIsTheAccount, TypeCorrect, <1>1, PTL

-----------------------------------------------------------------------------
(* Studies: what a later candle or a further vote does to an earlier reading. *)

Studied == /\ Charted => Window \in Seq(Candles) /\ study.gone \in Nat
           /\ study.kind = "tape" => Window \in Seq(Prints)
           /\ study.kind = "vote" => Window \in Seq(Votes)

LEMMA StudiedInit == StudyInit => Studied
  <1> SUFFICES ASSUME StudyInit PROVE Studied
    OBVIOUS
  <1>1. CASE \E w \in Charts, ctx \in Contexts : study = Chart(w, ctx, 0)
    <2>1. PICK w \in Charts, ctx \in Contexts : study = Chart(w, ctx, 0)
      BY <1>1
    <2>2. w \in Seq(Candles)
      BY ChartsAndVotes
    <2>. QED BY <2>1, <2>2 DEF Studied, Chart, Charted, Window
  <1>2. CASE study = Tape(<< >>)
    BY <1>2 DEF Studied, Tape, Charted, Window
  <1>3. CASE study = Vote(<< >>)
    BY <1>3 DEF Studied, Vote, Charted, Window
  <1>. QED BY <1>1, <1>2, <1>3 DEF StudyInit

LEMMA StudiedNext == Studied /\ [StudyNext]_study => Studied'
  <1> SUFFICES ASSUME Studied, [StudyNext]_study PROVE Studied'
    OBVIOUS
  <1>1. CASE CandleCloses
    <2>1. PICK k \in Shapes : study' = Grown(k) \/ study' = Slid(k)
      BY <1>1 DEF CandleCloses
    <2>2. study.data \in Seq(Candles) /\ study.gone \in Nat /\ k \in Candles
      BY <1>1, ChartsAndVotes DEF CandleCloses, Studied, Charted, Window
    <2>3. Append(study.data, k) \in Seq(Candles) /\ Tail(Append(study.data, k)) \in Seq(Candles)
      BY <2>2
    <2>4. study'.data \in Seq(Candles) /\ study'.gone \in Nat /\ study'.kind = "chart"
      <3>1. CASE study' = Grown(k)
        BY <2>2, <2>3, <3>1 DEF Grown, Chart
      <3>2. CASE study' = Slid(k)
        BY <2>2, <2>3, <3>2 DEF Slid, Chart
      <3>. QED BY <2>1, <3>1, <3>2
    <2>. QED BY <2>4 DEF Studied, Charted, Window
  <1>2. CASE TradePrints
    <2>1. PICK t \in Trades : study' = Tape(Append(study.data, t))
      BY <1>2 DEF TradePrints
    <2>2. study.data \in Seq(Prints) /\ t \in Prints
      BY <1>2, ChartsAndVotes DEF TradePrints, Studied, Window
    <2>3. Append(study.data, t) \in Seq(Prints)
      BY <2>2
    <2>. QED BY <2>1, <2>3 DEF Studied, Tape, Charted, Window
  <1>3. CASE SignalJoins
    <2>1. PICK v \in Votes : study' = Vote(Append(study.data, v))
      BY <1>3 DEF SignalJoins
    <2>2. Append(study.data, v) \in Seq(Votes)
      BY <1>3 DEF SignalJoins, Studied, Window
    <2>. QED BY <2>1, <2>2 DEF Studied, Vote, Charted, Window
  <1>4. CASE UNCHANGED study
    BY <1>4 DEF Studied, Charted, Window
  <1>. QED BY <1>1, <1>2, <1>3, <1>4 DEF StudyNext

(* A chart that is still a chart after a step that changed it has one more   *)
(* candle and may have lost its oldest for it, and a vote has one more       *)
(* signal.                                                                   *)
LEMMA ChartMoves ==
    ASSUME Studied, Charted, StudyNext
    PROVE  \E k \in Candles :
             \/ Window' = Append(Window, k) /\ Lost = 0
             \/ Window' = Tail(Append(Window, k)) /\ Lost = 1
  <1>1. CandleCloses
    BY DEF StudyNext, Charted, TradePrints, SignalJoins
  <1>2. PICK k \in Shapes : study' = Grown(k) \/ study' = Slid(k)
    BY <1>1 DEF CandleCloses
  <1>3. k \in Candles /\ study.gone \in Nat
    BY ChartsAndVotes DEF Studied
  <1>4. CASE study' = Grown(k)
    <2>1. study'.data = Append(study.data, k) /\ study'.gone = study.gone
      BY <1>4 DEF Grown, Chart
    <2>2. study'.gone - study.gone = 0
      BY <1>3, <2>1
    <2>. QED BY <1>3, <2>1, <2>2 DEF Window, Lost
  <1>5. CASE study' = Slid(k)
    <2>1. study'.data = Tail(Append(study.data, k)) /\ study'.gone = study.gone + 1
      BY <1>5 DEF Slid, Chart
    <2>2. study'.gone - study.gone = 1
      BY <1>3, <2>1
    <2>. QED BY <1>3, <2>1, <2>2 DEF Window, Lost
  <1>. QED BY <1>2, <1>4, <1>5

LEMMA VoteGrows ==
    ASSUME study.kind = "vote", StudyNext
    PROVE  \E v \in Votes : Window' = Append(Window, v)
  <1>1. SignalJoins
    BY DEF StudyNext, CandleCloses, TradePrints
  <1>2. PICK v \in Votes : study' = Vote(Append(study.data, v))
    BY <1>1 DEF SignalJoins
  <1>. QED BY <1>2 DEF Vote, Window

LEMMA OneMoreCandle ==
    ASSUME NEW w \in Seq(Candles), NEW k \in Candles
    PROVE  /\ Len(w) \in Nat /\ DOMAIN w = 1 .. Len(w)
           /\ Len(Append(w, k)) = Len(w) + 1 /\ DOMAIN Append(w, k) = 1 .. (Len(w) + 1)
           /\ Append(w, k)[Len(w) + 1] = k
           /\ \A i \in 1 .. Len(w) : Append(w, k)[i] = w[i]
           /\ \A i \in 1 .. Len(w) : w[i].h \in Int /\ w[i].l \in Int
           /\ k.h \in Int /\ k.l \in Int
  <1>1. \A i \in 1 .. Len(w) : w[i] \in Candles
    OBVIOUS
  <1>2. \A i \in 1 .. Len(w) : w[i].h \in Int /\ w[i].l \in Int
    BY <1>1 DEF Candles
  <1>3. k.h \in Int /\ k.l \in Int
    BY DEF Candles
  <1>. QED BY <1>2, <1>3

-----------------------------------------------------------------------------
(* Pivots: the neighbours of an old pivot are old candles.                   *)

LEMMA SameHighs ==
    ASSUME NEW w, NEW x, NEW I, \A i \in I : x[i] = w[i]
    PROVE  HighestOf(x, I) = HighestOf(w, I) /\ LowestOf(x, I) = LowestOf(w, I)
  <1>1. {w[i].h : i \in I} = {x[i].h : i \in I} /\ {w[i].l : i \in I} = {x[i].l : i \in I}
    OBVIOUS
  <1>. QED BY <1>1, Zenon DEF HighestOf, LowestOf

LEMMA NeighboursOfOld ==
    ASSUME NEW n \in Nat, NEW j \in (SwingSide + 1) .. (n - SwingSide)
    PROVE  /\ Around(j) \cap (1 .. n) = Around(j)
           /\ Around(j) \cap (1 .. (n + 1)) = Around(j)
           /\ Around(j) \subseteq 1 .. n /\ j \in 1 .. n
  BY WindowsArePositive DEF Around

IsHigh(w, j) == w[j].h > HighestOf(w, Around(j) \cap DOMAIN w)
IsLow(w, j) == w[j].l < LowestOf(w, Around(j) \cap DOMAIN w)
HighAt(w, i) == [i |-> i, kind |-> "high", price |-> w[i].h]
LowAt(w, i) == [i |-> i, kind |-> "low", price |-> w[i].l]

LEMMA RawPivotsRead ==
    ASSUME NEW w
    PROVE  RawPivots(w) = {HighAt(w, i) : i \in {j \in PivotRange(w) : IsHigh(w, j)}}
                          \cup {LowAt(w, i) : i \in {j \in PivotRange(w) : IsLow(w, j)}}
  BY Zenon DEF RawPivots, HighAt, LowAt, IsHigh, IsLow

(* An old candle is a pivot of the longer chart when it is one of the        *)
(* shorter.                                                                  *)
LEMMA OldPivots ==
    ASSUME NEW w \in Seq(Candles), NEW k \in Candles, NEW j \in PivotRange(w)
    PROVE  LET x == Append(w, k)
           IN  /\ IsHigh(x, j) <=> IsHigh(w, j)
               /\ IsLow(x, j) <=> IsLow(w, j)
               /\ HighAt(x, j) = HighAt(w, j) /\ LowAt(x, j) = LowAt(w, j)
               /\ j \in PivotRange(x)
  <1> DEFINE x == Append(w, k)
             n == Len(w)
  <1>1. /\ n \in Nat /\ DOMAIN w = 1 .. n /\ Len(x) = n + 1 /\ DOMAIN x = 1 .. (n + 1)
        /\ \A i \in 1 .. n : x[i] = w[i]
    BY OneMoreCandle
  <1>2. j \in (SwingSide + 1) .. (n - SwingSide)
    BY DEF PivotRange
  <1> HIDE DEF x, n
  <1>3. /\ Around(j) \cap DOMAIN w = Around(j) /\ Around(j) \cap DOMAIN x = Around(j)
        /\ Around(j) \subseteq 1 .. n /\ j \in 1 .. n
    BY <1>1, <1>2, NeighboursOfOld
  <1>4. HighestOf(x, Around(j)) = HighestOf(w, Around(j)) /\ LowestOf(x, Around(j)) = LowestOf(w, Around(j))
    BY <1>1, <1>3, SameHighs
  <1>5. x[j] = w[j]
    BY <1>1, <1>3
  <1>6. j \in PivotRange(x)
    <2>1. SwingSide \in Nat
      BY WindowsArePositive
    <2>. QED BY <1>1, <1>2, <2>1 DEF PivotRange
  <1>7. (IsHigh(x, j) <=> IsHigh(w, j)) /\ (IsLow(x, j) <=> IsLow(w, j))
    BY <1>3, <1>4, <1>5, Zenon DEF IsHigh, IsLow
  <1>8. HighAt(x, j) = HighAt(w, j) /\ LowAt(x, j) = LowAt(w, j)
    BY <1>5 DEF HighAt, LowAt
  <1>. QED BY <1>6, <1>7, <1>8 DEF x

LEMMA RawPivotsKept ==
    ASSUME NEW w \in Seq(Candles), NEW k \in Candles
    PROVE  \A p : p \in RawPivots(w) <=> p \in RawPivots(Append(w, k)) /\ p.i \in PivotRange(w)
  <1> DEFINE x == Append(w, k)
  <1>1. \A j \in PivotRange(w) :
           /\ IsHigh(x, j) <=> IsHigh(w, j)
           /\ IsLow(x, j) <=> IsLow(w, j)
           /\ HighAt(x, j) = HighAt(w, j) /\ LowAt(x, j) = LowAt(w, j)
           /\ j \in PivotRange(x)
    BY OldPivots
  <1>2. \A j : /\ HighAt(w, j).i = j /\ LowAt(w, j).i = j
               /\ HighAt(x, j).i = j /\ LowAt(x, j).i = j
    BY DEF HighAt, LowAt
  <1> HIDE DEF x
  <1>3. \A p : p \in RawPivots(w) <=> \/ \E i \in PivotRange(w) : IsHigh(w, i) /\ p = HighAt(w, i)
                                      \/ \E i \in PivotRange(w) : IsLow(w, i) /\ p = LowAt(w, i)
    BY RawPivotsRead, Zenon
  <1>4. \A p : p \in RawPivots(x) <=> \/ \E i \in PivotRange(x) : IsHigh(x, i) /\ p = HighAt(x, i)
                                      \/ \E i \in PivotRange(x) : IsLow(x, i) /\ p = LowAt(x, i)
    BY RawPivotsRead, Zenon
  <1>5. ASSUME NEW p, p \in RawPivots(w) PROVE p \in RawPivots(x) /\ p.i \in PivotRange(w)
    <2>1. CASE \E i \in PivotRange(w) : IsHigh(w, i) /\ p = HighAt(w, i)
      <3>1. PICK i \in PivotRange(w) : IsHigh(w, i) /\ p = HighAt(w, i)
        BY <2>1
      <3>2. i \in PivotRange(x) /\ IsHigh(x, i) /\ p = HighAt(x, i) /\ p.i = i
        BY <1>1, <1>2, <3>1
      <3>. QED BY <1>4, <3>2
    <2>2. CASE \E i \in PivotRange(w) : IsLow(w, i) /\ p = LowAt(w, i)
      <3>1. PICK i \in PivotRange(w) : IsLow(w, i) /\ p = LowAt(w, i)
        BY <2>2
      <3>2. i \in PivotRange(x) /\ IsLow(x, i) /\ p = LowAt(x, i) /\ p.i = i
        BY <1>1, <1>2, <3>1
      <3>. QED BY <1>4, <3>2
    <2>. QED BY <1>3, <1>5, <2>1, <2>2
  <1>6. ASSUME NEW p, p \in RawPivots(x), p.i \in PivotRange(w) PROVE p \in RawPivots(w)
    <2>1. CASE \E i \in PivotRange(x) : IsHigh(x, i) /\ p = HighAt(x, i)
      <3>1. PICK i \in PivotRange(x) : IsHigh(x, i) /\ p = HighAt(x, i)
        BY <2>1
      <3>2. i \in PivotRange(w)
        BY <1>2, <1>6, <3>1
      <3>3. IsHigh(w, i) /\ p = HighAt(w, i)
        BY <1>1, <3>1, <3>2
      <3>. QED BY <1>3, <3>2, <3>3
    <2>2. CASE \E i \in PivotRange(x) : IsLow(x, i) /\ p = LowAt(x, i)
      <3>1. PICK i \in PivotRange(x) : IsLow(x, i) /\ p = LowAt(x, i)
        BY <2>2
      <3>2. i \in PivotRange(w)
        BY <1>2, <1>6, <3>1
      <3>3. IsLow(w, i) /\ p = LowAt(w, i)
        BY <1>1, <3>1, <3>2
      <3>. QED BY <1>3, <3>2, <3>3
    <2>. QED BY <1>4, <1>6, <2>1, <2>2
  <1>. QED BY <1>5, <1>6 DEF x

(* The label looks back only, to pivots the shorter chart has too.           *)
Before(p, raw) == {q \in raw : q.kind = p.kind /\ q.i < p.i}

LEMMA LabelRead ==
    ASSUME NEW p, NEW raw, NEW other, Before(p, raw) = Before(p, other)
    PROVE  LabelOf(p, raw) = LabelOf(p, other)
  BY Zenon DEF LabelOf, Before

LEMMA PivotsAreKept ==
    ASSUME NEW w \in Seq(Candles), NEW k \in Candles
    PROVE  SwingPoints(w) \subseteq SwingPoints(Append(w, k))
  <1> DEFINE x == Append(w, k)
             old == RawPivots(w)
             new == RawPivots(x)
             Labelled(p, raw) == [i |-> p.i, kind |-> p.kind, price |-> p.price,
                                  label |-> LabelOf(p, raw)]
  <1>1. \A p : p \in old <=> p \in new /\ p.i \in PivotRange(w)
    BY RawPivotsKept
  <1>2. \A p \in new : p.i \in PivotRange(x)
    <2>1. \A j : HighAt(x, j).i = j /\ LowAt(x, j).i = j
      BY DEF HighAt, LowAt
    <2>2. \A p \in new : \/ \E j \in PivotRange(x) : p = HighAt(x, j)
                         \/ \E j \in PivotRange(x) : p = LowAt(x, j)
      BY RawPivotsRead, Zenon
    <2> HIDE DEF new, x
    <2>. QED BY <2>1, <2>2
  <1>3. /\ SwingSide \in Nat /\ Len(w) \in Nat
        /\ \A j : j \in PivotRange(w) <=> j \in (SwingSide + 1) .. (Len(w) - SwingSide)
        /\ \A j : j \in PivotRange(x) <=> j \in (SwingSide + 1) .. (Len(w) + 1 - SwingSide)
    BY WindowsArePositive, OneMoreCandle DEF PivotRange
  <1> HIDE DEF old, new, x
  <1>4. ASSUME NEW p \in old PROVE Labelled(p, old) = Labelled(p, new)
    <2>1. p \in new /\ p.i \in PivotRange(w)
      BY <1>1
    <2>2. ASSUME NEW q \in new, q.i < p.i PROVE q \in old
      <3>1. q.i \in PivotRange(x)
        BY <1>2
      <3>2. q.i \in PivotRange(w)
        <4> DEFINE a == q.i
                   b == p.i
        <4>1. /\ a \in (SwingSide + 1) .. (Len(w) + 1 - SwingSide)
              /\ b \in (SwingSide + 1) .. (Len(w) - SwingSide) /\ a < b
          BY <1>3, <2>1, <2>2, <3>1
        <4> HIDE DEF a, b
        <4>2. a \in (SwingSide + 1) .. (Len(w) - SwingSide)
          BY <1>3, <4>1
        <4>3. a \in PivotRange(w)
          BY <1>3, <4>2
        <4>. QED BY <4>3 DEF a
      <3>. QED BY <1>1, <3>2
    <2>3. Before(p, old) = Before(p, new)
      BY <1>1, <2>2 DEF Before
    <2>4. LabelOf(p, old) = LabelOf(p, new)
      BY <2>3, LabelRead
    <2>. QED BY <2>4
  <1>5. SwingPoints(w) = {Labelled(p, old) : p \in old} /\ SwingPoints(x) = {Labelled(p, new) : p \in new}
    BY Zenon DEF SwingPoints, old, new
  <1>6. old \subseteq new
    BY <1>1
  <1> HIDE DEF Labelled
  <1>7. SwingPoints(w) \subseteq SwingPoints(x)
    BY <1>4, <1>5, <1>6
  <1>. QED BY <1>7 DEF x

-----------------------------------------------------------------------------
(* Gaps: a later candle can only reach further into one.                     *)

LEMMA HasLeast ==
    ASSUME NEW S, IsFiniteSet(S), S \subseteq Int, S # {}
    PROVE  /\ Min(S) \in S
           /\ \A y \in S : Min(S) <= y
  <1> DEFINE T == {s \in SUBSET S : s # {} => \E x \in s : \A y \in s : x <= y}
  <1>1. \A s \in SUBSET S : s # {} /\ (\A z \in s : s \ {z} \in T) => s \in T
    <2> SUFFICES ASSUME NEW s \in SUBSET S, s # {}, \A z \in s : s \ {z} \in T
                 PROVE  \E x \in s : \A y \in s : x <= y
      OBVIOUS
    <2>1. PICK z \in s : TRUE
      OBVIOUS
    <2>2. CASE s \ {z} = {}
      <3>1. \A y \in s : y = z
        BY <2>2
      <3>2. z \in Int
        BY <2>1
      <3>. QED BY <2>1, <3>1, <3>2
    <2>3. CASE s \ {z} # {}
      <3>1. PICK x \in s \ {z} : \A y \in s \ {z} : x <= y
        BY <2>1, <2>3
      <3>2. x \in Int /\ z \in Int /\ x \in s /\ \A y \in s : y \in Int /\ (y = z \/ x <= y)
        BY <2>1, <3>1
      <3>3. CASE x <= z
        BY <3>2, <3>3
      <3>4. CASE z < x
        <4>1. \A y \in s : z <= y
          BY <3>2, <3>4
        <4>. QED BY <2>1, <4>1
      <3>. QED BY <3>2, <3>3, <3>4
    <2>. QED BY <2>2, <2>3
  <1>2. {} \in T
    OBVIOUS
  <1>3. S \in T
    <2> HIDE DEF T
    <2>. QED BY <1>1, <1>2, SubsetsInTurn
  <1>4. PICK x \in S : \A y \in S : x <= y
    BY <1>3
  <1>. QED BY <1>4 DEF Min

LEMMA HasGreatest ==
    ASSUME NEW S, IsFiniteSet(S), S \subseteq Int, S # {}
    PROVE  /\ Max(S) \in S
           /\ \A y \in S : y <= Max(S)
  <1> DEFINE T == {s \in SUBSET S : s # {} => \E x \in s : \A y \in s : x >= y}
  <1>1. \A s \in SUBSET S : s # {} /\ (\A z \in s : s \ {z} \in T) => s \in T
    <2> SUFFICES ASSUME NEW s \in SUBSET S, s # {}, \A z \in s : s \ {z} \in T
                 PROVE  \E x \in s : \A y \in s : x >= y
      OBVIOUS
    <2>1. PICK z \in s : TRUE
      OBVIOUS
    <2>2. CASE s \ {z} = {}
      <3>1. \A y \in s : y = z
        BY <2>2
      <3>2. z \in Int
        BY <2>1
      <3>. QED BY <2>1, <3>1, <3>2
    <2>3. CASE s \ {z} # {}
      <3>1. PICK x \in s \ {z} : \A y \in s \ {z} : x >= y
        BY <2>1, <2>3
      <3>2. x \in Int /\ z \in Int /\ x \in s /\ \A y \in s : y \in Int /\ (y = z \/ x >= y)
        BY <2>1, <3>1
      <3>3. CASE x >= z
        BY <3>2, <3>3
      <3>4. CASE z > x
        <4>1. \A y \in s : z >= y
          BY <3>2, <3>4
        <4>. QED BY <2>1, <4>1
      <3>. QED BY <3>2, <3>3, <3>4
    <2>. QED BY <2>2, <2>3
  <1>2. {} \in T
    OBVIOUS
  <1>3. S \in T
    <2> HIDE DEF T
    <2>. QED BY <1>1, <1>2, SubsetsInTurn
  <1>4. PICK x \in S : \A y \in S : x >= y
    BY <1>3
  <1>5. Max(S) \in S /\ \A y \in S : Max(S) >= y
    BY <1>4 DEF Max
  <1>. QED BY <1>5

(* Among more there is one as small, and one as great.                       *)
LEMMA LeastOfMore ==
    ASSUME NEW S, IsFiniteSet(S), S \subseteq Int, NEW R, R \subseteq S, R # {}
    PROVE  /\ Min(S) \in Int /\ Min(R) \in Int /\ Min(S) <= Min(R)
           /\ Max(S) \in Int /\ Max(R) \in Int /\ Max(R) <= Max(S)
  <1>1. IsFiniteSet(R) /\ R \subseteq Int /\ S # {}
    BY FS_Subset
  <1>2. Min(R) \in R /\ Max(R) \in R
    BY <1>1, HasLeast, HasGreatest
  <1>3. Min(S) \in S /\ Max(S) \in S /\ (\A y \in S : Min(S) <= y) /\ \A y \in S : y <= Max(S)
    BY <1>1, HasLeast, HasGreatest
  <1>. QED BY <1>1, <1>2, <1>3

LEMMA FiniteImage ==
    ASSUME NEW S, IsFiniteSet(S), NEW f
    PROVE  IsFiniteSet({f[y] : y \in S})
  <1> DEFINE image == {f[y] : y \in S}
             g == [y \in S |-> f[y]]
  <1>1. g \in Surjection(S, image)
    BY DEF Surjection
  <1> HIDE DEF g, image
  <1>2. IsFiniteSet(S)
    OBVIOUS
  <1>3. IsFiniteSet(image)
    BY <1>1, <1>2, FS_Surjection
  <1>. QED BY <1>3 DEF image

(* The lows and the highs that may have filled the gap around candle i.      *)
LowsSince(w, i) == {w[j].l : j \in (i + 2) .. Len(w)} \cup {w[i + 1].l}
HighsSince(w, i) == {w[j].h : j \in (i + 2) .. Len(w)} \cup {w[i + 1].h}
BullishLeft(w, i) == Min(LowsSince(w, i)) - w[i - 1].h
BearishLeft(w, i) == w[i - 1].l - Max(HighsSince(w, i))
BullishGap(w, i) == [i |-> i, direction |-> "bullish", top |-> w[i + 1].l,
                     bottom |-> w[i - 1].h, open |-> BullishLeft(w, i)]
BearishGap(w, i) == [i |-> i, direction |-> "bearish", top |-> w[i - 1].l,
                     bottom |-> w[i + 1].h, open |-> BearishLeft(w, i)]
IsBullishGap(w, a, i) ==
    /\ w[i + 1].l > w[i - 1].h /\ AtrsAtLeast(w[i + 1].l - w[i - 1].h, FvgMin, a)
    /\ BullishLeft(w, i) > 0
IsBearishGap(w, a, i) ==
    /\ w[i - 1].l > w[i + 1].h /\ AtrsAtLeast(w[i - 1].l - w[i + 1].h, FvgMin, a)
    /\ BearishLeft(w, i) > 0

LEMMA GapsRead ==
    ASSUME NEW w, NEW a
    PROVE  /\ BullishGaps(w, a) = {BullishGap(w, i) : i \in {j \in 2 .. (Len(w) - 1) : IsBullishGap(w, a, j)}}
           /\ BearishGaps(w, a) = {BearishGap(w, i) : i \in {j \in 2 .. (Len(w) - 1) : IsBearishGap(w, a, j)}}
  <1>1. BullishGaps(w, a) = {BullishGap(w, i) : i \in {j \in 2 .. (Len(w) - 1) : IsBullishGap(w, a, j)}}
    BY Zenon DEF BullishGaps, BullishGap, IsBullishGap, BullishLeft, LowsSince
  <1>2. BearishGaps(w, a) = {BearishGap(w, i) : i \in {j \in 2 .. (Len(w) - 1) : IsBearishGap(w, a, j)}}
    BY Zenon DEF BearishGaps, BearishGap, IsBearishGap, BearishLeft, HighsSince
  <1>. QED BY <1>1, <1>2

(* One candle more leaves at most as much of an old gap.                     *)
LEMMA LessIsLeft ==
    ASSUME NEW w \in Seq(Candles), NEW k \in Candles, NEW i \in 2 .. (Len(w) - 1)
    PROVE  LET x == Append(w, k)
           IN  /\ x[i - 1] = w[i - 1] /\ x[i + 1] = w[i + 1]
               /\ BullishLeft(x, i) \in Int /\ BullishLeft(w, i) \in Int
               /\ BullishLeft(x, i) <= BullishLeft(w, i)
               /\ BearishLeft(x, i) \in Int /\ BearishLeft(w, i) \in Int
               /\ BearishLeft(x, i) <= BearishLeft(w, i)
  <1> DEFINE x == Append(w, k)
             n == Len(w)
             lows == LowsSince(x, i)
             highs == HighsSince(x, i)
  <1>1. /\ n \in Nat /\ Len(x) = n + 1 /\ i \in Int /\ 2 <= i /\ i <= n - 1
        /\ \A j \in 1 .. n : x[j] = w[j]
        /\ \A j \in 1 .. (n + 1) : x[j].h \in Int /\ x[j].l \in Int
    <2>1. /\ n \in Nat /\ Len(x) = n + 1 /\ x[n + 1] = k /\ k.h \in Int /\ k.l \in Int
          /\ \A j \in 1 .. n : x[j] = w[j]
          /\ \A j \in 1 .. n : w[j].h \in Int /\ w[j].l \in Int
      BY OneMoreCandle
    <2> HIDE DEF x, n
    <2>2. \A j \in 1 .. (n + 1) : j = n + 1 \/ j \in 1 .. n
      BY <2>1
    <2>3. i \in Int /\ 2 <= i /\ i <= n - 1
      BY <2>1 DEF n
    <2>. QED BY <2>1, <2>2, <2>3
  <1> HIDE DEF x, n
  <1>2. x[i - 1] = w[i - 1] /\ x[i + 1] = w[i + 1]
    BY <1>1
  <1>3. /\ \A j \in (i + 2) .. n : x[j] = w[j] /\ j \in (i + 2) .. (n + 1)
        /\ (i + 2) .. (n + 1) \subseteq 1 .. (n + 1) /\ i + 1 \in 1 .. (n + 1) /\ i - 1 \in 1 .. (n + 1)
    BY <1>1
  <1>4. LowsSince(w, i) \subseteq lows /\ HighsSince(w, i) \subseteq highs
    <2>1. /\ LowsSince(w, i) = {w[j].l : j \in (i + 2) .. n} \cup {w[i + 1].l}
          /\ HighsSince(w, i) = {w[j].h : j \in (i + 2) .. n} \cup {w[i + 1].h}
      BY DEF LowsSince, HighsSince, n
    <2>2. /\ lows = {x[j].l : j \in (i + 2) .. (n + 1)} \cup {x[i + 1].l}
          /\ highs = {x[j].h : j \in (i + 2) .. (n + 1)} \cup {x[i + 1].h}
      BY <1>1 DEF LowsSince, HighsSince
    <2> HIDE DEF lows, highs
    <2>. QED BY <1>2, <1>3, <2>1, <2>2
  <1>5. lows \subseteq Int /\ highs \subseteq Int
    BY <1>1, <1>3 DEF LowsSince, HighsSince
  <1>6. IsFiniteSet(lows) /\ IsFiniteSet(highs)
    <2>1. IsFiniteSet((i + 2) .. (n + 1))
      <3>1. i + 2 \in Int /\ n + 1 \in Int
        BY <1>1
      <3>. QED BY <3>1, FS_Interval
    <2> DEFINE low == [j \in (i + 2) .. (n + 1) |-> x[j].l]
               high == [j \in (i + 2) .. (n + 1) |-> x[j].h]
    <2>2. IsFiniteSet({low[j] : j \in (i + 2) .. (n + 1)}) /\ IsFiniteSet({high[j] : j \in (i + 2) .. (n + 1)})
      BY <2>1, FiniteImage
    <2>3. IsFiniteSet({x[i + 1].l}) /\ IsFiniteSet({x[i + 1].h})
      BY FS_Singleton
    <2>4. /\ IsFiniteSet({x[j].l : j \in (i + 2) .. (n + 1)} \cup {x[i + 1].l})
          /\ IsFiniteSet({x[j].h : j \in (i + 2) .. (n + 1)} \cup {x[i + 1].h})
      <3>1. /\ {low[j] : j \in (i + 2) .. (n + 1)} = {x[j].l : j \in (i + 2) .. (n + 1)}
            /\ {high[j] : j \in (i + 2) .. (n + 1)} = {x[j].h : j \in (i + 2) .. (n + 1)}
        OBVIOUS
      <3>. QED BY <2>2, <2>3, <3>1, FS_Union, Zenon
    <2>. QED BY <1>1, <2>4 DEF LowsSince, HighsSince
  <1>7. LowsSince(w, i) # {} /\ HighsSince(w, i) # {}
    BY DEF LowsSince, HighsSince
  <1>8. /\ Min(lows) \in Int /\ Min(LowsSince(w, i)) \in Int /\ Min(lows) <= Min(LowsSince(w, i))
        /\ Max(highs) \in Int /\ Max(HighsSince(w, i)) \in Int /\ Max(HighsSince(w, i)) <= Max(highs)
    BY <1>4, <1>5, <1>6, <1>7, LeastOfMore
  <1>9. w[i - 1].h \in Int /\ w[i - 1].l \in Int
    BY <1>1, <1>2, <1>3
  <1> DEFINE a == Min(lows)
             b == Min(LowsSince(w, i))
             c == Max(highs)
             d == Max(HighsSince(w, i))
             h == w[i - 1].h
             l == w[i - 1].l
  <1>10. /\ BullishLeft(x, i) = a - h /\ BullishLeft(w, i) = b - h
         /\ BearishLeft(x, i) = l - c /\ BearishLeft(w, i) = l - d
    BY <1>2, Zenon DEF BullishLeft, BearishLeft
  <1>11. a \in Int /\ b \in Int /\ c \in Int /\ d \in Int /\ h \in Int /\ l \in Int /\ a <= b /\ d <= c
    BY <1>8, <1>9
  <1> HIDE DEF a, b, c, d, h, l
  <1>12. a - h <= b - h /\ l - c <= l - d /\ a - h \in Int /\ b - h \in Int /\ l - c \in Int /\ l - d \in Int
    BY <1>11
  <1>. QED BY <1>2, <1>10, <1>12 DEF x

LEMMA GapsAreKept ==
    ASSUME NEW w \in Seq(Candles), NEW k \in Candles, NEW a, NEW g \in FairValueGaps(Append(w, k), a)
    PROVE  \/ g.i = Len(w)
           \/ \E f \in FairValueGaps(w, a) :
                /\ f.i = g.i /\ f.direction = g.direction
                /\ f.top = g.top /\ f.bottom = g.bottom /\ g.open <= f.open
  <1> DEFINE x == Append(w, k)
             n == Len(w)
  <1>1. n \in Nat /\ Len(x) = n + 1
    BY OneMoreCandle
  <1>2. ~(a.sum <= 0) /\ g \in BullishGaps(x, a) \cup BearishGaps(x, a)
    BY DEF FairValueGaps
  <1> SUFFICES ASSUME g.i # n
               PROVE  \E f \in FairValueGaps(w, a) :
                        /\ f.i = g.i /\ f.direction = g.direction
                        /\ f.top = g.top /\ f.bottom = g.bottom /\ g.open <= f.open
    BY Zenon
  <1>3. \A i \in 2 .. n : i # n => i \in 2 .. (n - 1) /\ ~(n < 3)
    BY <1>1
  <1>4. \A i \in 2 .. (n - 1) :
           /\ x[i - 1] = w[i - 1] /\ x[i + 1] = w[i + 1]
           /\ BullishLeft(x, i) \in Int /\ BullishLeft(w, i) \in Int
           /\ BullishLeft(x, i) <= BullishLeft(w, i)
           /\ BearishLeft(x, i) \in Int /\ BearishLeft(w, i) \in Int
           /\ BearishLeft(x, i) <= BearishLeft(w, i)
    BY LessIsLeft
  <1>5. 2 .. (Len(x) - 1) = 2 .. n
    BY <1>1
  <1> HIDE DEF x
  <1>6. CASE g \in BullishGaps(x, a)
    <2>1. PICK i \in 2 .. n : IsBullishGap(x, a, i) /\ g = BullishGap(x, i)
      BY <1>5, <1>6, GapsRead
    <2>2. i \in 2 .. (n - 1) /\ ~(n < 3)
      <3>1. g.i = i
        BY <2>1 DEF BullishGap
      <3>. QED BY <1>3, <2>1, <3>1
    <2> DEFINE f == BullishGap(w, i)
    <2>3. /\ x[i - 1] = w[i - 1] /\ x[i + 1] = w[i + 1]
          /\ BullishLeft(x, i) \in Int /\ BullishLeft(w, i) \in Int
          /\ BullishLeft(x, i) <= BullishLeft(w, i)
      BY <1>4, <2>2
    <2>4. BullishLeft(w, i) > 0
      <3>1. BullishLeft(x, i) > 0
        BY <2>1 DEF IsBullishGap
      <3>. QED BY <2>3, <3>1
    <2>5. IsBullishGap(w, a, i)
      BY <2>1, <2>3, <2>4, Zenon DEF IsBullishGap
    <2>6. f \in BullishGaps(w, a)
      BY <2>2, <2>5, GapsRead DEF n
    <2>7. f \in FairValueGaps(w, a)
      BY <1>2, <2>2, <2>6 DEF FairValueGaps, n
    <2>8. f.i = g.i /\ f.direction = g.direction /\ f.top = g.top /\ f.bottom = g.bottom /\ g.open <= f.open
      BY <2>1, <2>3 DEF BullishGap
    <2>. QED BY <2>7, <2>8
  <1>7. CASE g \in BearishGaps(x, a)
    <2>1. PICK i \in 2 .. n : IsBearishGap(x, a, i) /\ g = BearishGap(x, i)
      BY <1>5, <1>7, GapsRead
    <2>2. i \in 2 .. (n - 1) /\ ~(n < 3)
      <3>1. g.i = i
        BY <2>1 DEF BearishGap
      <3>. QED BY <1>3, <2>1, <3>1
    <2> DEFINE f == BearishGap(w, i)
    <2>3. /\ x[i - 1] = w[i - 1] /\ x[i + 1] = w[i + 1]
          /\ BearishLeft(x, i) \in Int /\ BearishLeft(w, i) \in Int
          /\ BearishLeft(x, i) <= BearishLeft(w, i)
      BY <1>4, <2>2
    <2>4. BearishLeft(w, i) > 0
      <3>1. BearishLeft(x, i) > 0
        BY <2>1 DEF IsBearishGap
      <3>. QED BY <2>3, <3>1
    <2>5. IsBearishGap(w, a, i)
      BY <2>1, <2>3, <2>4, Zenon DEF IsBearishGap
    <2>6. f \in BearishGaps(w, a)
      BY <2>2, <2>5, GapsRead DEF n
    <2>7. f \in FairValueGaps(w, a)
      BY <1>2, <2>2, <2>6 DEF FairValueGaps, n
    <2>8. f.i = g.i /\ f.direction = g.direction /\ f.top = g.top /\ f.bottom = g.bottom /\ g.open <= f.open
      BY <2>1, <2>3 DEF BearishGap
    <2>. QED BY <2>7, <2>8
  <1>. QED BY <1>2, <1>6, <1>7

-----------------------------------------------------------------------------
(* A window that slides: what is read of it moves up by one.                 *)

LEMMA TailRead ==
    ASSUME NEW x \in Seq(Candles), x # << >>
    PROVE  LET y == Tail(x)
           IN  /\ Len(x) \in Nat /\ Len(y) = Len(x) - 1 /\ y \in Seq(Candles)
               /\ DOMAIN x = 1 .. Len(x) /\ DOMAIN y = 1 .. (Len(x) - 1)
               /\ \A i \in 1 .. (Len(x) - 1) : y[i] = x[i + 1]
  OBVIOUS

(* Indices of y are those of x less one: their highs and lows are the same.  *)
LEMMA ShiftedHighs ==
    ASSUME NEW x, NEW y, NEW I \in SUBSET Int, \A i \in I : y[i] = x[i + 1]
    PROVE  LET J == {i + 1 : i \in I}
           IN  HighestOf(y, I) = HighestOf(x, J) /\ LowestOf(y, I) = LowestOf(x, J)
  <1> DEFINE J == {i + 1 : i \in I}
  <1>1. {y[i].h : i \in I} = {x[j].h : j \in J} /\ {y[i].l : i \in I} = {x[j].l : j \in J}
    OBVIOUS
  <1> HIDE DEF J
  <1>2. HighestOf(y, I) = HighestOf(x, J) /\ LowestOf(y, I) = LowestOf(x, J)
    BY <1>1, Zenon DEF HighestOf, LowestOf
  <1>. QED BY <1>2 DEF J

(* Of either kind, in one form.                                              *)
IsPivot(w, kind, j) == IF kind = "high" THEN IsHigh(w, j) ELSE IsLow(w, j)
PriceOf(w, kind, j) == IF kind = "high" THEN w[j].h ELSE w[j].l
PivotAt(w, kind, j) == [i |-> j, kind |-> kind, price |-> PriceOf(w, kind, j)]
Kinds == {"high", "low"}

LEMMA PivotsInOneForm ==
    ASSUME NEW w
    PROVE  \A p : p \in RawPivots(w) <=>
             \E kind \in Kinds : \E j \in PivotRange(w) : IsPivot(w, kind, j) /\ p = PivotAt(w, kind, j)
  <1>1. \A p : p \in RawPivots(w) <=> \/ \E i \in PivotRange(w) : IsHigh(w, i) /\ p = HighAt(w, i)
                                      \/ \E i \in PivotRange(w) : IsLow(w, i) /\ p = LowAt(w, i)
    BY RawPivotsRead, Zenon
  <1>2. \A j : PivotAt(w, "high", j) = HighAt(w, j) /\ PivotAt(w, "low", j) = LowAt(w, j)
    BY DEF PivotAt, PriceOf, HighAt, LowAt
  <1>3. \A j : /\ IsPivot(w, "high", j) <=> IsHigh(w, j)
               /\ IsPivot(w, "low", j) <=> IsLow(w, j)
    BY DEF IsPivot
  <1>. QED BY <1>1, <1>2, <1>3, Zenon DEF Kinds

LEMMA PivotsShift ==
    ASSUME NEW x \in Seq(Candles), x # << >>, NEW j \in PivotRange(Tail(x)), NEW kind
    PROVE  LET y == Tail(x)
           IN  /\ j + 1 \in PivotRange(x)
               /\ IsPivot(y, kind, j) <=> IsPivot(x, kind, j + 1)
               /\ PriceOf(y, kind, j) = PriceOf(x, kind, j + 1)
  <1> DEFINE y == Tail(x)
             n == Len(x)
             I == Around(j)
             J == {i + 1 : i \in I}
  <1>1. /\ n \in Nat /\ Len(y) = n - 1 /\ DOMAIN x = 1 .. n /\ DOMAIN y = 1 .. (n - 1)
        /\ \A i \in 1 .. (n - 1) : y[i] = x[i + 1]
    BY TailRead
  <1>2. SwingSide \in Nat
    BY WindowsArePositive
  <1>3. j \in (SwingSide + 1) .. (n - 1 - SwingSide)
    BY <1>1 DEF PivotRange
  <1> HIDE DEF y, n
  <1>4. j \in Int /\ j \in 1 .. (n - 1) /\ j + 1 \in (SwingSide + 1) .. (n - SwingSide)
    BY <1>1, <1>2, <1>3
  <1>5. I \in SUBSET Int /\ I \subseteq 1 .. (n - 1)
    BY <1>1, <1>2, <1>3 DEF Around
  <1>6. J = Around(j + 1)
    <2>1. \A t : t \in I <=> t \in Int /\ j - SwingSide <= t /\ t <= j + SwingSide /\ t # j
      BY <1>2, <1>4 DEF Around
    <2>2. \A t : t \in Around(j + 1) <=>
            t \in Int /\ j + 1 - SwingSide <= t /\ t <= j + 1 + SwingSide /\ t # j + 1
      BY <1>2, <1>4 DEF Around
    <2> HIDE DEF I
    <2>3. ASSUME NEW t \in Around(j + 1) PROVE t - 1 \in I /\ t = (t - 1) + 1
      <3>1. t \in Int /\ j + 1 - SwingSide <= t /\ t <= j + 1 + SwingSide /\ t # j + 1
        BY <2>2, <2>3
      <3>2. t - 1 \in Int /\ j - SwingSide <= t - 1 /\ t - 1 <= j + SwingSide /\ t - 1 # j
        BY <1>2, <1>4, <3>1
      <3>. QED BY <2>1, <3>1, <3>2
    <2>4. \A t \in I : t + 1 \in Around(j + 1)
      BY <1>2, <1>4, <2>1, <2>2
    <2>. QED BY <2>3, <2>4
  <1>7. J \subseteq 1 .. n
    BY <1>1, <1>5
  <1>8. HighestOf(y, I) = HighestOf(x, J) /\ LowestOf(y, I) = LowestOf(x, J)
    <2>1. \A i \in I : y[i] = x[i + 1]
      BY <1>1, <1>5
    <2> HIDE DEF I
    <2>. QED BY <1>5, <2>1, ShiftedHighs
  <1>9. y[j] = x[j + 1]
    BY <1>1, <1>4
  <1>10. Around(j) \cap DOMAIN y = I /\ Around(j + 1) \cap DOMAIN x = J
    BY <1>1, <1>5, <1>6, <1>7
  <1> HIDE DEF I, J
  <1>11. (IsHigh(y, j) <=> IsHigh(x, j + 1)) /\ (IsLow(y, j) <=> IsLow(x, j + 1))
    BY <1>8, <1>9, <1>10, Zenon DEF IsHigh, IsLow
  <1>12. (IsPivot(y, kind, j) <=> IsPivot(x, kind, j + 1))
    BY <1>11, Zenon DEF IsPivot
  <1>13. PriceOf(y, kind, j) = PriceOf(x, kind, j + 1)
    BY <1>9 DEF PriceOf
  <1>14. j + 1 \in PivotRange(x)
    BY <1>4 DEF PivotRange, n
  <1>. QED BY <1>12, <1>13, <1>14 DEF y

(* Where the pivots of a kind are that come before candle j.                 *)
Earlier(w, kind, j) == {l \in PivotRange(w) : l < j /\ IsPivot(w, kind, l)}

(* The label is read against the latest of them.                             *)
LEMMA LabelIs ==
    ASSUME NEW w \in Seq(Candles), NEW kind \in Kinds, NEW j, NEW price, NEW p,
           p.i = j, p.kind = kind, p.price = price
    PROVE  /\ Earlier(w, kind, j) = {} => LabelOf(p, RawPivots(w)) = ""
           /\ \A m \in Earlier(w, kind, j) : (\A l \in Earlier(w, kind, j) : l <= m) =>
                LabelOf(p, RawPivots(w)) =
                  IF kind = "high" THEN (IF price > PriceOf(w, kind, m) THEN "HH" ELSE "LH")
                  ELSE (IF price > PriceOf(w, kind, m) THEN "HL" ELSE "LL")
  <1> DEFINE raw == RawPivots(w)
             B == Before(p, raw)
             E == Earlier(w, kind, j)
  <1>1. \A q : q \in raw <=>
             \E h \in Kinds : \E l \in PivotRange(w) : IsPivot(w, h, l) /\ q = PivotAt(w, h, l)
    BY PivotsInOneForm
  <1>2. \A h, l : PivotAt(w, h, l).i = l /\ PivotAt(w, h, l).kind = h
                  /\ PivotAt(w, h, l).price = PriceOf(w, h, l)
    BY DEF PivotAt
  <1>3. \A q : q \in B <=> q \in raw /\ q.kind = kind /\ q.i < j
    BY Zenon DEF Before
  <1>4. \A l : l \in E <=> l \in PivotRange(w) /\ l < j /\ IsPivot(w, kind, l)
    BY Zenon DEF Earlier
  <1>5. PivotRange(w) \subseteq Int
    BY DEF PivotRange
  <1>6. LabelOf(p, raw) =
          IF B = {} THEN ""
          ELSE IF kind = "high" THEN (IF price > LatestOf(B).price THEN "HH" ELSE "LH")
          ELSE (IF price > LatestOf(B).price THEN "HL" ELSE "LL")
    BY Zenon DEF LabelOf, Before
  <1> HIDE DEF raw, B, E
  <1>7. ASSUME NEW q \in B PROVE q.i \in E /\ q = PivotAt(w, kind, q.i)
    <2>1. PICK h \in Kinds, l \in PivotRange(w) : IsPivot(w, h, l) /\ q = PivotAt(w, h, l)
      BY <1>1, <1>3
    <2>2. h = kind /\ q.i = l
      BY <1>2, <1>3, <2>1
    <2>. QED BY <1>3, <1>4, <2>1, <2>2
  <1>8. ASSUME NEW l \in E PROVE PivotAt(w, kind, l) \in B
    BY <1>1, <1>2, <1>3, <1>4
  <1>9. ASSUME E = {} PROVE LabelOf(p, raw) = ""
    <2>1. B = {}
      BY <1>7, <1>9
    <2>. QED BY <1>6, <2>1
  <1>10. ASSUME NEW m \in E, \A l \in E : l <= m PROVE B # {} /\ LatestOf(B).price = PriceOf(w, kind, m)
    <2> DEFINE top == PivotAt(w, kind, m)
    <2>1. top \in B /\ top.i = m
      BY <1>2, <1>8
    <2>2. \A q \in B : q.i <= top.i
      BY <1>7, <1>10, <2>1
    <2>3. ASSUME NEW q \in B, \A u \in B : u.i <= q.i PROVE q = top
      <3>1. q.i \in E /\ q = PivotAt(w, kind, q.i) /\ m <= q.i
        BY <1>7, <2>1, <2>3
      <3>2. q.i <= m /\ q.i \in Int /\ m \in Int
        BY <1>4, <1>5, <1>10, <3>1
      <3>3. q.i = m
        BY <3>1, <3>2
      <3>. QED BY <3>1, <3>3
    <2> HIDE DEF top
    <2>4. LatestOf(B) = top
      BY <2>1, <2>2, <2>3 DEF LatestOf
    <2>. QED BY <1>2, <2>1, <2>4 DEF top
  <1>11. ASSUME NEW m \in E, \A l \in E : l <= m
         PROVE  LabelOf(p, raw) =
                  IF kind = "high" THEN (IF price > PriceOf(w, kind, m) THEN "HH" ELSE "LH")
                  ELSE (IF price > PriceOf(w, kind, m) THEN "HL" ELSE "LL")
    BY <1>6, <1>10, <1>11, Zenon
  <1>. QED BY <1>9, <1>11 DEF raw, E

(* The earlier pivots of a window that slid are those it still reaches.      *)
LEMMA EarlierShift ==
    ASSUME NEW x \in Seq(Candles), x # << >>, NEW j \in PivotRange(x), j - 1 \in PivotRange(Tail(x)),
           NEW kind \in Kinds
    PROVE  LET y == Tail(x)
           IN  /\ \A l \in Earlier(y, kind, j - 1) : l \in Int /\ l + 1 \in Earlier(x, kind, j)
               /\ \A l \in Earlier(x, kind, j) :
                    l \in Int /\ (l - 1 \in Earlier(y, kind, j - 1) \/ l = SwingSide + 1)
               /\ \A l \in Earlier(y, kind, j - 1) : SwingSide + 1 <= l
               /\ \A l \in Earlier(x, kind, j) : l - 1 \in PivotRange(y) => l - 1 \in Earlier(y, kind, j - 1)
  <1> DEFINE y == Tail(x)
  <1>1. \A l \in PivotRange(y) : l + 1 \in PivotRange(x) /\ (IsPivot(y, kind, l) <=> IsPivot(x, kind, l + 1))
    BY PivotsShift
  <1>2. /\ PivotRange(x) = (SwingSide + 1) .. (Len(x) - SwingSide)
        /\ PivotRange(y) = (SwingSide + 1) .. (Len(x) - 1 - SwingSide)
        /\ SwingSide \in Nat /\ Len(x) \in Nat
    BY TailRead, WindowsArePositive DEF PivotRange
  <1>3. \A w, i, l : l \in Earlier(w, kind, i) <=> l \in PivotRange(w) /\ l < i /\ IsPivot(w, kind, l)
    BY Zenon DEF Earlier
  <1> HIDE DEF y
  <1>4. ASSUME NEW l \in Earlier(y, kind, j - 1) PROVE l \in Int /\ l + 1 \in Earlier(x, kind, j) /\ SwingSide + 1 <= l
    <2>1. l \in PivotRange(y) /\ l < j - 1 /\ IsPivot(y, kind, l)
      BY <1>3
    <2>2. l + 1 \in PivotRange(x) /\ IsPivot(x, kind, l + 1)
      BY <1>1, <2>1
    <2>3. l \in Int /\ l + 1 < j /\ SwingSide + 1 <= l
      BY <1>2, <2>1
    <2>. QED BY <1>3, <2>2, <2>3
  <1>5. ASSUME NEW l \in Earlier(x, kind, j), l - 1 \in PivotRange(y) PROVE l - 1 \in Earlier(y, kind, j - 1)
    <2>1. l \in PivotRange(x) /\ l < j /\ IsPivot(x, kind, l)
      BY <1>3
    <2>2. l - 1 + 1 = l /\ l - 1 < j - 1
      BY <1>2, <2>1
    <2>3. IsPivot(y, kind, l - 1)
      BY <1>1, <1>5, <2>1, <2>2
    <2>. QED BY <1>3, <1>5, <2>2, <2>3
  <1>6. ASSUME NEW l \in Earlier(x, kind, j) PROVE l \in Int /\ (l - 1 \in PivotRange(y) \/ l = SwingSide + 1)
    <2>1. l \in PivotRange(x) /\ l < j
      BY <1>3
    <2>. QED BY <1>2, <2>1
  <1>7. /\ \A l \in Earlier(y, kind, j - 1) : l \in Int /\ l + 1 \in Earlier(x, kind, j)
        /\ \A l \in Earlier(x, kind, j) : l \in Int /\ (l - 1 \in Earlier(y, kind, j - 1) \/ l = SwingSide + 1)
    BY <1>4, <1>5, <1>6
  <1>. QED BY <1>4, <1>5, <1>7 DEF y
SwingAt(w, kind, j) == [i |-> j, kind |-> kind, price |-> PriceOf(w, kind, j),
                        label |-> LabelOf(PivotAt(w, kind, j), RawPivots(w))]

LEMMA SwingsInOneForm ==
    ASSUME NEW w
    PROVE  \A p : p \in SwingPoints(w) <=>
             \E kind \in Kinds : \E j \in PivotRange(w) : IsPivot(w, kind, j) /\ p = SwingAt(w, kind, j)
  <1> DEFINE raw == RawPivots(w)
             Labelled(p) == [i |-> p.i, kind |-> p.kind, price |-> p.price, label |-> LabelOf(p, raw)]
  <1>1. SwingPoints(w) = {Labelled(p) : p \in raw}
    BY Zenon DEF SwingPoints
  <1>2. \A kind, j : Labelled(PivotAt(w, kind, j)) = SwingAt(w, kind, j)
    BY DEF PivotAt, SwingAt
  <1>3. \A p : p \in raw <=>
          \E kind \in Kinds : \E j \in PivotRange(w) : IsPivot(w, kind, j) /\ p = PivotAt(w, kind, j)
    BY PivotsInOneForm
  <1>4. \A p : p \in SwingPoints(w) <=> \E q \in raw : p = Labelled(q)
    BY <1>1, Zenon
  <1> HIDE DEF raw, Labelled
  <1>5. ASSUME NEW p, p \in SwingPoints(w)
        PROVE  \E kind \in Kinds : \E j \in PivotRange(w) : IsPivot(w, kind, j) /\ p = SwingAt(w, kind, j)
    BY <1>2, <1>3, <1>4, <1>5
  <1>6. ASSUME NEW kind \in Kinds, NEW j \in PivotRange(w), IsPivot(w, kind, j)
        PROVE  SwingAt(w, kind, j) \in SwingPoints(w)
    <2>1. PivotAt(w, kind, j) \in raw
      BY <1>3, <1>6
    <2>. QED BY <1>2, <1>4, <2>1
  <1>. QED BY <1>5, <1>6

LEMMA Relabelled ==
    ASSUME NEW i, NEW kind, NEW price, NEW label, NEW other
    PROVE  [[i |-> i, kind |-> kind, price |-> price, label |-> label] EXCEPT !.label = other] =
           [i |-> i, kind |-> kind, price |-> price, label |-> other]
  OBVIOUS

(* The pivot p once the oldest candle has left the window x.                 *)
LEMMA PivotsSlide ==
    ASSUME NEW x \in Seq(Candles), x # << >>, NEW p \in SwingPoints(x),
           p.i - 1 \in PivotRange(Tail(x))
    PROVE  LET y == Tail(x)
               now == [p EXCEPT !.i = @ - 1]
           IN  \/ now \in SwingPoints(y)
               \/ /\ \A q \in SwingPoints(x) : q.kind = p.kind /\ q.i < p.i => q.i - 1 \notin PivotRange(y)
                  /\ [now EXCEPT !.label = ""] \in SwingPoints(y)
  <1> DEFINE y == Tail(x)
             now == [p EXCEPT !.i = @ - 1]
  <1>1. PICK kind \in Kinds, j \in PivotRange(x) : IsPivot(x, kind, j) /\ p = SwingAt(x, kind, j)
    BY SwingsInOneForm
  <1>2. /\ p.i = j /\ p.kind = kind /\ p.price = PriceOf(x, kind, j)
        /\ p.label = LabelOf(PivotAt(x, kind, j), RawPivots(x))
    BY <1>1 DEF SwingAt
  <1>3. j - 1 \in PivotRange(y) /\ j \in Int /\ j = (j - 1) + 1
    BY <1>2 DEF PivotRange
  <1>4. IsPivot(y, kind, j - 1) /\ PriceOf(y, kind, j - 1) = PriceOf(x, kind, j)
    <2>1. /\ IsPivot(y, kind, j - 1) <=> IsPivot(x, kind, (j - 1) + 1)
          /\ PriceOf(y, kind, j - 1) = PriceOf(x, kind, (j - 1) + 1)
      BY <1>3, PivotsShift
    <2>. QED BY <1>1, <1>3, <2>1
  <1>5. SwingAt(y, kind, j - 1) \in SwingPoints(y)
    BY <1>3, <1>4, SwingsInOneForm
  <1>6. /\ \A l \in Earlier(y, kind, j - 1) : l \in Int /\ l + 1 \in Earlier(x, kind, j) /\ SwingSide + 1 <= l
        /\ \A l \in Earlier(x, kind, j) :
             l \in Int /\ (l - 1 \in Earlier(y, kind, j - 1) \/ l = SwingSide + 1)
        /\ \A l \in Earlier(x, kind, j) : l - 1 \in PivotRange(y) => l - 1 \in Earlier(y, kind, j - 1)
    BY <1>3, EarlierShift
  <1>7. y \in Seq(Candles) /\ SwingSide \in Nat
    BY TailRead, WindowsArePositive
  <1> HIDE DEF y
  <1> DEFINE s == PivotAt(y, kind, j - 1)
             r == PivotAt(x, kind, j)
             price == PriceOf(x, kind, j)
  <1>8. s.i = j - 1 /\ s.kind = kind /\ s.price = price /\ r.i = j /\ r.kind = kind /\ r.price = price
    BY <1>4 DEF PivotAt
  <1>9. CASE Earlier(y, kind, j - 1) = {}
    <2>1. LabelOf(s, RawPivots(y)) = ""
      BY <1>7, <1>8, <1>9, LabelIs
    <2>2. SwingAt(y, kind, j - 1) = [i |-> j - 1, kind |-> kind, price |-> price, label |-> ""]
      BY <1>4, <2>1 DEF SwingAt
    <2>3. [now EXCEPT !.label = ""] = [i |-> j - 1, kind |-> kind, price |-> price, label |-> ""]
      <3>1. now = [i |-> j - 1, kind |-> kind, price |-> price, label |-> p.label]
        BY <1>1, <1>2 DEF SwingAt
      <3>2. [[i |-> j - 1, kind |-> kind, price |-> price, label |-> p.label] EXCEPT !.label = ""] =
              [i |-> j - 1, kind |-> kind, price |-> price, label |-> ""]
        <4>1. PICK none : none = ""
          OBVIOUS
        <4>2. [[i |-> j - 1, kind |-> kind, price |-> price, label |-> p.label] EXCEPT !.label = none] =
                [i |-> j - 1, kind |-> kind, price |-> price, label |-> none]
          BY Relabelled
        <4>. QED BY <4>1, <4>2, Zenon
      <3>. QED BY <3>1, <3>2, Zenon
    <2>4. ASSUME NEW q \in SwingPoints(x), q.kind = kind, q.i < j PROVE q.i - 1 \notin PivotRange(y)
      <3>1. PICK l \in PivotRange(x) : IsPivot(x, kind, l) /\ q.i = l
        <4>1. PICK h \in Kinds, l \in PivotRange(x) : IsPivot(x, h, l) /\ q = SwingAt(x, h, l)
          BY SwingsInOneForm
        <4>2. q.kind = h /\ q.i = l
          BY <4>1 DEF SwingAt
        <4>. QED BY <2>4, <4>1, <4>2
      <3>2. l \in Earlier(x, kind, j)
        BY <2>4, <3>1 DEF Earlier
      <3>. QED BY <1>6, <1>9, <3>1, <3>2
    <2>. QED BY <1>2, <1>5, <2>2, <2>3, <2>4 DEF y
  <1>10. CASE Earlier(y, kind, j - 1) # {}
    <2> DEFINE E == Earlier(y, kind, j - 1)
               m == Max(E)
    <2>1. m \in E /\ \A l \in E : l <= m
      <3>1. IsFiniteSet(E)
        <4>1. Len(y) - SwingSide \in Int /\ SwingSide + 1 \in Int
          BY <1>7
        <4>2. IsFiniteSet(PivotRange(y))
          BY <4>1, FS_Interval DEF PivotRange
        <4>. QED BY <4>2, FS_Subset DEF Earlier
      <3>2. E \subseteq Int
        BY <1>6
      <3>. QED BY <1>10, <3>1, <3>2, HasGreatest
    <2> HIDE DEF m, E
    <2>2. m \in Int /\ m + 1 \in Earlier(x, kind, j) /\ SwingSide + 1 <= m
      BY <1>6, <2>1 DEF E
    <2>3. \A l \in Earlier(x, kind, j) : l <= m + 1
      <3> TAKE l \in Earlier(x, kind, j)
      <3>1. l \in Int /\ (l - 1 \in E \/ l = SwingSide + 1)
        BY <1>6 DEF E
      <3>. QED BY <1>7, <2>1, <2>2, <3>1
    <2>4. PriceOf(y, kind, m) = PriceOf(x, kind, m + 1)
      <3>1. m \in PivotRange(y)
        BY <2>1 DEF E, Earlier
      <3>. QED BY <3>1, PivotsShift DEF y
    <2>5. LabelOf(s, RawPivots(y)) =
            IF kind = "high" THEN (IF price > PriceOf(y, kind, m) THEN "HH" ELSE "LH")
            ELSE (IF price > PriceOf(y, kind, m) THEN "HL" ELSE "LL")
      <3>1. \A t \in Earlier(y, kind, j - 1) : (\A l \in Earlier(y, kind, j - 1) : l <= t) =>
              LabelOf(s, RawPivots(y)) =
                IF kind = "high" THEN (IF price > PriceOf(y, kind, t) THEN "HH" ELSE "LH")
                ELSE (IF price > PriceOf(y, kind, t) THEN "HL" ELSE "LL")
        <4>1. s.i = j - 1 /\ s.kind = kind /\ s.price = price
          BY <1>8
        <4> HIDE DEF s, price
        <4>. QED BY <1>7, <4>1, LabelIs, Zenon
      <3>. QED BY <2>1, <3>1 DEF E
    <2>6. LabelOf(r, RawPivots(x)) =
            IF kind = "high" THEN (IF price > PriceOf(x, kind, m + 1) THEN "HH" ELSE "LH")
            ELSE (IF price > PriceOf(x, kind, m + 1) THEN "HL" ELSE "LL")
      BY <1>8, <2>2, <2>3, LabelIs
    <2>7. LabelOf(s, RawPivots(y)) = p.label
      BY <1>2, <2>4, <2>5, <2>6, Zenon
    <2>8. SwingAt(y, kind, j - 1) = [i |-> j - 1, kind |-> kind, price |-> price, label |-> p.label]
      BY <1>4, <2>7 DEF SwingAt
    <2>9. now = [i |-> j - 1, kind |-> kind, price |-> price, label |-> p.label]
      BY <1>1, <1>2 DEF SwingAt
    <2>. QED BY <1>5, <2>8, <2>9 DEF y
  <1>. QED BY <1>9, <1>10

(* A pivot is the record of its four fields, its place among them a number.  *)
LEMMA PivotInPlace ==
    ASSUME NEW w \in Seq(Candles), NEW p \in SwingPoints(w)
    PROVE  p.i \in Int /\ [p EXCEPT !.i = @ - 0] = p
  <1>1. PICK kind \in Kinds, j \in PivotRange(w) : p = SwingAt(w, kind, j)
    BY SwingsInOneForm
  <1>2. j \in Int
    BY DEF PivotRange
  <1>3. j - 0 = j
    BY <1>2
  <1>. QED BY <1>1, <1>2, <1>3 DEF SwingAt

LEMMA SwingFields ==
    ASSUME NEW w \in Seq(Candles), NEW p \in SwingPoints(w)
    PROVE  [p EXCEPT !.i = @ - 1].i = p.i - 1
  <1>1. PICK kind \in Kinds, j \in PivotRange(w) : p = SwingAt(w, kind, j)
    BY SwingsInOneForm
  <1>. QED BY <1>1 DEF SwingAt

LEMMA GapsPlaced ==
    ASSUME NEW w \in Seq(Candles), NEW a, NEW g \in FairValueGaps(w, a)
    PROVE  g.i \in Int
  <1>1. g \in BullishGaps(w, a) \cup BearishGaps(w, a) /\ Len(w) \in Nat
    BY DEF FairValueGaps
  <1>2. \A i : BullishGap(w, i).i = i /\ BearishGap(w, i).i = i
    BY DEF BullishGap, BearishGap
  <1>. QED BY <1>1, <1>2, GapsRead

(* A gap of the window that slid was there, one candle further up.           *)
LEMMA GapsSlide ==
    ASSUME NEW x \in Seq(Candles), x # << >>, NEW a, NEW g \in FairValueGaps(Tail(x), a)
    PROVE  /\ g.i \in Int
           /\ \E f \in FairValueGaps(x, a) :
                /\ f.i = g.i + 1 /\ f.direction = g.direction
                /\ f.top = g.top /\ f.bottom = g.bottom /\ f.open = g.open
  <1> DEFINE y == Tail(x)
             n == Len(x)
  <1>1. /\ n \in Nat /\ Len(y) = n - 1
        /\ \A i \in 1 .. (n - 1) : y[i] = x[i + 1]
    BY TailRead
  <1>2. ~(a.sum <= 0) /\ ~(Len(y) < 3) /\ g \in BullishGaps(y, a) \cup BearishGaps(y, a)
    BY DEF FairValueGaps
  <1>3. ~(n < 3)
    BY <1>1, <1>2
  <1> HIDE DEF y
  <1>4. ASSUME NEW i \in 2 .. (n - 2)
        PROVE  /\ i \in Int /\ i + 1 \in 2 .. (n - 1)
               /\ y[i - 1] = x[(i + 1) - 1] /\ y[i + 1] = x[(i + 1) + 1]
               /\ LowsSince(y, i) = LowsSince(x, i + 1) /\ HighsSince(y, i) = HighsSince(x, i + 1)
    <2>1. /\ i \in Int /\ 2 <= i /\ i <= n - 2 /\ i + 1 \in 2 .. (n - 1)
          /\ i - 1 \in 1 .. (n - 1) /\ i + 1 \in 1 .. (n - 1)
      BY <1>1
    <2>2. (i - 1) + 1 = (i + 1) - 1
      BY <2>1
    <2>3. y[i - 1] = x[(i + 1) - 1] /\ y[i + 1] = x[(i + 1) + 1]
      BY <1>1, <2>1, <2>2
    <2>4. /\ \A j \in (i + 2) .. (n - 1) : j \in 1 .. (n - 1) /\ j + 1 \in ((i + 1) + 2) .. n
          /\ \A j \in ((i + 1) + 2) .. n : j \in Int /\ j - 1 \in (i + 2) .. (n - 1) /\ j = (j - 1) + 1
      BY <1>1, <2>1
    <2>5. \A j \in (i + 2) .. (n - 1) : y[j] = x[j + 1]
      BY <1>1, <2>4
    <2>6. /\ {y[j].l : j \in (i + 2) .. (n - 1)} = {x[j].l : j \in ((i + 1) + 2) .. n}
          /\ {y[j].h : j \in (i + 2) .. (n - 1)} = {x[j].h : j \in ((i + 1) + 2) .. n}
      <3> DEFINE A == (i + 2) .. (n - 1)
                 B == ((i + 1) + 2) .. n
      <3>1. \A j \in A : j + 1 \in B /\ y[j] = x[j + 1]
        BY <2>4, <2>5
      <3>2. \A j \in B : j - 1 \in A /\ y[j - 1] = x[j]
        BY <2>4, <2>5
      <3> HIDE DEF A, B
      <3>3. {y[j].l : j \in A} = {x[j].l : j \in B}
        BY <3>1, <3>2
      <3>4. {y[j].h : j \in A} = {x[j].h : j \in B}
        BY <3>1, <3>2
      <3>. QED BY <3>3, <3>4 DEF A, B
    <2>7. LowsSince(y, i) = LowsSince(x, i + 1) /\ HighsSince(y, i) = HighsSince(x, i + 1)
      BY <1>1, <2>3, <2>6, Zenon DEF LowsSince, HighsSince, n
    <2>. QED BY <2>1, <2>3, <2>7
  <1>5. 2 .. (Len(y) - 1) = 2 .. (n - 2)
    BY <1>1
  <1>6. CASE g \in BullishGaps(y, a)
    <2>1. PICK i \in 2 .. (n - 2) : IsBullishGap(y, a, i) /\ g = BullishGap(y, i)
      BY <1>5, <1>6, GapsRead
    <2> DEFINE f == BullishGap(x, i + 1)
    <2>2. /\ i \in Int /\ i + 1 \in 2 .. (n - 1)
          /\ y[i - 1] = x[(i + 1) - 1] /\ y[i + 1] = x[(i + 1) + 1]
          /\ LowsSince(y, i) = LowsSince(x, i + 1)
      BY <1>4
    <2>3. BullishLeft(y, i) = BullishLeft(x, i + 1)
      BY <2>2, Zenon DEF BullishLeft
    <2>4. IsBullishGap(x, a, i + 1)
      BY <2>1, <2>2, <2>3, Zenon DEF IsBullishGap
    <2>5. f \in BullishGaps(x, a)
      BY <2>2, <2>4, GapsRead DEF n
    <2>6. f \in FairValueGaps(x, a)
      BY <1>2, <1>3, <2>5 DEF FairValueGaps, n
    <2>7. /\ f.i = g.i + 1 /\ f.direction = g.direction /\ g.i = i
          /\ f.top = g.top /\ f.bottom = g.bottom /\ f.open = g.open
      BY <2>1, <2>2, <2>3 DEF BullishGap
    <2>. QED BY <2>2, <2>6, <2>7
  <1>7. CASE g \in BearishGaps(y, a)
    <2>1. PICK i \in 2 .. (n - 2) : IsBearishGap(y, a, i) /\ g = BearishGap(y, i)
      BY <1>5, <1>7, GapsRead
    <2> DEFINE f == BearishGap(x, i + 1)
    <2>2. /\ i \in Int /\ i + 1 \in 2 .. (n - 1)
          /\ y[i - 1] = x[(i + 1) - 1] /\ y[i + 1] = x[(i + 1) + 1]
          /\ HighsSince(y, i) = HighsSince(x, i + 1)
      BY <1>4
    <2>3. BearishLeft(y, i) = BearishLeft(x, i + 1)
      BY <2>2, Zenon DEF BearishLeft
    <2>4. IsBearishGap(x, a, i + 1)
      BY <2>1, <2>2, <2>3, Zenon DEF IsBearishGap
    <2>5. f \in BearishGaps(x, a)
      BY <2>2, <2>4, GapsRead DEF n
    <2>6. f \in FairValueGaps(x, a)
      BY <1>2, <1>3, <2>5 DEF FairValueGaps, n
    <2>7. /\ f.i = g.i + 1 /\ f.direction = g.direction /\ g.i = i
          /\ f.top = g.top /\ f.bottom = g.bottom /\ f.open = g.open
      BY <2>1, <2>2, <2>3 DEF BearishGap
    <2>. QED BY <2>2, <2>6, <2>7
  <1>. QED BY <1>2, <1>6, <1>7

-----------------------------------------------------------------------------
(* Votes: one more signal for the winner adds to its side of the scale and   *)
(* takes nothing from the other.                                             *)

Weights == [DOMAIN Panel.weight -> Nat]

LEMMA SameSum ==
    ASSUME NEW f, NEW S PROVE D!AddUp(f, S) = SumFunctionOnSet(f, S)
  BY Zenon DEF D!AddUp, D!SumFunctionOnSet, D!FoldFunctionOnSet, D!MapThenFoldSet,
               SumFunctionOnSet, FoldFunctionOnSet, MapThenFoldSet

LEMMA SameSize ==
    ASSUME NEW S PROVE D!Cardinality(S) = Cardinality(S)
  BY Zenon DEF D!Cardinality, Cardinality, D!IsFiniteSet, IsFiniteSet

LEMMA ScoreIsNat ==
    ASSUME NEW v \in Votes
    PROVE  D!Score(v) \in Nat
  <1> DEFINE n == v.score
             low == D!Least({100, n})
             R == {0, low}
  <1>1. n \in Int
    BY ChartsAndVotes DEF Signals
  <1> HIDE DEF n
  <1>2. low \in Int
    <2>1. \E y \in {100, n} : \A z \in {100, n} : y <= z
      BY <1>1
    <2>2. low \in {100, n}
      BY <2>1 DEF D!Least, D!Min
    <2>. QED BY <1>1, <2>2
  <1> HIDE DEF low
  <1>3. \E y \in R : \A z \in R : y >= z
    BY <1>2
  <1>4. D!Greatest(R) \in R /\ \A z \in R : D!Greatest(R) >= z
    BY <1>3 DEF D!Greatest, D!Max
  <1>5. D!Greatest(R) \in Nat
    BY <1>2, <1>4
  <1>6. D!Score(v) = D!Greatest(R)
    BY DEF D!Score, D!Clamped, R, low, n
  <1>. QED BY <1>5, <1>6

LEMMA VoteTyped ==
    ASSUME NEW v \in Votes
    PROVE  v.strategy \in DOMAIN Panel.weight /\ v.direction \in {"LONG", "SHORT", "NEUTRAL"}
  BY ChartsAndVotes DEF Signals, D!Directions

(* Who votes, and for whom, once one more has joined.                        *)
LEMMA OneMoreVote ==
    ASSUME NEW s \in Seq(Votes), NEW v \in Votes, v.direction # "NEUTRAL"
    PROVE  LET x == Append(s, v)
               n == Len(s) + 1
           IN  /\ IsFiniteSet(D!Voters(s)) /\ n \notin D!Voters(s)
               /\ D!Voters(x) = D!Voters(s) \cup {n}
               /\ \A i \in D!Voters(s) : i \in 1 .. Len(s) /\ x[i] = s[i] /\ s[i] \in Votes
               /\ x[n] = v
               /\ \A d \in {"LONG", "SHORT"} :
                    /\ IsFiniteSet(D!Side(s, d)) /\ n \notin D!Side(s, d)
                    /\ D!Side(s, d) \subseteq D!Voters(s)
                    /\ D!Side(x, d) = IF d = v.direction THEN D!Side(s, d) \cup {n} ELSE D!Side(s, d)
  <1> DEFINE x == Append(s, v)
             n == Len(s) + 1
  <1>1. /\ Len(s) \in Nat /\ DOMAIN s = 1 .. Len(s) /\ DOMAIN x = 1 .. n /\ x[n] = v
        /\ \A i \in 1 .. Len(s) : x[i] = s[i] /\ s[i] \in Votes
    OBVIOUS
  <1>2. 1 .. n = 1 .. Len(s) \cup {n} /\ n \notin 1 .. Len(s) /\ IsFiniteSet(1 .. Len(s))
    <2>1. IsFiniteSet(1 .. Len(s))
      BY <1>1, FS_Interval
    <2>2. 1 .. n = 1 .. Len(s) \cup {n} /\ n \notin 1 .. Len(s)
      BY <1>1
    <2>. QED BY <2>1, <2>2
  <1> HIDE DEF x, n
  <1>3. D!Voters(s) \subseteq 1 .. Len(s)
    BY <1>1 DEF D!Voters
  <1>4. D!Voters(x) = D!Voters(s) \cup {n}
    BY <1>1, <1>2 DEF D!Voters
  <1>5. ASSUME NEW d \in {"LONG", "SHORT"}
        PROVE  /\ D!Side(s, d) \subseteq D!Voters(s)
               /\ D!Side(x, d) = IF d = v.direction THEN D!Side(s, d) \cup {n} ELSE D!Side(s, d)
    <2>1. D!Side(s, d) \subseteq D!Voters(s)
      BY DEF D!Side, D!Voters
    <2>2. CASE d = v.direction
      <3>1. D!Side(x, d) = D!Side(s, d) \cup {n}
        BY <1>1, <1>2, <2>2 DEF D!Side
      <3>. QED BY <2>1, <2>2, <3>1
    <2>3. CASE d # v.direction
      <3>1. D!Side(x, d) = D!Side(s, d)
        BY <1>1, <1>2, <2>3 DEF D!Side
      <3>. QED BY <2>1, <2>3, <3>1
    <2>. QED BY <2>2, <2>3
  <1>6. IsFiniteSet(D!Voters(s)) /\ n \notin D!Voters(s)
    BY <1>2, <1>3, FS_Subset
  <1>7. \A d \in {"LONG", "SHORT"} : IsFiniteSet(D!Side(s, d)) /\ n \notin D!Side(s, d)
    BY <1>5, <1>6, FS_Subset
  <1>. QED BY <1>1, <1>3, <1>4, <1>5, <1>6, <1>7 DEF x, n

(* One head, one vote.                                                       *)
Heads(s, d) == Cardinality(D!Side(s, d))

LEMMA MajorityRead ==
    ASSUME NEW s, IsFiniteSet(D!Voters(s)),
           D!Side(s, "LONG") \subseteq D!Voters(s), D!Side(s, "SHORT") \subseteq D!Voters(s)
    PROVE  /\ Heads(s, "LONG") \in Nat /\ Heads(s, "SHORT") \in Nat
           /\ D!MajorityVoting(s).direction =
                IF Heads(s, "LONG") > Heads(s, "SHORT") THEN "LONG"
                ELSE IF Heads(s, "SHORT") > Heads(s, "LONG") THEN "SHORT" ELSE "NEUTRAL"
  <1> DEFINE total == D!Cardinality(D!Voters(s))
             n == [d \in {"LONG", "SHORT"} |-> D!Cardinality(D!Side(s, d))]
             winner == IF n["LONG"] > n["SHORT"] THEN "LONG" ELSE "SHORT"
  <1>1. /\ Heads(s, "LONG") \in Nat /\ Heads(s, "SHORT") \in Nat /\ total \in Nat
        /\ Heads(s, "LONG") <= total /\ Heads(s, "SHORT") <= total
    BY FS_Subset, FS_CardinalityType, SameSize DEF Heads
  <1>2. n["LONG"] = Heads(s, "LONG") /\ n["SHORT"] = Heads(s, "SHORT")
    BY SameSize DEF Heads
  <1>3. ASSUME total = 0 PROVE D!MajorityVoting(s).direction = "NEUTRAL"
    <2>1. D!MajorityVoting(s) = D!Nobody
      BY <1>3 DEF D!MajorityVoting
    <2>. QED BY <2>1 DEF D!Nobody, D!Unanimous
  <1>4. ASSUME total # 0, n["LONG"] = n["SHORT"] PROVE D!MajorityVoting(s).direction = "NEUTRAL"
    <2>1. D!MajorityVoting(s) = D!Unanimous("NEUTRAL", 0, 50, total)
      BY <1>4 DEF D!MajorityVoting
    <2>. QED BY <2>1 DEF D!Unanimous
  <1>5. ASSUME total # 0, n["LONG"] # n["SHORT"] PROVE D!MajorityVoting(s).direction = winner
    <2>1. PICK score, agreement : D!MajorityVoting(s) = D!Unanimous(winner, score, agreement, total)
      BY <1>5 DEF D!MajorityVoting
    <2> HIDE DEF winner, total
    <2>. QED BY <2>1 DEF D!Unanimous
  <1>6. CASE total = 0
    BY <1>1, <1>3, <1>6
  <1> HIDE DEF total, n
  <1>7. CASE total # 0 /\ n["LONG"] = n["SHORT"]
    BY <1>1, <1>2, <1>4, <1>7
  <1>8. CASE total # 0 /\ n["LONG"] # n["SHORT"]
    BY <1>1, <1>2, <1>5, <1>8
  <1>. QED BY <1>6, <1>7, <1>8

LEMMA MajorityKeeps ==
    ASSUME NEW s \in Seq(Votes), NEW v \in Votes, v.direction # "NEUTRAL",
           D!MajorityVoting(s).direction = v.direction
    PROVE  D!MajorityVoting(Append(s, v)).direction = v.direction
  <1> DEFINE x == Append(s, v)
             n == Len(s) + 1
  <1>0. v.direction \in {"LONG", "SHORT"}
    BY VoteTyped
  <1>1. /\ IsFiniteSet(D!Voters(s)) /\ n \notin D!Voters(s)
        /\ D!Voters(x) = D!Voters(s) \cup {n}
        /\ \A d \in {"LONG", "SHORT"} :
             /\ IsFiniteSet(D!Side(s, d)) /\ n \notin D!Side(s, d)
             /\ D!Side(s, d) \subseteq D!Voters(s)
             /\ D!Side(x, d) = IF d = v.direction THEN D!Side(s, d) \cup {n} ELSE D!Side(s, d)
    BY OneMoreVote
  <1> HIDE DEF x, n
  <1>2. IsFiniteSet(D!Voters(x))
    BY <1>1, FS_AddElement
  <1>3. \A d \in {"LONG", "SHORT"} :
          Heads(x, d) = IF d = v.direction THEN Heads(s, d) + 1 ELSE Heads(s, d)
    <2> TAKE d \in {"LONG", "SHORT"}
    <2>1. CASE d = v.direction
      <3>1. D!Side(x, d) = D!Side(s, d) \cup {n} /\ n \notin D!Side(s, d) /\ IsFiniteSet(D!Side(s, d))
        BY <1>1, <2>1
      <3>. QED BY <2>1, <3>1, FS_AddElement DEF Heads
    <2>2. CASE d # v.direction
      <3>1. D!Side(x, d) = D!Side(s, d)
        BY <1>1, <2>2
      <3>. QED BY <2>2, <3>1 DEF Heads
    <2>. QED BY <2>1, <2>2
  <1>4. \A d \in {"LONG", "SHORT"} : D!Side(x, d) \subseteq D!Voters(x)
    BY <1>1
  <1>5. /\ Heads(s, "LONG") \in Nat /\ Heads(s, "SHORT") \in Nat
        /\ D!MajorityVoting(s).direction =
             IF Heads(s, "LONG") > Heads(s, "SHORT") THEN "LONG"
             ELSE IF Heads(s, "SHORT") > Heads(s, "LONG") THEN "SHORT" ELSE "NEUTRAL"
    BY <1>1, MajorityRead
  <1>6. D!MajorityVoting(x).direction =
          IF Heads(x, "LONG") > Heads(x, "SHORT") THEN "LONG"
          ELSE IF Heads(x, "SHORT") > Heads(x, "LONG") THEN "SHORT" ELSE "NEUTRAL"
    BY <1>2, <1>4, MajorityRead
  <1>7. CASE v.direction = "LONG"
    <2>1. Heads(x, "LONG") = Heads(s, "LONG") + 1 /\ Heads(x, "SHORT") = Heads(s, "SHORT")
      BY <1>3, <1>7
    <2>2. Heads(s, "LONG") > Heads(s, "SHORT")
      BY <1>5, <1>7
    <2>. QED BY <1>5, <1>6, <1>7, <2>1, <2>2 DEF x
  <1>8. CASE v.direction = "SHORT"
    <2>1. Heads(x, "SHORT") = Heads(s, "SHORT") + 1 /\ Heads(x, "LONG") = Heads(s, "LONG")
      BY <1>3, <1>8
    <2>2. Heads(s, "SHORT") > Heads(s, "LONG")
      BY <1>5, <1>8
    <2>. QED BY <1>5, <1>6, <1>8, <2>1, <2>2 DEF x
  <1>. QED BY <1>0, <1>7, <1>8

(* A sum over the voters, or over a side, with one more voter in it.         *)
LEMMA StakesRead ==
    ASSUME NEW s \in Seq(Votes), NEW v \in Votes, v.direction # "NEUTRAL", NEW weight \in Weights
    PROVE  LET x == Append(s, v)
               n == Len(s) + 1
               Stakes(y) == D!Stake(y, weight)
           IN  /\ \A i \in D!Voters(s) : Stakes(s)[i] \in Nat /\ Stakes(x)[i] = Stakes(s)[i]
               /\ Stakes(x)[n] = weight[v.strategy] /\ weight[v.strategy] \in Nat
  <1> DEFINE x == Append(s, v)
             n == Len(s) + 1
  <1>1. /\ D!Voters(x) = D!Voters(s) \cup {n}
        /\ \A i \in D!Voters(s) : x[i] = s[i] /\ s[i] \in Votes
        /\ x[n] = v
    BY OneMoreVote
  <1> HIDE DEF x, n
  <1>2. \A u \in Votes : u.strategy \in DOMAIN Panel.weight
    BY VoteTyped
  <1>3. \A u \in Votes : weight[u.strategy] \in Nat
    BY <1>2 DEF Weights
  <1>4. \A i \in D!Voters(s) : /\ D!Stake(s, weight)[i] = weight[s[i].strategy]
                               /\ D!Stake(x, weight)[i] = weight[x[i].strategy]
    BY <1>1 DEF D!Stake
  <1>5. D!Stake(x, weight)[n] = weight[v.strategy]
    BY <1>1 DEF D!Stake
  <1>7. \A i \in D!Voters(s) : D!Stake(s, weight)[i] \in Nat /\ D!Stake(x, weight)[i] = D!Stake(s, weight)[i]
    BY <1>1, <1>3, <1>4
  <1>8. weight[v.strategy] \in Nat
    BY <1>3
  <1>. QED BY <1>5, <1>7, <1>8 DEF x, n

Mass(s, weight, d) == SumFunctionOnSet(D!Stake(s, weight), D!Side(s, d))

LEMMA MassGrows ==
    ASSUME NEW s \in Seq(Votes), NEW v \in Votes, v.direction # "NEUTRAL", NEW weight \in Weights,
           NEW d \in {"LONG", "SHORT"}
    PROVE  LET x == Append(s, v)
           IN  /\ Mass(s, weight, d) \in Int /\ weight[v.strategy] \in Nat
               /\ Mass(x, weight, d) = Mass(s, weight, d) + IF d = v.direction THEN weight[v.strategy] ELSE 0
  <1> DEFINE x == Append(s, v)
             n == Len(s) + 1
             f == D!Stake(s, weight)
             g == D!Stake(x, weight)
             S == D!Side(s, d)
  <1>1. /\ S \subseteq D!Voters(s) /\ IsFiniteSet(S) /\ n \notin S
        /\ D!Side(x, d) = IF d = v.direction THEN S \cup {n} ELSE S
    BY OneMoreVote
  <1>2. /\ \A i \in D!Voters(s) : f[i] \in Nat /\ g[i] = f[i]
        /\ g[n] = weight[v.strategy] /\ weight[v.strategy] \in Nat
    BY StakesRead
  <1> HIDE DEF x, n, f, g, S
  <1>3. AgreeOn(f, g, S) /\ IntsOn(f, S) /\ IntsOn(g, S \cup {n})
    BY <1>1, <1>2 DEF AgreeOn, IntsOn
  <1>4. SumFunctionOnSet(f, S) \in Int
    BY <1>1, <1>3, SumIsInt
  <1>5. Mass(s, weight, d) = SumFunctionOnSet(f, S) /\ Mass(x, weight, d) = SumFunctionOnSet(g, D!Side(x, d))
    BY DEF Mass, f, g, S
  <1>6. CASE d = v.direction
    <2>1. PICK a \in Int : a = SumFunctionOnSet(f, S)
      BY <1>4
    <2>2. PICK b \in Int : b = weight[v.strategy]
      BY <1>2
    <2>3. SumsTo(f, S, a)
      BY <2>1 DEF SumsTo
    <2>4. g[n] = b
      BY <1>2, <2>2
    <2>5. SumsTo(g, S \cup {n}, a + b)
      BY <1>1, <1>3, <2>3, <2>4, SumWithOneMore
    <2>6. D!Side(x, d) = S \cup {n}
      BY <1>1, <1>6
    <2>7. SumFunctionOnSet(g, D!Side(x, d)) = a + b
      BY <2>5, <2>6 DEF SumsTo
    <2>. QED BY <1>2, <1>4, <1>5, <1>6, <2>1, <2>2, <2>7 DEF x
  <1>7. CASE d # v.direction
    <2>1. D!Side(x, d) = S
      BY <1>1, <1>7
    <2>2. SumFunctionOnSet(g, S) = SumFunctionOnSet(f, S)
      BY <1>1, <1>3, SumsAgree
    <2>3. PICK a \in Int : a = SumFunctionOnSet(f, S)
      BY <1>4
    <2>4. Mass(s, weight, d) = a /\ Mass(x, weight, d) = a
      BY <1>5, <2>1, <2>2, <2>3
    <2>. QED BY <1>2, <1>7, <2>4 DEF x
  <1>. QED BY <1>6, <1>7

LEMMA VotingRead ==
    ASSUME NEW s, NEW weight
    PROVE  D!WeightedVoting(s, weight).direction =
             IF \/ Mass(s, weight, "LONG") + Mass(s, weight, "SHORT") <= 0
                \/ Mass(s, weight, "LONG") = Mass(s, weight, "SHORT")
             THEN "NEUTRAL"
             ELSE IF Mass(s, weight, "LONG") > Mass(s, weight, "SHORT") THEN "LONG" ELSE "SHORT"
  <1>1. \A d : D!AddUp(D!Stake(s, weight), D!Side(s, d)) = Mass(s, weight, d)
    BY SameSum DEF Mass
  <1> DEFINE mass == [d \in {"LONG", "SHORT"} |-> D!AddUp(D!Stake(s, weight), D!Side(s, d))]
  <1>2. mass["LONG"] = Mass(s, weight, "LONG") /\ mass["SHORT"] = Mass(s, weight, "SHORT")
    BY <1>1
  <1>3. D!WeightedVoting(s, weight).direction =
             IF mass["LONG"] + mass["SHORT"] <= 0 \/ mass["LONG"] = mass["SHORT"]
             THEN "NEUTRAL"
             ELSE IF mass["LONG"] > mass["SHORT"] THEN "LONG" ELSE "SHORT"
    BY DEF D!WeightedVoting, D!Nobody, D!Unanimous
  <1> HIDE DEF mass
  <1>. QED BY <1>2, <1>3

LEMMA VotingKeeps ==
    ASSUME NEW s \in Seq(Votes), NEW v \in Votes, v.direction # "NEUTRAL", NEW weight \in Weights,
           D!WeightedVoting(s, weight).direction = v.direction
    PROVE  D!WeightedVoting(Append(s, v), weight).direction = v.direction
  <1> DEFINE x == Append(s, v)
             a == Mass(s, weight, "LONG")
             b == Mass(s, weight, "SHORT")
             c == Mass(x, weight, "LONG")
             d == Mass(x, weight, "SHORT")
             e == weight[v.strategy]
  <1>1. /\ a \in Int /\ b \in Int /\ e \in Nat
        /\ c = a + IF "LONG" = v.direction THEN e ELSE 0
        /\ d = b + IF "SHORT" = v.direction THEN e ELSE 0
    BY MassGrows
  <1>2. /\ D!WeightedVoting(s, weight).direction =
             IF a + b <= 0 \/ a = b THEN "NEUTRAL" ELSE IF a > b THEN "LONG" ELSE "SHORT"
        /\ D!WeightedVoting(x, weight).direction =
             IF c + d <= 0 \/ c = d THEN "NEUTRAL" ELSE IF c > d THEN "LONG" ELSE "SHORT"
    BY VotingRead
  <1>3. v.direction \in {"LONG", "SHORT"}
    BY VoteTyped
  <1> HIDE DEF a, b, c, d, e, x
  <1>4. CASE v.direction = "LONG"
    <2>1. c = a + e /\ d = b + 0 /\ ~(a + b <= 0) /\ a > b
      BY <1>1, <1>2, <1>4
    <2>2. ~(c + d <= 0) /\ c > d /\ c # d
      BY <1>1, <2>1
    <2>. QED BY <1>2, <1>4, <2>2 DEF x
  <1>5. CASE v.direction = "SHORT"
    <2>1. c = a + 0 /\ d = b + e /\ ~(a + b <= 0) /\ a # b /\ ~(a > b)
      BY <1>1, <1>2, <1>5
    <2>2. ~(c + d <= 0) /\ ~(c > d) /\ c # d
      BY <1>1, <2>1
    <2>. QED BY <1>2, <1>5, <2>2 DEF x
  <1>. QED BY <1>3, <1>4, <1>5

(* The signed mean.                                                          *)
Scale(s, weight) == SumFunctionOnSet(D!Stake(s, weight), D!Voters(s))
Balance(s, weight) == SumFunctionOnSet(D!Signed(s, weight), D!Voters(s))

LEMMA SignedVote ==
    ASSUME NEW u \in Votes, u.direction # "NEUTRAL", NEW e \in Nat
    PROVE  /\ D!Sign(u.direction) * D!Score(u) * e \in Int
           /\ u.direction = "LONG" => D!Sign(u.direction) * D!Score(u) * e >= 0
           /\ u.direction = "SHORT" => D!Sign(u.direction) * D!Score(u) * e <= 0
  <1>1. PICK p \in Nat : p = D!Score(u)
    BY ScoreIsNat
  <1>2. \A q \in Nat : q * e \in Nat
    OBVIOUS
  <1>3. CASE u.direction = "LONG"
    <2>1. D!Sign(u.direction) = 1
      BY <1>3 DEF D!Sign
    <2>2. 1 * p * e \in Nat
      BY <1>2
    <2>. QED BY <1>1, <1>3, <2>1, <2>2
  <1>4. CASE u.direction = "SHORT"
    <2>1. D!Sign(u.direction) = -1
      BY <1>4 DEF D!Sign
    <2>2. -1 * p * e \in Int /\ -1 * p * e <= 0
      <3>1. p * e \in Nat
        BY <1>2
      <3>2. -1 * p * e = -(p * e)
        OBVIOUS
      <3> DEFINE m == p * e
      <3> HIDE DEF m
      <3>3. m \in Nat => -m \in Int /\ -m <= 0
        OBVIOUS
      <3>. QED BY <3>1, <3>2, <3>3 DEF m
    <2>. QED BY <1>1, <1>4, <2>1, <2>2
  <1>. QED BY <1>3, <1>4, VoteTyped

LEMMA ScaleGrows ==
    ASSUME NEW s \in Seq(Votes), NEW v \in Votes, v.direction # "NEUTRAL", NEW weight \in Weights
    PROVE  LET x == Append(s, v)
           IN  /\ Scale(s, weight) \in Int /\ weight[v.strategy] \in Nat
               /\ Scale(x, weight) = Scale(s, weight) + weight[v.strategy]
  <1> DEFINE x == Append(s, v)
             n == Len(s) + 1
             f == D!Stake(s, weight)
             g == D!Stake(x, weight)
             S == D!Voters(s)
  <1>1. IsFiniteSet(S) /\ n \notin S /\ D!Voters(x) = S \cup {n}
    BY OneMoreVote
  <1>2. /\ \A i \in S : f[i] \in Nat /\ g[i] = f[i]
        /\ g[n] = weight[v.strategy] /\ weight[v.strategy] \in Nat
    BY StakesRead
  <1> HIDE DEF x, n, f, g, S
  <1>3. AgreeOn(f, g, S) /\ IntsOn(f, S) /\ IntsOn(g, S \cup {n})
    BY <1>1, <1>2 DEF AgreeOn, IntsOn
  <1>4. PICK a \in Int : a = SumFunctionOnSet(f, S)
    BY <1>1, <1>3, SumIsInt
  <1>5. PICK b \in Int : b = weight[v.strategy]
    BY <1>2
  <1>6. SumsTo(f, S, a) /\ g[n] = b
    BY <1>2, <1>4, <1>5 DEF SumsTo
  <1>7. SumsTo(g, S \cup {n}, a + b)
    BY <1>1, <1>3, <1>6, SumWithOneMore
  <1>8. Scale(s, weight) = a /\ Scale(x, weight) = a + b
    BY <1>1, <1>4, <1>7 DEF Scale, SumsTo, f, g, S
  <1>. QED BY <1>2, <1>5, <1>8 DEF x

LEMMA BalanceGrows ==
    ASSUME NEW s \in Seq(Votes), NEW v \in Votes, v.direction # "NEUTRAL", NEW weight \in Weights
    PROVE  LET x == Append(s, v)
               b == D!Sign(v.direction) * D!Score(v) * weight[v.strategy]
           IN  /\ Balance(s, weight) \in Int /\ b \in Int
               /\ Balance(x, weight) = Balance(s, weight) + b
  <1> DEFINE x == Append(s, v)
             n == Len(s) + 1
             f == D!Signed(s, weight)
             g == D!Signed(x, weight)
             h == D!Stake(s, weight)
             k == D!Stake(x, weight)
             S == D!Voters(s)
             one == D!Sign(v.direction) * D!Score(v) * weight[v.strategy]
  <1>1. /\ IsFiniteSet(S) /\ n \notin S /\ D!Voters(x) = S \cup {n} /\ x[n] = v
        /\ \A i \in S : x[i] = s[i] /\ s[i] \in Votes
    BY OneMoreVote
  <1>2. /\ \A i \in S : h[i] \in Nat /\ k[i] = h[i]
        /\ k[n] = weight[v.strategy] /\ weight[v.strategy] \in Nat
    BY StakesRead
  <1>3. \A i \in S : f[i] = D!Sign(s[i].direction) * D!Score(s[i]) * h[i]
    BY DEF D!Signed
  <1>4. \A i \in S \cup {n} : g[i] = D!Sign(x[i].direction) * D!Score(x[i]) * k[i]
    BY <1>1 DEF D!Signed
  <1>5. \A i \in S : s[i].direction # "NEUTRAL"
    BY DEF D!Voters
  <1> HIDE DEF x, n, f, g, h, k, S
  <1>6. \A i \in S : f[i] \in Int /\ g[i] = f[i]
    <2> TAKE i \in S
    <2>1. s[i] \in Votes /\ s[i].direction # "NEUTRAL" /\ h[i] \in Nat /\ x[i] = s[i] /\ k[i] = h[i]
      BY <1>1, <1>2, <1>5
    <2>2. D!Sign(s[i].direction) * D!Score(s[i]) * h[i] \in Int
      BY <2>1, SignedVote
    <2>3. f[i] = D!Sign(s[i].direction) * D!Score(s[i]) * h[i]
      BY <1>3
    <2>4. g[i] = D!Sign(x[i].direction) * D!Score(x[i]) * k[i]
      BY <1>4
    <2>. QED BY <2>1, <2>2, <2>3, <2>4, Zenon
  <1>7. g[n] = one /\ one \in Int
    <2>1. one \in Int
      BY <1>2, SignedVote
    <2>2. g[n] = D!Sign(x[n].direction) * D!Score(x[n]) * k[n]
      BY <1>4
    <2>3. g[n] = one
      BY <1>1, <1>2, <2>2, Zenon
    <2>. QED BY <2>1, <2>3
  <1> HIDE DEF one
  <1>8. AgreeOn(f, g, S) /\ IntsOn(f, S) /\ IntsOn(g, S \cup {n})
    BY <1>6, <1>7 DEF AgreeOn, IntsOn
  <1>9. PICK a \in Int : a = SumFunctionOnSet(f, S)
    BY <1>1, <1>8, SumIsInt
  <1>10. PICK b \in Int : b = one
    BY <1>7
  <1>11. SumsTo(f, S, a) /\ g[n] = b
    BY <1>7, <1>9, <1>10 DEF SumsTo
  <1>12. SumsTo(g, S \cup {n}, a + b)
    BY <1>1, <1>8, <1>11, SumWithOneMore
  <1>13. Balance(s, weight) = a /\ Balance(x, weight) = a + b
    BY <1>1, <1>9, <1>12 DEF Balance, SumsTo, f, g, S
  <1>. QED BY <1>10, <1>13 DEF x, one

LEMMA AverageRead ==
    ASSUME NEW s, NEW weight, Scale(s, weight) \in Int, Balance(s, weight) \in Int
    PROVE  D!WeightedAverage(s, weight).direction =
             IF Scale(s, weight) <= 0 \/ Balance(s, weight) = 0 THEN "NEUTRAL"
             ELSE IF Balance(s, weight) > 0 THEN "LONG" ELSE "SHORT"
  <1>1. /\ D!AddUp(D!Stake(s, weight), D!Voters(s)) = Scale(s, weight)
        /\ D!AddUp(D!Signed(s, weight), D!Voters(s)) = Balance(s, weight)
    BY SameSum DEF Scale, Balance
  <1> DEFINE total == D!AddUp(D!Stake(s, weight), D!Voters(s))
             value == D!AddUp(D!Signed(s, weight), D!Voters(s))
             winner == CASE value > 0 -> "LONG" [] value < 0 -> "SHORT" [] OTHER -> "NEUTRAL"
  <1>2. D!WeightedAverage(s, weight).direction =
          CASE total <= 0 -> "NEUTRAL"
            [] total > 0 /\ value = 0 -> "NEUTRAL"
            [] OTHER -> winner
    BY DEF D!WeightedAverage, D!Nobody, D!Unanimous
  <1>3. total \in Int /\ value \in Int
    BY <1>1
  <1> HIDE DEF total, value
  <1>4. CASE total <= 0
    BY <1>1, <1>2, <1>3, <1>4 DEF total, value
  <1>5. CASE total > 0 /\ value = 0
    BY <1>1, <1>2, <1>3, <1>5 DEF total, value
  <1>6. CASE total > 0 /\ value # 0
    <2>1. D!WeightedAverage(s, weight).direction = winner
      BY <1>2, <1>3, <1>6
    <2>2. winner = IF value > 0 THEN "LONG" ELSE "SHORT"
      BY <1>3, <1>6
    <2>3. ~(total <= 0)
      BY <1>3, <1>6
    <2>4. D!WeightedAverage(s, weight).direction =
            IF total <= 0 \/ value = 0 THEN "NEUTRAL" ELSE IF value > 0 THEN "LONG" ELSE "SHORT"
      BY <1>6, <2>1, <2>2, <2>3
    <2>. QED BY <1>1, <2>4 DEF total, value
  <1>. QED BY <1>3, <1>4, <1>5, <1>6

LEMMA AverageKeeps ==
    ASSUME NEW s \in Seq(Votes), NEW v \in Votes, v.direction # "NEUTRAL", NEW weight \in Weights,
           D!WeightedAverage(s, weight).direction = v.direction
    PROVE  D!WeightedAverage(Append(s, v), weight).direction = v.direction
  <1> DEFINE x == Append(s, v)
             one == D!Sign(v.direction) * D!Score(v) * weight[v.strategy]
             a == Scale(s, weight)
             b == Balance(s, weight)
             c == Scale(x, weight)
             d == Balance(x, weight)
             e == weight[v.strategy]
  <1>1. a \in Int /\ e \in Nat /\ c = a + e
    BY ScaleGrows
  <1>2. b \in Int /\ one \in Int /\ d = b + one
    BY BalanceGrows
  <1>3. (v.direction = "LONG" => one >= 0) /\ (v.direction = "SHORT" => one <= 0)
    BY <1>1, SignedVote
  <1>4. v.direction \in {"LONG", "SHORT"}
    BY VoteTyped
  <1> HIDE DEF one, a, b, c, d, e, x
  <1>5. c \in Int /\ d \in Int
    BY <1>1, <1>2
  <1>6. /\ D!WeightedAverage(s, weight).direction =
             IF a <= 0 \/ b = 0 THEN "NEUTRAL" ELSE IF b > 0 THEN "LONG" ELSE "SHORT"
        /\ D!WeightedAverage(x, weight).direction =
             IF c <= 0 \/ d = 0 THEN "NEUTRAL" ELSE IF d > 0 THEN "LONG" ELSE "SHORT"
    BY <1>1, <1>2, <1>5, AverageRead DEF a, b, c, d
  <1>7. CASE v.direction = "LONG"
    <2>1. ~(a <= 0) /\ b > 0 /\ one >= 0
      BY <1>3, <1>6, <1>7
    <2>2. ~(c <= 0) /\ d > 0 /\ d # 0
      BY <1>1, <1>2, <2>1
    <2>. QED BY <1>6, <1>7, <2>2 DEF x
  <1>8. CASE v.direction = "SHORT"
    <2>1. ~(a <= 0) /\ ~(b > 0) /\ b # 0 /\ one <= 0
      BY <1>3, <1>6, <1>8
    <2>2. ~(c <= 0) /\ ~(d > 0) /\ d # 0
      BY <1>1, <1>2, <2>1
    <2>. QED BY <1>6, <1>8, <2>2 DEF x
  <1>. QED BY <1>4, <1>7, <1>8

LEMMA WeightsTyped ==
    /\ Panel.weight \in Weights
    /\ D!DynamicWeights(Panel.weight, Panel.performance) \in Weights
    /\ D!RegimeWeights(Panel.weight, Panel.multipliers, Panel.regime) \in Weights
  <1> DEFINE S == DOMAIN Panel.weight
             Factor(k) == IF <<Panel.regime, k>> \in DOMAIN Panel.multipliers
                          THEN Panel.multipliers[<<Panel.regime, k>>] ELSE 10
             dynamic == [k \in S |-> Panel.weight[k] * (5 + Panel.performance[k])]
             regime == [k \in S |-> Panel.weight[k] * Factor(k)]
  <1>1. \A p, q \in Nat : p * q \in Nat
    OBVIOUS
  <1>2. \A k \in S : Panel.weight[k] \in Nat /\ 5 + Panel.performance[k] \in Nat /\ Factor(k) \in Nat
    <2>1. Panel.weight \in [S -> Nat] /\ \A k \in S : Panel.performance[k] \in Nat
      BY ChartsAndVotes
    <2>2. \A m \in DOMAIN Panel.multipliers : Panel.multipliers[m] \in Nat
      BY ChartsAndVotes
    <2>3. \A k \in S : Factor(k) \in Nat
      BY <2>2
    <2>. QED BY <2>1, <2>3
  <1>3. /\ D!DynamicWeights(Panel.weight, Panel.performance) = dynamic
        /\ D!RegimeWeights(Panel.weight, Panel.multipliers, Panel.regime) = regime
    BY Zenon DEF D!DynamicWeights, D!RegimeWeights
  <1> HIDE DEF Factor
  <1>4. \A k \in S : /\ Panel.weight[k] * (5 + Panel.performance[k]) \in Nat
                     /\ Panel.weight[k] * Factor(k) \in Nat
    BY <1>1, <1>2
  <1>5. dynamic \in [S -> Nat] /\ regime \in [S -> Nat]
    BY <1>4
  <1>6. Panel.weight \in [S -> Nat]
    BY ChartsAndVotes
  <1>. QED BY <1>3, <1>5, <1>6 DEF Weights

(* Whatever the method, a further signal for the winner leaves it the        *)
(* winner.                                                                   *)
LEMMA SupportKept ==
    ASSUME NEW s \in Seq(Votes), NEW v \in Votes, v.direction # "NEUTRAL", NEW m \in D!Methods,
           D!Consensus(m, s, Panel).direction = v.direction
    PROVE  D!Consensus(m, Append(s, v), Panel).direction = v.direction
  <1>1. CASE m = "majority_voting"
    <2>1. \A y : D!Consensus(m, y, Panel) = D!MajorityVoting(y)
      BY <1>1 DEF D!Consensus
    <2>. QED BY <2>1, MajorityKeeps
  <1>2. CASE m = "weighted_voting"
    <2>1. \A y : D!Consensus(m, y, Panel) = D!WeightedVoting(y, Panel.weight)
      BY <1>2 DEF D!Consensus
    <2>. QED BY <2>1, VotingKeeps, WeightsTyped
  <1>3. CASE m = "weighted_average"
    <2>1. \A y : D!Consensus(m, y, Panel) = D!WeightedAverage(y, Panel.weight)
      BY <1>3 DEF D!Consensus
    <2>. QED BY <2>1, AverageKeeps, WeightsTyped
  <1>4. CASE m = "dynamic_weighting"
    <2> DEFINE weight == D!DynamicWeights(Panel.weight, Panel.performance)
    <2>1. \A y : D!Consensus(m, y, Panel) = D!WeightedAverage(y, weight)
      BY <1>4 DEF D!Consensus
    <2>2. weight \in Weights
      BY WeightsTyped
    <2> HIDE DEF weight
    <2>. QED BY <2>1, <2>2, AverageKeeps
  <1>5. CASE m = "regime_weighting"
    <2> DEFINE weight == D!RegimeWeights(Panel.weight, Panel.multipliers, Panel.regime)
    <2>1. \A y : D!Consensus(m, y, Panel) = D!WeightedAverage(y, weight)
      BY <1>5 DEF D!Consensus
    <2>2. weight \in Weights
      BY WeightsTyped
    <2> HIDE DEF weight
    <2>. QED BY <2>1, <2>2, AverageKeeps
  <1>. QED BY <1>1, <1>2, <1>3, <1>4, <1>5 DEF D!Methods

LEMMA WinnerStays ==
    ASSUME Studied, StudyNext, study.kind = "vote", NEW m \in D!Methods,
           D!Consensus(m, Window, Panel).direction = Window'[Len(Window')].direction,
           Window'[Len(Window')].direction # "NEUTRAL"
    PROVE  D!Consensus(m, Window', Panel).direction = Window'[Len(Window')].direction
  <1>1. PICK v \in Votes : Window' = Append(Window, v)
    BY VoteGrows
  <1>2. Window \in Seq(Votes)
    BY DEF Studied
  <1>3. Append(Window, v)[Len(Append(Window, v))] = v
    BY <1>2
  <1>. QED BY <1>1, <1>2, <1>3, SupportKept

-----------------------------------------------------------------------------
(* A step of a chart, with a window that grows or slides.                    *)

StillStands(p) ==
  LET now == [p EXCEPT !.i = @ - Lost]
  IN \/ now \in SwingPoints(Window')
     \/ Unpreceded(p) /\ [now EXCEPT !.label = ""] \in SwingPoints(Window')

OnlyFilled(g, a) ==
  \/ g.i + Lost = Len(Window)
  \/ \E f \in FairValueGaps(Window, a) :
       /\ f.i = g.i + Lost /\ f.direction = g.direction
       /\ f.top = g.top /\ f.bottom = g.bottom /\ g.open <= f.open

LEMMA Lengthened ==
    ASSUME NEW w \in Seq(Candles), NEW k \in Candles
    PROVE  Append(w, k) \in Seq(Candles) /\ Append(w, k) # << >>
  <1>1. Append(w, k) \in Seq(Candles) /\ Len(Append(w, k)) = Len(w) + 1 /\ Len(w) \in Nat
    OBVIOUS
  <1>2. Len(<< >>) = 0
    OBVIOUS
  <1>. QED BY <1>1, <1>2

LEMMA PivotsStillStand ==
    ASSUME Studied, StudyNext, Charted, NEW p \in SwingPoints(Window),
           [p EXCEPT !.i = @ - Lost].i \in PivotRange(Window')
    PROVE  StillStands(p)
  <1>1. PICK k \in Candles :
          \/ Window' = Append(Window, k) /\ Lost = 0
          \/ Window' = Tail(Append(Window, k)) /\ Lost = 1
    BY ChartMoves
  <1>2. Window \in Seq(Candles)
    BY DEF Studied
  <1> DEFINE x == Append(Window, k)
  <1>3. p \in SwingPoints(x) /\ SwingPoints(Window) \subseteq SwingPoints(x)
    BY <1>2, PivotsAreKept
  <1>4. x \in Seq(Candles) /\ x # << >>
    BY <1>2, Lengthened
  <1> HIDE DEF x
  <1>5. p.i \in Int /\ [p EXCEPT !.i = @ - 0] = p
    BY <1>2, PivotInPlace
  <1>6. CASE Window' = x /\ Lost = 0
    <2>1. [p EXCEPT !.i = @ - Lost] = p
      BY <1>5, <1>6
    <2>. QED BY <1>3, <1>6, <2>1, Zenon DEF StillStands
  <1>7. CASE Window' = Tail(x) /\ Lost = 1
    <2> DEFINE y == Tail(x)
               now == [p EXCEPT !.i = @ - 1]
    <2>1. p.i - 1 \in PivotRange(y)
      <3>1. [p EXCEPT !.i = @ - 1].i = p.i - 1
        BY <1>2, SwingFields
      <3>. QED BY <1>7, <3>1
    <2>2. \/ now \in SwingPoints(y)
          \/ /\ \A q \in SwingPoints(x) : q.kind = p.kind /\ q.i < p.i => q.i - 1 \notin PivotRange(y)
             /\ [now EXCEPT !.label = ""] \in SwingPoints(y)
      BY <1>3, <1>4, <2>1, PivotsSlide, Zenon
    <2>3. ASSUME \A q \in SwingPoints(x) : q.kind = p.kind /\ q.i < p.i => q.i - 1 \notin PivotRange(y)
          PROVE  Unpreceded(p)
      BY <1>3, <1>7, <2>3 DEF Unpreceded, OfKind
    <2> HIDE DEF y
    <2>4. [p EXCEPT !.i = @ - Lost] = now /\ Window' = y
      BY <1>7 DEF y
    <2> HIDE DEF now
    <2>. QED BY <2>2, <2>3, <2>4, Zenon DEF StillStands
  <1>. QED BY <1>1, <1>6, <1>7 DEF x

LEMMA GapsFill ==
    ASSUME Studied, StudyNext, Charted, NEW a, NEW g \in FairValueGaps(Window', a)
    PROVE  OnlyFilled(g, a)
  <1>1. PICK k \in Candles :
          \/ Window' = Append(Window, k) /\ Lost = 0
          \/ Window' = Tail(Append(Window, k)) /\ Lost = 1
    BY ChartMoves
  <1>2. Window \in Seq(Candles)
    BY DEF Studied
  <1> DEFINE x == Append(Window, k)
             kept(f, i) == /\ f.i = i /\ f.direction = g.direction
                           /\ f.top = g.top /\ f.bottom = g.bottom /\ g.open <= f.open
  <1>3. CASE Window' = x /\ Lost = 0
    <2>1. \/ g.i = Len(Window)
          \/ \E f \in FairValueGaps(Window, a) : kept(f, g.i)
      BY <1>2, <1>3, GapsAreKept
    <2>2. g.i \in Int
      <3>1. x \in Seq(Candles)
        BY <1>2
      <3>. QED BY <1>3, <3>1, GapsPlaced
    <2>3. g.i + Lost = g.i
      BY <1>3, <2>2
    <2>. QED BY <2>1, <2>3 DEF OnlyFilled
  <1>4. CASE Window' = Tail(x) /\ Lost = 1
    <2>1. x \in Seq(Candles) /\ x # << >>
      BY <1>2, Lengthened
    <2>2. g.i \in Int
      BY <1>4, <2>1, GapsSlide
    <2>3. PICK f \in FairValueGaps(x, a) :
            /\ f.i = g.i + 1 /\ f.direction = g.direction
            /\ f.top = g.top /\ f.bottom = g.bottom /\ f.open = g.open
      BY <1>4, <2>1, GapsSlide
    <2>4. \/ f.i = Len(Window)
          \/ \E e \in FairValueGaps(Window, a) :
               /\ e.i = f.i /\ e.direction = f.direction
               /\ e.top = f.top /\ e.bottom = f.bottom /\ f.open <= e.open
      BY <1>2, GapsAreKept
    <2>. QED BY <1>4, <2>3, <2>4 DEF OnlyFilled
  <1>. QED BY <1>1, <1>3, <1>4

-----------------------------------------------------------------------------
(* What was concluded from the candles and the votes seen so far stands,     *)
(* also when the window loses its oldest candle: a confirmed pivot that the  *)
(* window still reaches keeps its place and its label, which it only loses   *)
(* when no earlier pivot of its kind is left in the window; a fair value gap *)
(* that is still listed was listed before and is filled further, if          *)
(* anything, and none of the five methods turns against the side that just   *)
(* gained a vote                                                             *)
(* (analytics/indicators/structure.py:33-73, smc.py:153-214,                 *)
(* engine/feature_store/store.py:372-395, consensus/algorithms.py:48-204).   *)
(* For every chart, candle, size of the window, number of signals and        *)
(* non-negative weights.                                                     *)
THEOREM RewritesNothing == StudySpec => NothingIsRewritten
  <1>1. StudyInit => Studied
    BY StudiedInit
  <1>2. Studied /\ [StudyNext]_study => Studied'
    BY StudiedNext
  <1>3. Studied /\ [StudyNext]_study =>
          [Charted => \A p \in SwingPoints(Window) :
             LET now == [p EXCEPT !.i = @ - Lost]
             IN now.i \in PivotRange(Window') =>
                  \/ now \in SwingPoints(Window')
                  \/ Unpreceded(p) /\ [now EXCEPT !.label = ""] \in SwingPoints(Window')]_study
    <2> SUFFICES ASSUME Studied, StudyNext, Charted, NEW p \in SwingPoints(Window),
                        [p EXCEPT !.i = @ - Lost].i \in PivotRange(Window')
                 PROVE  StillStands(p)
      BY Zenon DEF StillStands
    <2>. QED BY PivotsStillStand
  <1>4. Studied /\ [StudyNext]_study =>
          [Charted /\ Len(Window) >= 2 =>
             LET a == Atr(Window, AtrPeriod)
             IN \A g \in FairValueGaps(Window', a) :
                  \/ g.i + Lost = Len(Window)
                  \/ \E f \in FairValueGaps(Window, a) :
                       /\ f.i = g.i + Lost /\ f.direction = g.direction
                       /\ f.top = g.top /\ f.bottom = g.bottom /\ g.open <= f.open]_study
    <2> SUFFICES ASSUME Studied, StudyNext, Charted, NEW a, NEW g \in FairValueGaps(Window', a)
                 PROVE  OnlyFilled(g, a)
      BY Zenon DEF OnlyFilled
    <2>. QED BY GapsFill
  <1>5. Studied /\ [StudyNext]_study =>
          [study.kind = "vote" =>
             LET joined == Window'[Len(Window')].direction
             IN \A m \in D!Methods :
                  D!Consensus(m, Window, Panel).direction = joined /\ joined # "NEUTRAL"
                    => D!Consensus(m, Window', Panel).direction = joined]_study
    <2> SUFFICES ASSUME Studied, StudyNext, study.kind = "vote", NEW m \in D!Methods,
                        D!Consensus(m, Window, Panel).direction = Window'[Len(Window')].direction,
                        Window'[Len(Window')].direction # "NEUTRAL"
                 PROVE  D!Consensus(m, Window', Panel).direction = Window'[Len(Window')].direction
      BY Zenon
    <2>. QED BY WinnerStays
  <1>. QED BY <1>1, <1>2, <1>3, <1>4, <1>5, PTL
           DEF StudySpec, NothingIsRewritten, PivotsStand, GapsOnlyFill, SupportKeepsTheWinner

-----------------------------------------------------------------------------
(* Votes turned over: the voters are the same, and each speaks for the other *)
(* side with the same score and the same stake.                              *)
LEMMA TurnedOver ==
    ASSUME NEW s \in Seq(Votes)
    PROVE  LET r == Reversed(s)
           IN  /\ IsFiniteSet(D!Voters(s)) /\ D!Voters(r) = D!Voters(s)
               /\ D!Side(r, "LONG") = D!Side(s, "SHORT") /\ D!Side(r, "SHORT") = D!Side(s, "LONG")
               /\ D!Side(s, "LONG") \subseteq D!Voters(s) /\ D!Side(s, "SHORT") \subseteq D!Voters(s)
               /\ \A i \in D!Voters(s) :
                    /\ s[i] \in Votes /\ s[i].direction \in {"LONG", "SHORT"}
                    /\ r[i].direction = D!Opposite(s[i].direction)
                    /\ r[i].strategy = s[i].strategy /\ D!Score(r[i]) = D!Score(s[i])
  <1> DEFINE r == Reversed(s)
  <1>1. DOMAIN s = 1 .. Len(s) /\ Len(s) \in Nat /\ \A i \in DOMAIN s : s[i] \in Votes
    OBVIOUS
  <1>2. DOMAIN r = DOMAIN s /\ \A i \in DOMAIN s : r[i] = [s[i] EXCEPT !.direction = D!Opposite(@)]
    BY DEF Reversed
  <1>3. \A i \in DOMAIN s : /\ s[i].direction \in {"LONG", "SHORT", "NEUTRAL"}
                            /\ r[i].direction = D!Opposite(s[i].direction)
                            /\ r[i].strategy = s[i].strategy /\ r[i].score = s[i].score
    <2> TAKE i \in DOMAIN s
    <2>1. s[i] \in Signals
      BY <1>1, ChartsAndVotes
    <2>2. s[i].direction \in {"LONG", "SHORT", "NEUTRAL"}
      BY <1>1, VoteTyped
    <2>3. PICK v \in Signals : v = s[i]
      BY <2>1
    <2>4. r[i] = [v EXCEPT !.direction = D!Opposite(v.direction)]
      BY <1>2, <2>3
    <2>5. r[i].direction = D!Opposite(v.direction) /\ r[i].strategy = v.strategy /\ r[i].score = v.score
      BY <2>4 DEF Signals
    <2>. QED BY <2>2, <2>3, <2>5
  <1> HIDE DEF r
  <1>4. \A i \in DOMAIN s : /\ r[i].direction = "NEUTRAL" <=> s[i].direction = "NEUTRAL"
                            /\ r[i].direction = "LONG" <=> s[i].direction = "SHORT"
                            /\ r[i].direction = "SHORT" <=> s[i].direction = "LONG"
    BY <1>3 DEF D!Opposite
  <1>5. /\ D!Voters(r) = D!Voters(s)
        /\ D!Side(r, "LONG") = D!Side(s, "SHORT") /\ D!Side(r, "SHORT") = D!Side(s, "LONG")
    BY <1>2, <1>4 DEF D!Voters, D!Side
  <1>6. D!Voters(s) \subseteq 1 .. Len(s) /\ IsFiniteSet(1 .. Len(s))
    BY <1>1, FS_Interval DEF D!Voters
  <1>7. IsFiniteSet(D!Voters(s))
    BY <1>6, FS_Subset
  <1>8. D!Side(s, "LONG") \subseteq D!Voters(s) /\ D!Side(s, "SHORT") \subseteq D!Voters(s)
    BY DEF D!Side, D!Voters
  <1>9. \A i \in D!Voters(s) : /\ s[i] \in Votes /\ s[i].direction \in {"LONG", "SHORT"}
                               /\ r[i].direction = D!Opposite(s[i].direction)
                               /\ r[i].strategy = s[i].strategy /\ r[i].score = s[i].score
    BY <1>1, <1>3 DEF D!Voters
  <1>10. \A i \in D!Voters(s) : D!Score(r[i]) = D!Score(s[i])
    BY <1>9 DEF D!Score
  <1>. QED BY <1>5, <1>7, <1>8, <1>9, <1>10 DEF r

(* Turned over: the verdict names the other side, all else being equal.      *)
Turned(c) == [c EXCEPT !.direction = D!Opposite(@)]

LEMMA VerdictTurned ==
    ASSUME NEW d, NEW score, NEW agreement, NEW n
    PROVE  Turned(D!Unanimous(d, score, agreement, n)) = D!Unanimous(D!Opposite(d), score, agreement, n)
  BY DEF Turned, D!Unanimous

LEMMA OtherSides ==
    D!Opposite("LONG") = "SHORT" /\ D!Opposite("SHORT") = "LONG" /\ D!Opposite("NEUTRAL") = "NEUTRAL"
  BY DEF D!Opposite

LEMMA MajorityMirrored ==
    ASSUME NEW s \in Seq(Votes)
    PROVE  D!MajorityVoting(Reversed(s)) = Turned(D!MajorityVoting(s))
  <1> DEFINE r == Reversed(s)
             total == D!Cardinality(D!Voters(s))
             n(y) == [d \in {"LONG", "SHORT"} |-> D!Cardinality(D!Side(y, d))]
             of(y) == [i \in D!Voters(y) |-> D!Score(y[i])]
             side(y) == IF n(y)["LONG"] > n(y)["SHORT"] THEN "LONG" ELSE "SHORT"
             verdict(y) == D!Unanimous(side(y),
                             (100 * D!AddUp(of(y), D!Side(y, side(y)))) \div n(y)[side(y)],
                             (100 * n(y)[side(y)]) \div total, total)
  <1>1. /\ IsFiniteSet(D!Voters(s)) /\ D!Voters(r) = D!Voters(s)
        /\ D!Side(r, "LONG") = D!Side(s, "SHORT") /\ D!Side(r, "SHORT") = D!Side(s, "LONG")
        /\ D!Side(s, "LONG") \subseteq D!Voters(s) /\ D!Side(s, "SHORT") \subseteq D!Voters(s)
        /\ \A i \in D!Voters(s) : D!Score(r[i]) = D!Score(s[i])
    BY TurnedOver
  <1>2. of(r) = of(s)
    BY <1>1
  <1>3. n(r)["LONG"] = n(s)["SHORT"] /\ n(r)["SHORT"] = n(s)["LONG"]
    BY <1>1
  <1>4. n(s)["LONG"] \in Nat /\ n(s)["SHORT"] \in Nat
    BY <1>1, FS_Subset, FS_CardinalityType, SameSize
  <1>5. /\ D!MajorityVoting(s) = CASE total = 0 -> D!Nobody
                                   [] total # 0 /\ n(s)["LONG"] = n(s)["SHORT"]
                                        -> D!Unanimous("NEUTRAL", 0, 50, total)
                                   [] OTHER -> verdict(s)
        /\ D!MajorityVoting(r) = CASE total = 0 -> D!Nobody
                                   [] total # 0 /\ n(r)["LONG"] = n(r)["SHORT"]
                                        -> D!Unanimous("NEUTRAL", 0, 50, total)
                                   [] OTHER -> verdict(r)
    BY <1>1, Zenon DEF D!MajorityVoting
  <1> HIDE DEF r, total, n, of
  <1>6. CASE total = 0
    <2>1. D!MajorityVoting(s) = D!Nobody /\ D!MajorityVoting(r) = D!Nobody
      BY <1>5, <1>6
    <2>2. Turned(D!Nobody) = D!Nobody
      BY VerdictTurned, OtherSides DEF D!Nobody
    <2>. QED BY <2>1, <2>2 DEF r
  <1>7. CASE total # 0 /\ n(s)["LONG"] = n(s)["SHORT"]
    <2>1. /\ D!MajorityVoting(s) = D!Unanimous("NEUTRAL", 0, 50, total)
          /\ D!MajorityVoting(r) = D!Unanimous("NEUTRAL", 0, 50, total)
      BY <1>3, <1>5, <1>7
    <2>. QED BY <2>1, VerdictTurned, OtherSides DEF r
  <1>8. CASE total # 0 /\ n(s)["LONG"] # n(s)["SHORT"]
    <2>1. D!MajorityVoting(s) = verdict(s) /\ D!MajorityVoting(r) = verdict(r)
      BY <1>3, <1>5, <1>8
    <2>2. side(r) = D!Opposite(side(s)) /\ side(s) \in {"LONG", "SHORT"}
      BY <1>3, <1>4, <1>8, OtherSides
    <2>3. n(r)[side(r)] = n(s)[side(s)] /\ D!Side(r, side(r)) = D!Side(s, side(s))
      BY <1>1, <1>3, <2>2, OtherSides
    <2> HIDE DEF side
    <2>4. verdict(r) = Turned(verdict(s))
      BY <1>2, <2>2, <2>3, VerdictTurned
    <2>. QED BY <2>1, <2>4 DEF r
  <1>. QED BY <1>6, <1>7, <1>8

(* The stakes of the votes turned over, and the two sides of the scale.      *)
LEMMA StakesTurned ==
    ASSUME NEW s \in Seq(Votes), NEW weight \in Weights
    PROVE  /\ D!Stake(Reversed(s), weight) = D!Stake(s, weight)
           /\ \A i \in D!Voters(s) : D!Stake(s, weight)[i] \in Nat
           /\ Mass(Reversed(s), weight, "LONG") = Mass(s, weight, "SHORT")
           /\ Mass(Reversed(s), weight, "SHORT") = Mass(s, weight, "LONG")
           /\ Mass(s, weight, "LONG") \in Int /\ Mass(s, weight, "SHORT") \in Int
           /\ Scale(Reversed(s), weight) = Scale(s, weight) /\ Scale(s, weight) \in Int
  <1> DEFINE r == Reversed(s)
  <1>1. /\ IsFiniteSet(D!Voters(s)) /\ D!Voters(r) = D!Voters(s)
        /\ D!Side(r, "LONG") = D!Side(s, "SHORT") /\ D!Side(r, "SHORT") = D!Side(s, "LONG")
        /\ D!Side(s, "LONG") \subseteq D!Voters(s) /\ D!Side(s, "SHORT") \subseteq D!Voters(s)
        /\ \A i \in D!Voters(s) : s[i] \in Votes /\ r[i].strategy = s[i].strategy
    BY TurnedOver
  <1> HIDE DEF r
  <1>2. D!Stake(r, weight) = D!Stake(s, weight)
    BY <1>1 DEF D!Stake
  <1>3. \A i \in D!Voters(s) : D!Stake(s, weight)[i] \in Nat
    <2> TAKE i \in D!Voters(s)
    <2>1. s[i].strategy \in DOMAIN Panel.weight
      BY <1>1, VoteTyped
    <2>2. weight[s[i].strategy] \in Nat
      BY <2>1 DEF Weights
    <2>. QED BY <2>2 DEF D!Stake
  <1> DEFINE f == D!Stake(s, weight)
  <1>4. Mass(r, weight, "LONG") = Mass(s, weight, "SHORT") /\ Mass(r, weight, "SHORT") = Mass(s, weight, "LONG")
    BY <1>1, <1>2 DEF Mass
  <1>5. ASSUME NEW S \in SUBSET D!Voters(s) PROVE SumFunctionOnSet(f, S) \in Int
    <2>1. IsFiniteSet(S) /\ IntsOn(f, S)
      BY <1>1, <1>3, FS_Subset DEF IntsOn
    <2> HIDE DEF f
    <2>. QED BY <2>1, SumIsInt
  <1>6. Mass(s, weight, "LONG") \in Int /\ Mass(s, weight, "SHORT") \in Int /\ Scale(s, weight) \in Int
    BY <1>1, <1>5 DEF Mass, Scale
  <1>7. Scale(r, weight) = Scale(s, weight)
    BY <1>1, <1>2 DEF Scale
  <1>. QED BY <1>2, <1>3, <1>4, <1>6, <1>7 DEF r

LEMMA VotingMirrored ==
    ASSUME NEW s \in Seq(Votes), NEW weight \in Weights
    PROVE  D!WeightedVoting(Reversed(s), weight) = Turned(D!WeightedVoting(s, weight))
  <1> DEFINE r == Reversed(s)
             of(y) == [i \in D!Voters(y) |-> D!Score(y[i]) * D!Stake(y, weight)[i]]
             mass(y) == [d \in {"LONG", "SHORT"} |-> D!AddUp(D!Stake(y, weight), D!Side(y, d))]
             total(y) == mass(y)["LONG"] + mass(y)["SHORT"]
             side(y) == IF mass(y)["LONG"] > mass(y)["SHORT"] THEN "LONG" ELSE "SHORT"
             voters == D!Cardinality(D!Voters(s))
             verdict(y) == D!Unanimous(side(y),
                             (100 * D!AddUp(of(y), D!Side(y, side(y)))) \div mass(y)[side(y)],
                             (100 * mass(y)[side(y)]) \div total(y), voters)
             tied(y) == total(y) =< 0 \/ mass(y)["LONG"] = mass(y)["SHORT"]
  <1>1. /\ D!Voters(r) = D!Voters(s)
        /\ D!Side(r, "LONG") = D!Side(s, "SHORT") /\ D!Side(r, "SHORT") = D!Side(s, "LONG")
        /\ \A i \in D!Voters(s) : D!Score(r[i]) = D!Score(s[i])
    BY TurnedOver
  <1>2. D!Stake(r, weight) = D!Stake(s, weight)
    BY StakesTurned
  <1>3. of(r) = of(s)
    BY <1>1, <1>2
  <1>4. mass(s)["LONG"] \in Int /\ mass(s)["SHORT"] \in Int
    BY StakesTurned, SameSum DEF Mass
  <1>5. mass(r)["LONG"] = mass(s)["SHORT"] /\ mass(r)["SHORT"] = mass(s)["LONG"]
    BY <1>1, <1>2
  <1>v. D!Voters(r) = D!Voters(s)
    BY <1>1
  <1>w. \A y : D!Voters(y) = D!Voters(s) =>
            D!WeightedVoting(y, weight) = IF tied(y) THEN D!Nobody ELSE verdict(y)
    BY ZenonT(60) DEF D!WeightedVoting
  <1>6. \A y \in {r, s} : D!WeightedVoting(y, weight) = IF tied(y) THEN D!Nobody ELSE verdict(y)
    BY <1>v, <1>w
  <1> HIDE DEF r, mass, of, voters
  <1>7. total(r) = total(s)
    BY <1>4, <1>5
  <1>8. CASE tied(s)
    <2>1. tied(r)
      BY <1>4, <1>5, <1>7, <1>8
    <2>2. D!WeightedVoting(s, weight) = D!Nobody /\ D!WeightedVoting(r, weight) = D!Nobody
      BY <1>6, <1>8, <2>1
    <2>3. Turned(D!Nobody) = D!Nobody
      BY VerdictTurned, OtherSides DEF D!Nobody
    <2>. QED BY <2>2, <2>3 DEF r
  <1>9. CASE ~tied(s)
    <2>1. ~tied(r)
      BY <1>4, <1>5, <1>7, <1>9
    <2>2. D!WeightedVoting(s, weight) = verdict(s) /\ D!WeightedVoting(r, weight) = verdict(r)
      BY <1>6, <1>9, <2>1
    <2>3. side(r) = D!Opposite(side(s)) /\ side(s) \in {"LONG", "SHORT"}
      BY <1>4, <1>5, <1>9, OtherSides
    <2>4. mass(r)[side(r)] = mass(s)[side(s)] /\ D!Side(r, side(r)) = D!Side(s, side(s))
      BY <1>1, <1>5, <2>3, OtherSides
    <2> HIDE DEF side, total
    <2>5. verdict(r) = Turned(verdict(s))
      BY <1>3, <1>7, <2>3, <2>4, VerdictTurned
    <2>. QED BY <2>2, <2>5 DEF r
  <1>. QED BY <1>8, <1>9

(* The balance tips as far to the other side.                                *)
LEMMA BalanceTurned ==
    ASSUME NEW s \in Seq(Votes), NEW weight \in Weights
    PROVE  Balance(s, weight) \in Int /\ Balance(Reversed(s), weight) = -Balance(s, weight)
  <1> DEFINE r == Reversed(s)
             f == D!Signed(s, weight)
             g == D!Signed(r, weight)
             h == D!Stake(s, weight)
             S == D!Voters(s)
  <1>1. /\ IsFiniteSet(S) /\ D!Voters(r) = S
        /\ \A i \in S : /\ s[i] \in Votes /\ s[i].direction \in {"LONG", "SHORT"}
                        /\ r[i].direction = D!Opposite(s[i].direction)
                        /\ D!Score(r[i]) = D!Score(s[i])
    BY TurnedOver
  <1>2. D!Stake(r, weight) = h /\ \A i \in S : h[i] \in Nat
    BY StakesTurned
  <1>3. \A i \in S : /\ f[i] = D!Sign(s[i].direction) * D!Score(s[i]) * h[i]
                     /\ g[i] = D!Sign(r[i].direction) * D!Score(r[i]) * h[i]
    BY <1>1, <1>2 DEF D!Signed
  <1> HIDE DEF r, f, g, h, S
  <1>4. D!Sign("LONG") = 1 /\ D!Sign("SHORT") = -1
    BY DEF D!Sign
  <1>5. \A p, q \in Nat : /\ 1 * p * q \in Int /\ -1 * p * q \in Int
                          /\ -1 * p * q = -(1 * p * q) /\ 1 * p * q = -(-1 * p * q)
    <2> TAKE p, q \in Nat
    <2>1. p * q \in Int /\ 1 * p * q = p * q /\ -1 * p * q = -(p * q)
      OBVIOUS
    <2> DEFINE m == p * q
    <2> HIDE DEF m
    <2>2. m \in Int => -m \in Int /\ -(-m) = m
      OBVIOUS
    <2>. QED BY <2>1, <2>2 DEF m
  <1>6. \A i \in S : f[i] \in Int /\ g[i] \in Int /\ g[i] = -f[i]
    <2> TAKE i \in S
    <2>1. PICK p \in Nat : p = D!Score(s[i])
      BY <1>1, ScoreIsNat
    <2>2. PICK q \in Nat : q = h[i]
      BY <1>2
    <2>3. CASE s[i].direction = "LONG"
      <3>1. f[i] = 1 * p * q /\ g[i] = -1 * p * q
        BY <1>1, <1>3, <1>4, <2>1, <2>2, <2>3, OtherSides
      <3>. QED BY <1>5, <3>1
    <2>4. CASE s[i].direction = "SHORT"
      <3>1. f[i] = -1 * p * q /\ g[i] = 1 * p * q
        BY <1>1, <1>3, <1>4, <2>1, <2>2, <2>4, OtherSides
      <3>. QED BY <1>5, <3>1
    <2>. QED BY <1>1, <2>3, <2>4
  <1>7. IntsOn(f, S) /\ IntsOn(g, S) /\ OppositeOn(f, g, S)
    BY <1>6 DEF IntsOn, OppositeOn
  <1>8. SumFunctionOnSet(f, S) \in Int /\ SumFunctionOnSet(g, S) = -SumFunctionOnSet(f, S)
    BY <1>1, <1>7, SumIsInt, SumOfOpposites
  <1>. QED BY <1>1, <1>8 DEF Balance, f, g, r, S

LEMMA AverageMirrored ==
    ASSUME NEW s \in Seq(Votes), NEW weight \in Weights
    PROVE  D!WeightedAverage(Reversed(s), weight) = Turned(D!WeightedAverage(s, weight))
  <1> DEFINE r == Reversed(s)
             total == Scale(s, weight)
             value(y) == Balance(y, weight)
             side(y) == CASE value(y) > 0 -> "LONG" [] value(y) < 0 -> "SHORT" [] OTHER -> "NEUTRAL"
             n == D!Cardinality(D!Voters(s))
             w == D!Stake(s, weight)
             verdict(y) == D!Unanimous(side(y), (100 * D!Magnitude(value(y))) \div total,
                             (100 * D!AddUp(w, D!Side(y, side(y)))) \div total, n)
  <1>1. /\ D!Voters(r) = D!Voters(s)
        /\ D!Side(r, "LONG") = D!Side(s, "SHORT") /\ D!Side(r, "SHORT") = D!Side(s, "LONG")
    BY TurnedOver
  <1>2. D!Stake(r, weight) = w /\ Scale(r, weight) = total /\ total \in Int
    BY StakesTurned
  <1>3. value(s) \in Int /\ value(r) = -value(s)
    BY BalanceTurned
  <1>4. \A y : /\ D!AddUp(D!Stake(y, weight), D!Voters(y)) = Scale(y, weight)
               /\ D!AddUp(D!Signed(y, weight), D!Voters(y)) = value(y)
    BY SameSum DEF Scale, Balance
  <1>5. \A y \in {r, s} :
          D!WeightedAverage(y, weight) = CASE total =< 0 -> D!Nobody
                                           [] total > 0 /\ value(y) = 0 -> D!Unanimous("NEUTRAL", 0, 50, n)
                                           [] OTHER -> verdict(y)
    <2> TAKE y \in {r, s}
    <2>1. D!Stake(y, weight) = w /\ Scale(y, weight) = total /\ D!Voters(y) = D!Voters(s)
      BY <1>1, <1>2
    <2>2. /\ D!AddUp(w, D!Voters(s)) = total
          /\ D!AddUp(D!Signed(y, weight), D!Voters(s)) = value(y)
      BY <1>4, <2>1
    <2> HIDE DEF w, total, value
    <2>. QED BY <2>1, <2>2, Zenon DEF D!WeightedAverage
  <1> HIDE DEF r, total, value, n, w
  <1>6. CASE total <= 0
    <2>1. D!WeightedAverage(s, weight) = D!Nobody /\ D!WeightedAverage(r, weight) = D!Nobody
      BY <1>2, <1>5, <1>6
    <2>2. Turned(D!Nobody) = D!Nobody
      BY VerdictTurned, OtherSides DEF D!Nobody
    <2>. QED BY <2>1, <2>2 DEF r
  <1>7. CASE total > 0 /\ value(s) = 0
    <2>1. value(r) = 0 /\ ~(total <= 0)
      <3>1. value(r) \in Int /\ value(s) + value(r) = 0
        BY <1>3
      <3>2. ~(total <= 0)
        BY <1>2, <1>7
      <3>. QED BY <1>7, <3>1, <3>2
    <2>2. /\ D!WeightedAverage(s, weight) = D!Unanimous("NEUTRAL", 0, 50, n)
          /\ D!WeightedAverage(r, weight) = D!Unanimous("NEUTRAL", 0, 50, n)
      BY <1>5, <1>7, <2>1
    <2>. QED BY <2>2, VerdictTurned, OtherSides DEF r
  <1>8. CASE total > 0 /\ value(s) # 0
    <2>1. value(r) # 0 /\ ~(total <= 0)
      BY <1>2, <1>3, <1>8
    <2>2. D!WeightedAverage(s, weight) = verdict(s) /\ D!WeightedAverage(r, weight) = verdict(r)
      BY <1>5, <1>8, <2>1
    <2>3. side(r) = D!Opposite(side(s)) /\ side(s) \in {"LONG", "SHORT"}
      BY <1>3, <1>8, <2>1, OtherSides
    <2>4. D!Side(r, side(r)) = D!Side(s, side(s))
      BY <1>1, <2>3, OtherSides
    <2>5. D!Magnitude(value(r)) = D!Magnitude(value(s))
      BY <1>3 DEF D!Magnitude
    <2> HIDE DEF side
    <2>6. verdict(r) = Turned(verdict(s))
      BY <2>3, <2>4, <2>5, VerdictTurned
    <2>. QED BY <2>2, <2>6 DEF r
  <1>. QED BY <1>2, <1>6, <1>7, <1>8

LEMMA ConsensusMirrored ==
    ASSUME NEW s \in Seq(Votes), NEW m \in D!Methods
    PROVE  D!Consensus(m, Reversed(s), Panel) = Turned(D!Consensus(m, s, Panel))
  <1>1. CASE m = "majority_voting"
    <2>1. \A y : D!Consensus(m, y, Panel) = D!MajorityVoting(y)
      BY <1>1 DEF D!Consensus
    <2>. QED BY <2>1, MajorityMirrored
  <1>2. CASE m = "weighted_voting"
    <2>1. \A y : D!Consensus(m, y, Panel) = D!WeightedVoting(y, Panel.weight)
      BY <1>2 DEF D!Consensus
    <2>. QED BY <2>1, VotingMirrored, WeightsTyped
  <1>3. CASE m = "weighted_average"
    <2>1. \A y : D!Consensus(m, y, Panel) = D!WeightedAverage(y, Panel.weight)
      BY <1>3 DEF D!Consensus
    <2>. QED BY <2>1, AverageMirrored, WeightsTyped
  <1>4. CASE m = "dynamic_weighting"
    <2> DEFINE weight == D!DynamicWeights(Panel.weight, Panel.performance)
    <2>1. \A y : D!Consensus(m, y, Panel) = D!WeightedAverage(y, weight)
      BY <1>4 DEF D!Consensus
    <2>2. weight \in Weights
      BY WeightsTyped
    <2> HIDE DEF weight
    <2>. QED BY <2>1, <2>2, AverageMirrored
  <1>5. CASE m = "regime_weighting"
    <2> DEFINE weight == D!RegimeWeights(Panel.weight, Panel.multipliers, Panel.regime)
    <2>1. \A y : D!Consensus(m, y, Panel) = D!WeightedAverage(y, weight)
      BY <1>5 DEF D!Consensus
    <2>2. weight \in Weights
      BY WeightsTyped
    <2> HIDE DEF weight
    <2>. QED BY <2>1, <2>2, AverageMirrored
  <1>. QED BY <1>1, <1>2, <1>3, <1>4, <1>5 DEF D!Methods

(* Buyers and sellers are treated alike: with every signal turned over, each *)
(* of the five methods names the other side with the same score, the same    *)
(* agreement and the same number of voters (consensus/algorithms.py:42-204). *)
(* For every list of signals and non-negative weights.                       *)
THEOREM VotesMirror == StudySpec => []MirroredVotes
  <1>1. StudyInit => Studied
    BY StudiedInit
  <1>2. Studied /\ [StudyNext]_study => Studied'
    BY StudiedNext
  <1>3. Studied => MirroredVotes
    BY ConsensusMirrored DEF Studied, MirroredVotes, Turned, Window
  <1>. QED BY <1>1, <1>2, <1>3, PTL DEF StudySpec

-----------------------------------------------------------------------------
(* A tape: the buckets are consecutive and leave no trade out.               *)

SizesOf(trades, side) == [i \in DOMAIN trades |-> IF trades[i].side = side THEN trades[i].size ELSE 0]
DeltasOf(trades) == [i \in DOMAIN trades |-> Signed(trades[i])]

LEMMA TapeTyped ==
    ASSUME NEW t \in Seq(Prints)
    PROVE  /\ Len(t) \in Nat /\ DOMAIN t = 1 .. Len(t) /\ IsFiniteSet(DOMAIN t)
           /\ IntsOn(DeltasOf(t), DOMAIN t)
           /\ IntsOn(SizesOf(t, "BUY"), DOMAIN t) /\ IntsOn(SizesOf(t, "SELL"), DOMAIN t)
           /\ DifferenceOn(DeltasOf(t), SizesOf(t, "BUY"), SizesOf(t, "SELL"), DOMAIN t)
  <1>1. Len(t) \in Nat /\ DOMAIN t = 1 .. Len(t) /\ \A i \in DOMAIN t : t[i] \in Prints
    OBVIOUS
  <1>2. IsFiniteSet(DOMAIN t)
    BY <1>1, FS_Interval
  <1>3. \A i \in DOMAIN t : t[i].size \in Nat /\ t[i].side \in {"BUY", "SELL", "UNKNOWN"}
    BY <1>1 DEF Prints
  <1>4. \A i \in DOMAIN t : DeltasOf(t)[i] \in Int
    BY <1>3 DEF DeltasOf, Signed
  <1>5. \A i \in DOMAIN t : SizesOf(t, "BUY")[i] \in Int /\ SizesOf(t, "SELL")[i] \in Int
    BY <1>3 DEF SizesOf
  <1>6. \A i \in DOMAIN t : DeltasOf(t)[i] = SizesOf(t, "BUY")[i] - SizesOf(t, "SELL")[i]
    <2> TAKE i \in DOMAIN t
    <2>1. PICK z \in Nat : z = t[i].size
      BY <1>3
    <2>2. /\ DeltasOf(t)[i] = IF t[i].side = "BUY" THEN z ELSE IF t[i].side = "SELL" THEN -z ELSE 0
          /\ SizesOf(t, "BUY")[i] = IF t[i].side = "BUY" THEN z ELSE 0
          /\ SizesOf(t, "SELL")[i] = IF t[i].side = "SELL" THEN z ELSE 0
      BY <2>1 DEF DeltasOf, SizesOf, Signed
    <2>. QED BY <2>2
  <1>. QED BY <1>1, <1>2, <1>4, <1>5, <1>6 DEF IntsOn, DifferenceOn

(* How far the first b buckets reach.                                        *)
Reach(t, b, buckets) == IF b < buckets THEN b * (Len(t) \div buckets) ELSE Len(t)

LEMMA BucketsReach ==
    ASSUME NEW t \in Seq(Prints), NEW buckets \in Nat \ {0}, NEW b \in Nat, b < buckets
    PROVE  /\ Reach(t, b, buckets) \in Nat /\ Reach(t, b + 1, buckets) \in Nat
           /\ Reach(t, b, buckets) <= Reach(t, b + 1, buckets) /\ Reach(t, b + 1, buckets) <= Len(t)
           /\ Bucket(t, b + 1, buckets) = (Reach(t, b, buckets) + 1) .. Reach(t, b + 1, buckets)
  <1>1. PICK n \in Nat : n = Len(t)
    OBVIOUS
  <1>2. PICK per \in Nat : per = n \div buckets
    OBVIOUS
  <1>3. buckets * per <= n
    <2>1. n = buckets * (n \div buckets) + (n % buckets) /\ n % buckets \in Nat
      OBVIOUS
    <2>. QED BY <1>2, <2>1
  <1>4. b * per \in Nat /\ (b + 1) * per = b * per + per
    BY <1>2
  <1>5. (b + 1) * per <= buckets * per
    <2>1. PICK k \in Nat : buckets = b + 1 + k
      <3>1. buckets - (b + 1) \in Nat /\ buckets = b + 1 + (buckets - (b + 1))
        OBVIOUS
      <3>. QED BY <3>1
    <2>2. buckets * per = (b + 1) * per + k * per /\ k * per \in Nat
      BY <1>2, <2>1
    <2>. QED BY <1>2, <1>4, <2>2
  <1> DEFINE low == b * per
  <1>6. Reach(t, b, buckets) = low
    BY <1>1, <1>2 DEF Reach
  <1>7. Reach(t, b + 1, buckets) = IF b + 1 < buckets THEN low + per ELSE n
    BY <1>1, <1>2, <1>4 DEF Reach
  <1>8. low \in Nat /\ low + per <= n
    BY <1>2, <1>3, <1>4, <1>5
  <1>9. Bucket(t, b + 1, buckets) = (low + 1) .. Reach(t, b + 1, buckets)
    <2>1. (b + 1) - 1 = b
      OBVIOUS
    <2>. QED BY <1>1, <1>2, <2>1 DEF Bucket, Reach
  <1> HIDE DEF low
  <1>. QED BY <1>1, <1>2, <1>6, <1>7, <1>8, <1>9

LEMMA CvdIsTheDelta ==
    ASSUME NEW t \in Seq(Prints), NEW buckets \in Nat \ {0}
    PROVE  LET d == [b \in 1 .. buckets |-> BucketDelta(t, b, buckets)]
           IN  AddUp(d, 1 .. buckets) = SizeOf(t, "BUY") - SizeOf(t, "SELL")
  <1> DEFINE d == [b \in 1 .. buckets |-> BucketDelta(t, b, buckets)]
             f == DeltasOf(t)
             Agrees(b) == b <= buckets =>
                /\ SumFunctionOnSet(d, 1 .. b) = SumFunctionOnSet(f, 1 .. Reach(t, b, buckets))
             T == {b \in Nat : Agrees(b)}
  <1>1. IsFiniteSet(DOMAIN t) /\ DOMAIN t = 1 .. Len(t) /\ Len(t) \in Nat /\ IntsOn(f, DOMAIN t)
    BY TapeTyped
  <1>2. \A S \in SUBSET DOMAIN t : IsFiniteSet(S) /\ IntsOn(f, S)
    BY <1>1, FS_Subset DEF IntsOn
  <1>3. \A b \in 1 .. buckets : d[b] = SumFunctionOnSet(f, Bucket(t, b, buckets))
    BY DEF BucketDelta, AddUp, DeltasOf
  <1>4. \A b \in Nat : b < buckets => Bucket(t, b + 1, buckets) \in SUBSET DOMAIN t
    <2> TAKE b \in Nat
    <2> HAVE b < buckets
    <2> DEFINE low == Reach(t, b, buckets)
               high == Reach(t, b + 1, buckets)
    <2>1. low \in Nat /\ high \in Nat /\ high <= Len(t) /\ Bucket(t, b + 1, buckets) = (low + 1) .. high
      <3>1. low \in Nat /\ high \in Nat
        BY BucketsReach
      <3>2. high <= Len(t)
        BY BucketsReach
      <3>3. Bucket(t, b + 1, buckets) = (low + 1) .. high
        BY BucketsReach
      <3>. QED BY <3>1, <3>2, <3>3
    <2> HIDE DEF low, high
    <2>. QED BY <1>1, <2>1
  <1>5. \A b \in 1 .. buckets : d[b] \in Int
    <2> TAKE b \in 1 .. buckets
    <2>1. b - 1 \in Nat /\ b - 1 < buckets /\ (b - 1) + 1 = b
      OBVIOUS
    <2>2. Bucket(t, b, buckets) \in SUBSET DOMAIN t
      BY <1>4, <2>1
    <2> DEFINE S == Bucket(t, b, buckets)
    <2>3. IsFiniteSet(S) /\ IntsOn(f, S)
      BY <1>2, <2>2
    <2> HIDE DEF S, f
    <2>4. SumFunctionOnSet(f, S) \in Int
      BY <2>3, SumIsInt
    <2> HIDE DEF d
    <2>. QED BY <1>3, <2>4 DEF S
  <1> HIDE DEF d, f
  <1>6. 0 \in T
    <2>1. 1 .. 0 = {}
      OBVIOUS
    <2>2. Reach(t, 0, buckets) = 0
      BY <1>1 DEF Reach
    <2>. QED BY <2>1, <2>2, SumOfNothing
  <1>7. \A b \in Nat : b \in T => b + 1 \in T
    <2> SUFFICES ASSUME NEW b \in Nat, Agrees(b), b < buckets PROVE Agrees(b + 1)
      OBVIOUS
    <2> DEFINE low == Reach(t, b, buckets)
               high == Reach(t, b + 1, buckets)
               S == Bucket(t, b + 1, buckets)
    <2>1. low \in Nat /\ high \in Nat /\ low <= high /\ high <= Len(t) /\ S = (low + 1) .. high
      BY BucketsReach
    <2> HIDE DEF low, high, S
    <2>2. 1 .. high = 1 .. low \cup S /\ 1 .. low \cap S = {} /\ 1 .. high \subseteq DOMAIN t
      BY <1>1, <2>1
    <2>3. /\ IsFiniteSet(1 .. low) /\ IsFiniteSet(S) /\ IntsOn(f, 1 .. low \cup S)
          /\ IntsOn(f, S) /\ IntsOn(f, 1 .. low)
      BY <1>2, <2>2
    <2> DEFINE R == 1 .. low
    <2>13. IsFiniteSet(R) /\ IsFiniteSet(S) /\ IntsOn(f, R \cup S) /\ R \cap S = {}
      BY <2>2, <2>3
    <2> HIDE DEF R
    <2>14. SumFunctionOnSet(f, R \cup S) = SumFunctionOnSet(f, R) + SumFunctionOnSet(f, S)
      BY <2>13, SumOfParts
    <2>4. SumFunctionOnSet(f, 1 .. high) = SumFunctionOnSet(f, 1 .. low) + SumFunctionOnSet(f, S)
      BY <2>2, <2>14 DEF R
    <2>5. PICK x \in Int : x = SumFunctionOnSet(f, 1 .. low)
      BY <2>3, SumIsInt
    <2>6. PICK y \in Int : y = d[b + 1]
      BY <1>5
    <2>7. y = SumFunctionOnSet(f, S)
      BY <1>3, <2>6 DEF S
    <2>8. SumsTo(d, 1 .. b, x)
      BY <2>5 DEF SumsTo, low
    <2>9. IsFiniteSet(1 .. b) /\ b + 1 \notin 1 .. b /\ 1 .. (b + 1) = 1 .. b \cup {b + 1}
      <3>1. IsFiniteSet(1 .. b)
        BY FS_Interval
      <3>2. b + 1 \notin 1 .. b /\ 1 .. (b + 1) = 1 .. b \cup {b + 1}
        OBVIOUS
      <3>. QED BY <3>1, <3>2
    <2>10. AgreeOn(d, d, 1 .. b) /\ IntsOn(d, 1 .. b \cup {b + 1})
      BY <1>5, <2>9 DEF AgreeOn, IntsOn
    <2>11. SumsTo(d, 1 .. b \cup {b + 1}, x + y)
      BY <2>6, <2>8, <2>9, <2>10, SumWithOneMore
    <2>12. SumFunctionOnSet(d, 1 .. (b + 1)) = SumFunctionOnSet(f, 1 .. high)
      BY <2>4, <2>5, <2>7, <2>9, <2>11 DEF SumsTo
    <2>. QED BY <2>12 DEF high
  <1>8. Nat \subseteq T
    <2> HIDE DEF T
    <2>. QED BY <1>6, <1>7, CountedUp
  <1>9. SumFunctionOnSet(d, 1 .. buckets) = SumFunctionOnSet(f, DOMAIN t)
    <2>1. Agrees(buckets)
      BY <1>8
    <2>2. Reach(t, buckets, buckets) = Len(t)
      BY DEF Reach
    <2>. QED BY <1>1, <2>1, <2>2
  <1>10. SumFunctionOnSet(f, DOMAIN t) =
           SumFunctionOnSet(SizesOf(t, "BUY"), DOMAIN t) - SumFunctionOnSet(SizesOf(t, "SELL"), DOMAIN t)
    BY TapeTyped, SumOfDifferences DEF f
  <1>11. \A side : SizeOf(t, side) = SumFunctionOnSet(SizesOf(t, side), DOMAIN t)
    BY DEF SizeOf, SizesOf, AddUp
  <1>. QED BY <1>9, <1>10, <1>11 DEF AddUp, d

(* Every trade of the tape is in exactly one bucket, however many trades are *)
(* left over: the last point of the cumulative delta is the delta that the   *)
(* same reading reports (analytics/indicators/orderflow.py:91-109).         *)
THEOREM NoTradeIsLost == StudySpec => []CvdEndsAtDelta
  <1>1. StudyInit => Studied
    BY StudiedInit
  <1>2. Studied /\ [StudyNext]_study => Studied'
    BY StudiedNext
  <1>3. Studied => CvdEndsAtDelta
    <2> SUFFICES ASSUME Studied, study.kind = "tape", AnalyzeOrderFlow(Window, Buckets) # None
                 PROVE  AnalyzeOrderFlow(Window, Buckets).cvd[Buckets] = AnalyzeOrderFlow(Window, Buckets).delta
      BY DEF CvdEndsAtDelta
    <2> DEFINE d == [b \in 1 .. Buckets |-> BucketDelta(Window, b, Buckets)]
    <2>1. Window \in Seq(Prints) /\ Buckets \in Nat \ {0}
      BY LibraryParameters DEF Studied
    <2>2. AddUp(d, 1 .. Buckets) = SizeOf(Window, "BUY") - SizeOf(Window, "SELL")
      BY <2>1, CvdIsTheDelta
    <2>3. AnalyzeOrderFlow(Window, Buckets).delta = SizeOf(Window, "BUY") - SizeOf(Window, "SELL")
      BY DEF AnalyzeOrderFlow
    <2>4. AnalyzeOrderFlow(Window, Buckets).cvd = [b \in 1 .. Buckets |-> AddUp(d, 1 .. b)]
      BY DEF AnalyzeOrderFlow
    <2>5. Buckets \in 1 .. Buckets
      BY <2>1
    <2>. QED BY <2>2, <2>3, <2>4, <2>5
  <1>. QED BY <1>1, <1>2, <1>3, PTL DEF StudySpec

-----------------------------------------------------------------------------
(* Order blocks: a candle that returns to a block mitigates it.              *)

(* Of the things that carry an index up to a bound, the latest is among them. *)
LEMMA LatestIsOne ==
    ASSUME NEW S, S # {}, NEW bound \in Nat, \A x \in S : x.i \in 1 .. bound
    PROVE  LatestOf(S) \in S /\ \A y \in S : y.i <= LatestOf(S).i
  <1> DEFINE T == {bound - x.i : x \in S}
  <1>1. T \in SUBSET Nat /\ T # {}
    OBVIOUS
  <1>2. PICK t \in T : \A u \in T : t <= u
    BY <1>1, LeastIn
  <1>3. PICK x \in S : t = bound - x.i
    BY <1>2
  <1>4. \A y \in S : y.i <= x.i
    <2> TAKE y \in S
    <2>1. bound - x.i <= bound - y.i
      BY <1>2, <1>3
    <2>. QED BY <2>1
  <1> HIDE DEF T
  <1>. QED BY <1>4 DEF LatestOf

(* A fresh block that was not left by the last candle is one that no later   *)
(* candle touched, the last one included.                                    *)
LEMMA BlocksRead ==
    ASSUME NEW w \in Seq(Candles), NEW a, NEW b \in OrderBlocks(w, a)
    PROVE  /\ b.i \in 1 .. Len(w) - 1 /\ b.direction \in {"bullish", "bearish"}
           /\ b.top \in Int /\ b.bottom \in Int
           /\ ~b.mitigated => \A j \in (b.i + 2) .. Len(w) : ~(w[j].l <= b.top /\ w[j].h >= b.bottom)
  <1>1. b \in {BlockAt(w, i, "bullish") : i \in 1 .. Len(w) - 1} \cup
             {BlockAt(w, i, "bearish") : i \in 1 .. Len(w) - 1}
    BY DEF OrderBlocks
  <1>2. PICK i \in 1 .. Len(w) - 1, d \in {"bullish", "bearish"} : b = BlockAt(w, i, d)
    BY <1>1
  <1>3. w[i].o \in Int /\ w[i].c \in Int
    BY <1>2 DEF Candles
  <1>. QED BY <1>2, <1>3 DEF BlockAt, Larger, Smaller

(* With mitigated blocks refused, the order block strategy trades the block  *)
(* of the last displacement and no other: the return of the price that it    *)
(* waits for is the very thing that makes a block unfit                      *)
(* (strategies/smc/order_block.py:36-63, smc.py:201-258).  For every *)
(* chart of ordered candles.                                                 *)
THEOREM ReturnsAreRefused == StudySpec => []OnlyTheDisplacement
  <1>1. StudyInit => Studied
    BY StudiedInit
  <1>2. Studied /\ [StudyNext]_study => Studied'
    BY StudiedNext
  <1>3. Studied => OnlyTheDisplacement
    <2> DEFINE w == Window
               smc == AnalyzeSMC(Window)
               block == LatestOf(FreshBlocks(smc))
               n == Len(Window)
    <2> SUFFICES ASSUME Studied, Charted, OrderBlock(Window, smc) # None PROVE block.i = n - 1
      BY DEF OnlyTheDisplacement
    <2>1. w \in Seq(Candles) /\ n \in Nat
      BY DEF Studied
    <2>2. /\ smc # None /\ FreshBlocks(smc) # {}
          /\ Interacting(LastOf(w), block)
      BY DEF OrderBlock
    <2>3. PICK a : smc.blocks = OrderBlocks(w, a)
      BY <2>2 DEF AnalyzeSMC
    <2>4. \A b \in FreshBlocks(smc) : b \in OrderBlocks(w, a) /\ ~b.mitigated
      BY <2>3 DEF FreshBlocks, Aligned
    <2>5. \A b \in FreshBlocks(smc) : b.i \in 1 .. n
      BY <2>1, <2>4, BlocksRead
    <2>6. block \in FreshBlocks(smc)
      BY <2>1, <2>2, <2>5, LatestIsOne
    <2>7. block \in OrderBlocks(w, a) /\ ~block.mitigated
      BY <2>4, <2>6
    <2>8. n >= 1 => LastOf(w) = w[n] /\ w[n] \in Candles
      BY <2>1 DEF LastOf
    <2> HIDE DEF w, n, block, smc
    <2>9. /\ block.i \in 1 .. n - 1 /\ block.direction \in {"bullish", "bearish"}
          /\ block.top \in Int /\ block.bottom \in Int
          /\ \A j \in (block.i + 2) .. n : ~(w[j].l <= block.top /\ w[j].h >= block.bottom)
      BY <2>1, <2>7, BlocksRead DEF n, w
    <2>10. CASE block.i = n - 1
      BY <2>10
    <2>11. CASE block.i # n - 1
      <3>1. n \in (block.i + 2) .. n /\ n >= 1
        BY <2>1, <2>9, <2>11
      <3>2. ~(w[n].l <= block.top /\ w[n].h >= block.bottom)
        BY <2>9, <3>1
      <3>3. w[n] = LastOf(w) /\ w[n] \in Candles
        BY <2>8, <3>1
      <3>4. PICK l \in Int, c \in Int, h \in Int :
              l = w[n].l /\ c = w[n].c /\ h = w[n].h /\ l <= c /\ c <= h
        BY <3>3 DEF Candles
      <3>5. CASE block.direction = "bullish"
        <4>1. l <= block.top /\ block.bottom <= c
          BY <2>2, <3>3, <3>4, <3>5 DEF Interacting
        <4>. QED BY <2>9, <3>2, <3>4, <4>1
      <3>6. CASE block.direction = "bearish"
        <4>1. block.bottom <= h /\ c <= block.top
          BY <2>2, <3>3, <3>4, <3>6 DEF Interacting
        <4>. QED BY <2>9, <3>2, <3>4, <4>1
      <3>. QED BY <2>9, <3>5, <3>6
    <2>. QED BY <2>10, <2>11
  <1>. QED BY <1>1, <1>2, <1>3, PTL DEF StudySpec

-----------------------------------------------------------------------------
(* Fractions.  Both numbers of a fraction are divided by what gcd computes;  *)
(* that it divides them is what makes a fraction stand for its quotient.     *)

Gcd == CHOOSE g : g = [p \in Nat \X Nat |-> IF p[2] = 0 THEN p[1] ELSE g[<<p[2], p[1] % p[2]>>]]

LEMMA FractionIs ==
    ASSUME NEW n, NEW d
    PROVE  LET g == Gcd[<<IF n < 0 THEN -n ELSE n, d>>]
           IN  Fraction(n, d) = [n |-> n \div g, d |-> d \div g]
  BY DEF Fraction, Gcd

Divides(k, x) == \E c \in Int : x = k * c
Common(x, y) == {k \in Nat : Divides(k, x) /\ Divides(k, y)}

LEMMA RestOf ==
    ASSUME NEW x \in Nat, NEW y \in Nat, y # 0
    PROVE  x % y \in Nat /\ x % y < y /\ \E q \in Int : x = y * q + (x % y)
  <1>1. x \div y \in Int /\ x = y * (x \div y) + (x % y)
    OBVIOUS
  <1>2. x % y \in Nat /\ x % y < y
    OBVIOUS
  <1>. QED BY <1>1, <1>2

LEMMA RestDivides ==
    ASSUME NEW k \in Int, NEW a \in Int, NEW b \in Int, NEW q \in Int, NEW r \in Int,
           k * a = (k * b) * q + r
    PROVE  Divides(k, r)
  <1>1. (k * b) * q = k * (b * q)
    OBVIOUS
  <1>2. k * (a - b * q) = k * a - k * (b * q)
    OBVIOUS
  <1>3. r = k * (a - b * q) /\ a - b * q \in Int
    BY <1>1, <1>2
  <1>. QED BY <1>3 DEF Divides

LEMMA SumDivides ==
    ASSUME NEW k \in Int, NEW b \in Int, NEW q \in Int, NEW c \in Int
    PROVE  Divides(k, (k * b) * q + k * c)
  <1>1. (k * b) * q = k * (b * q)
    OBVIOUS
  <1>2. k * (b * q + c) = k * (b * q) + k * c
    OBVIOUS
  <1>3. (k * b) * q + k * c = k * (b * q + c) /\ b * q + c \in Int
    BY <1>1, <1>2
  <1>. QED BY <1>3 DEF Divides

(* What divides both numbers divides the rest, and the other way round.      *)
LEMMA SameCommon ==
    ASSUME NEW x \in Nat, NEW y \in Nat, y # 0
    PROVE  Common(x, y) = Common(y, x % y)
  <1>1. PICK r \in Nat, q \in Int : r = x % y /\ x = y * q + r
    BY RestOf
  <1>2. \A k \in Nat : Divides(k, x) /\ Divides(k, y) => Divides(k, r)
    <2> SUFFICES ASSUME NEW k \in Nat, Divides(k, x), Divides(k, y) PROVE Divides(k, r)
      OBVIOUS
    <2>1. PICK a \in Int : x = k * a
      BY DEF Divides
    <2>2. PICK b \in Int : y = k * b
      BY DEF Divides
    <2>3. k * a = (k * b) * q + r
      BY <1>1, <2>1, <2>2
    <2>4. k \in Int /\ r \in Int
      OBVIOUS
    <2>. QED BY <2>3, <2>4, RestDivides
  <1>3. \A k \in Nat : Divides(k, y) /\ Divides(k, r) => Divides(k, x)
    <2> SUFFICES ASSUME NEW k \in Nat, Divides(k, y), Divides(k, r) PROVE Divides(k, x)
      OBVIOUS
    <2>1. PICK b \in Int : y = k * b
      BY DEF Divides
    <2>2. PICK c \in Int : r = k * c
      BY DEF Divides
    <2>3. x = (k * b) * q + k * c
      BY <1>1, <2>1, <2>2
    <2>4. k \in Int
      OBVIOUS
    <2>5. Divides(k, (k * b) * q + k * c)
      BY <2>4, SumDivides
    <2>. QED BY <2>3, <2>5
  <1>4. \A k : k \in Common(x, y) <=> k \in Common(y, r)
    BY <1>2, <1>3 DEF Common
  <1>. QED BY <1>1, <1>4

(* The greatest common divisor is the one that all the others divide.        *)
Greatest(C) == CHOOSE k \in C : \A j \in C : Divides(j, k)
Shared(x, y) == Greatest(Common(x, y))

LEMMA NotBelow ==
    ASSUME NEW k \in Nat, NEW x \in Nat, NEW c \in Int, x = k * c, x # 0
    PROVE  k <= x
  <1>1. CASE c <= 0
    <2>1. PICK e \in Nat : c + e = 0
      <3>1. 0 - c \in Nat /\ c + (0 - c) = 0
        BY <1>1
      <3>. QED BY <3>1
    <2>2. k * c + k * e = k * (c + e) /\ k * e \in Nat /\ k * 0 = 0
      OBVIOUS
    <2>3. x + k * e = 0
      BY <2>1, <2>2
    <2>. QED BY <2>2, <2>3
  <1>2. CASE c > 0
    <2>1. PICK e \in Nat : c = e + 1
      <3>1. c - 1 \in Nat /\ c = (c - 1) + 1
        BY <1>2
      <3>. QED BY <3>1
    <2>2. k * (e + 1) = k * e + k /\ k * e \in Nat
      OBVIOUS
    <2>. QED BY <2>1, <2>2
  <1>. QED BY <1>1, <1>2

LEMMA OfItself ==
    ASSUME NEW x \in Nat
    PROVE  Shared(x, 0) = x
  <1>1. x \in Common(x, 0)
    <2>1. x = x * 1 /\ 0 = x * 0
      OBVIOUS
    <2>. QED BY <2>1 DEF Common, Divides
  <1>2. \A j \in Common(x, 0) : Divides(j, x)
    BY DEF Common
  <1>3. ASSUME NEW k \in Common(x, 0), \A j \in Common(x, 0) : Divides(j, k)
        PROVE  k = x
    <2>1. k \in Nat /\ Divides(k, x) /\ Divides(x, k)
      BY <1>1, <1>3 DEF Common
    <2>2. PICK c \in Int : x = k * c
      BY <2>1 DEF Divides
    <2>3. PICK e \in Int : k = x * e
      BY <2>1 DEF Divides
    <2>4. CASE x = 0
      <3>1. 0 * e = 0
        OBVIOUS
      <3>. QED BY <2>3, <2>4, <3>1
    <2>5. CASE k = 0
      <3>1. 0 * c = 0
        OBVIOUS
      <3>. QED BY <2>2, <2>5, <3>1
    <2>6. CASE x # 0 /\ k # 0
      <3>1. k <= x
        BY <2>1, <2>2, <2>6, NotBelow
      <3>2. x <= k
        BY <2>1, <2>3, <2>6, NotBelow
      <3>. QED BY <2>1, <3>1, <3>2
    <2>. QED BY <2>4, <2>5, <2>6
  <1>. QED BY <1>1, <1>2, <1>3 DEF Shared, Greatest

LEMMA SharedInTurn ==
    ASSUME NEW x \in Nat, NEW y \in Nat
    PROVE  Shared(x, y) = IF y = 0 THEN x ELSE Shared(y, x % y)
  <1>1. CASE y = 0
    BY <1>1, OfItself
  <1>2. CASE y # 0
    BY <1>2, SameCommon DEF Shared
  <1>. QED BY <1>1, <1>2

LEMMA GcdEquation ==
    Gcd = [p \in Nat \X Nat |-> IF p[2] = 0 THEN p[1] ELSE Gcd[<<p[2], p[1] % p[2]>>]]
  <1> DEFINE G == [p \in Nat \X Nat |-> Shared(p[1], p[2])]
             Turn(g) == [p \in Nat \X Nat |-> IF p[2] = 0 THEN p[1] ELSE g[<<p[2], p[1] % p[2]>>]]
  <1>1. \A p \in Nat \X Nat : G[p] = IF p[2] = 0 THEN p[1] ELSE G[<<p[2], p[1] % p[2]>>]
    <2> TAKE p \in Nat \X Nat
    <2>1. p[1] \in Nat /\ p[2] \in Nat
      OBVIOUS
    <2>2. CASE p[2] = 0
      BY <2>1, <2>2, SharedInTurn
    <2>3. CASE p[2] # 0
      <3>1. p[1] % p[2] \in Nat
        BY <2>1, <2>3, RestOf
      <3>2. <<p[2], p[1] % p[2]>> \in Nat \X Nat
        BY <2>1, <3>1
      <3>3. G[<<p[2], p[1] % p[2]>>] = Shared(p[2], p[1] % p[2])
        BY <3>2
      <3>. QED BY <2>1, <2>3, <3>3, SharedInTurn
    <2>. QED BY <2>2, <2>3
  <1>2. G = Turn(G)
    <2>1. \A p \in Nat \X Nat : G[p] = Turn(G)[p]
      BY <1>1
    <2>. QED BY <2>1
  <1>3. Gcd = CHOOSE g : g = Turn(g)
    BY DEF Gcd
  <1> HIDE DEF G, Turn
  <1>4. Gcd = Turn(Gcd)
    BY <1>2, <1>3
  <1>. QED BY <1>4 DEF Turn

LEMMA GcdAt ==
    ASSUME NEW x \in Nat, NEW y \in Nat
    PROVE  Gcd[<<x, y>>] = IF y = 0 THEN x ELSE Gcd[<<y, x % y>>]
  <1> DEFINE p == <<x, y>>
  <1>1. p \in Nat \X Nat /\ p[1] = x /\ p[2] = y
    OBVIOUS
  <1> HIDE DEF p
  <1>2. Gcd[p] = IF p[2] = 0 THEN p[1] ELSE Gcd[<<p[2], p[1] % p[2]>>]
    BY <1>1, GcdEquation
  <1>. QED BY <1>1, <1>2 DEF p

DividesBoth(g, x, y) == g \in Nat /\ Divides(g, x) /\ Divides(g, y)

LEMMA GcdDivides ==
    ASSUME NEW x \in Nat, NEW y \in Nat
    PROVE  DividesBoth(Gcd[<<x, y>>], x, y)
  <1> DEFINE Good(b) == \A a \in Nat : DividesBoth(Gcd[<<a, b>>], a, b)
             T == {b \in Nat : ~Good(b)}
  <1>1. ASSUME NEW b \in Nat, \A c \in Nat : c < b => Good(c) PROVE Good(b)
    <2> SUFFICES ASSUME NEW a \in Nat PROVE DividesBoth(Gcd[<<a, b>>], a, b)
      OBVIOUS
    <2>1. CASE b = 0
      <3>1. Gcd[<<a, b>>] = a
        BY <2>1, GcdAt
      <3>2. a \in Common(a, 0)
        <4>1. a = a * 1 /\ 0 = a * 0
          OBVIOUS
        <4>. QED BY <4>1 DEF Common, Divides
      <3>. QED BY <2>1, <3>1, <3>2 DEF Common, DividesBoth
    <2>2. CASE b # 0
      <3>1. PICK r \in Nat : r = a % b /\ r < b
        BY <2>2, RestOf
      <3>2. Gcd[<<a, b>>] = Gcd[<<b, r>>]
        BY <2>2, <3>1, GcdAt
      <3>3. Good(r)
        BY <1>1, <3>1
      <3>4. DividesBoth(Gcd[<<b, r>>], b, r)
        BY <3>3
      <3>5. Gcd[<<b, r>>] \in Common(b, r)
        BY <3>4 DEF Common, DividesBoth
      <3>6. Gcd[<<a, b>>] \in Common(a, b)
        BY <2>2, <3>1, <3>2, <3>5, SameCommon
      <3>. QED BY <3>6 DEF Common, DividesBoth
    <2>. QED BY <2>1, <2>2
  <1> HIDE DEF Good
  <1>2. T = {}
    <2> SUFFICES ASSUME T # {} PROVE FALSE
      OBVIOUS
    <2>1. PICK b \in T : \A c \in T : b <= c
      BY LeastIn
    <2>2. \A c \in Nat : c < b => Good(c)
      BY <2>1
    <2>. QED BY <1>1, <2>1, <2>2
  <1>3. Good(y)
    BY <1>2
  <1>. QED BY <1>3 DEF Good

-----------------------------------------------------------------------------
(* What a fraction stands for, and its order.                                *)

Fractions == [n : Int, d : Nat \ {0}]

LEMMA QuotientOf ==
    ASSUME NEW g \in Nat, g # 0, NEW a \in Int, NEW n \in Int, n = g * a
    PROVE  n \div g = a
  <1>1. PICK q \in Int, r \in Int : q = n \div g /\ r = n % g /\ n = g * q + r /\ 0 <= r /\ r < g
    OBVIOUS
  <1>2. g * (a - q) = g * a - g * q
    OBVIOUS
  <1>3. PICK e \in Int : e = a - q
    OBVIOUS
  <1>4. g * e = r
    BY <1>1, <1>2, <1>3
  <1>5. CASE e >= 1
    <2>1. PICK k \in Nat : e = k + 1
      <3>1. e - 1 \in Nat /\ e = (e - 1) + 1
        BY <1>5
      <3>. QED BY <3>1
    <2>2. g * (k + 1) = g * k + g /\ g * k \in Nat
      OBVIOUS
    <2>. QED BY <1>1, <1>4, <2>1, <2>2
  <1>6. CASE e <= -1
    <2>1. PICK k \in Nat : e + k + 1 = 0
      <3>1. -1 - e \in Nat /\ e + (-1 - e) + 1 = 0
        BY <1>6
      <3>. QED BY <3>1
    <2>2. g * (e + k + 1) = g * e + g * k + g /\ g * k \in Nat /\ g * 0 = 0
      OBVIOUS
    <2>. QED BY <1>1, <1>4, <2>1, <2>2
  <1>. QED BY <1>1, <1>3, <1>5, <1>6

Reduced(n, d) ==
  \E g \in Nat \ {0}, a \in Int, b \in Nat \ {0} :
     a = Fraction(n, d).n /\ b = Fraction(n, d).d /\ n = g * a /\ d = g * b

LEMMA FractionRead ==
    ASSUME NEW n \in Int, NEW d \in Nat, d # 0
    PROVE  /\ Fraction(n, d) \in Fractions
           /\ Reduced(n, d)
  <1> DEFINE m == IF n < 0 THEN -n ELSE n
             g == Gcd[<<m, d>>]
  <1>1. m \in Nat
    OBVIOUS
  <1>2. DividesBoth(g, m, d)
    BY <1>1, GcdDivides
  <1>3. Fraction(n, d) = [n |-> n \div g, d |-> d \div g]
    BY FractionIs
  <1> HIDE DEF g
  <1>4. PICK c \in Int : m = g * c
    BY <1>2 DEF DividesBoth, Divides
  <1>5. PICK b \in Int : d = g * b
    BY <1>2 DEF DividesBoth, Divides
  <1>6. g \in Nat /\ g # 0
    <2>1. g \in Nat
      BY <1>2 DEF DividesBoth
    <2>2. 0 * b = 0
      OBVIOUS
    <2>. QED BY <1>5, <2>1, <2>2
  <1>7. PICK a \in Int : n = g * a
    <2>1. g * (0 - c) = 0 - g * c /\ 0 - c \in Int
      BY <1>6
    <2>2. n = g * c \/ n = 0 - g * c
      BY <1>4, <1>6
    <2>. QED BY <2>1, <2>2
  <1>8. n \div g = a
    BY <1>6, <1>7, QuotientOf
  <1>9. d \div g = b
    BY <1>5, <1>6, QuotientOf
  <1>10. b \in Nat /\ b # 0
    <2>1. g * b > 0 /\ g > 0
      BY <1>5, <1>6
    <2>2. b > 0
      <3> SUFFICES ASSUME b <= 0 PROVE FALSE
        OBVIOUS
      <3>1. PICK k \in Nat : b + k = 0
        <4>1. 0 - b \in Nat /\ b + (0 - b) = 0
          OBVIOUS
        <4>. QED BY <4>1
      <3>2. g * (b + k) = g * b + g * k /\ g * k \in Nat /\ g * 0 = 0
        BY <1>6
      <3>. QED BY <1>6, <2>1, <3>1, <3>2
    <2>. QED BY <2>2
  <1>11. Fraction(n, d).n = a /\ Fraction(n, d).d = b /\ Fraction(n, d) = [n |-> a, d |-> b]
    BY <1>3, <1>8, <1>9
  <1>12. g \in Nat \ {0} /\ b \in Nat \ {0}
    BY <1>6, <1>10
  <1>13. Reduced(n, d)
    BY <1>5, <1>7, <1>11, <1>12 DEF Reduced
  <1>. QED BY <1>11, <1>12, <1>13 DEF Fractions

LEMMA Scaled ==
    ASSUME NEW g \in Nat, g # 0, NEW a \in Int, NEW b \in Int
    PROVE  g * a < g * b <=> a < b
  <1>1. ASSUME NEW u \in Int, NEW v \in Int, u < v PROVE g * u < g * v
    <2>1. PICK k \in Nat : v = u + (k + 1)
      <3>1. v - u - 1 \in Nat /\ v = u + ((v - u - 1) + 1)
        BY <1>1
      <3>. QED BY <3>1
    <2>2. g * (u + (k + 1)) = g * u + (g * k + g) /\ g * k \in Nat
      OBVIOUS
    <2>. QED BY <2>1, <2>2
  <1>2. CASE a < b
    BY <1>1, <1>2
  <1>3. CASE a = b
    BY <1>3
  <1>4. CASE b < a
    <2>1. g * b < g * a
      BY <1>1, <1>4
    <2>. QED BY <1>4, <2>1
  <1>. QED BY <1>2, <1>3, <1>4

(* A fraction is compared as the quotient it was made from.                  *)
LEMMA FractionCompares ==
    ASSUME NEW x \in Fractions, NEW n \in Int, NEW d \in Nat, d # 0
    PROVE  /\ Below(x, Fraction(n, d)) <=> x.n * d < n * x.d
           /\ Below(Fraction(n, d), x) <=> n * x.d < x.n * d
  <1>1. PICK p \in Int, q \in Nat : p = x.n /\ q = x.d /\ q # 0
    BY DEF Fractions
  <1>2. PICK g \in Nat \ {0}, a \in Int, b \in Nat \ {0} :
           a = Fraction(n, d).n /\ b = Fraction(n, d).d /\ n = g * a /\ d = g * b
    <2>1. Reduced(n, d)
      BY FractionRead
    <2>. QED BY <2>1 DEF Reduced
  <1>3. p * (g * b) = g * (p * b) /\ (g * a) * q = g * (a * q)
    OBVIOUS
  <1>4. p * b \in Int /\ a * q \in Int /\ g \in Nat /\ g # 0
    OBVIOUS
  <1>5. g * (p * b) < g * (a * q) <=> p * b < a * q
    BY <1>4, Scaled
  <1>6. g * (a * q) < g * (p * b) <=> a * q < p * b
    BY <1>4, Scaled
  <1>7. x.n * d = g * (p * b) /\ n * x.d = g * (a * q)
    BY <1>1, <1>2, <1>3
  <1>8. Below(x, Fraction(n, d)) <=> p * b < a * q
    BY <1>1, <1>2 DEF Below
  <1>9. Below(Fraction(n, d), x) <=> a * q < p * b
    BY <1>1, <1>2 DEF Below
  <1>. QED BY <1>5, <1>6, <1>7, <1>8, <1>9

LEMMA FractionSign ==
    ASSUME NEW n \in Int, NEW d \in Nat, d # 0
    PROVE  /\ Fraction(n, d).n > 0 <=> n > 0
           /\ Fraction(n, d).n < 0 <=> n < 0
  <1>1. PICK g \in Nat \ {0}, a \in Int, b \in Nat \ {0} :
           a = Fraction(n, d).n /\ b = Fraction(n, d).d /\ n = g * a /\ d = g * b
    <2>1. Reduced(n, d)
      BY FractionRead
    <2>. QED BY <2>1 DEF Reduced
  <1>2. g \in Nat /\ g # 0 /\ g * 0 = 0
    OBVIOUS
  <1>3. g * 0 < g * a <=> 0 < a
    BY <1>2, Scaled
  <1>4. g * a < g * 0 <=> a < 0
    BY <1>2, Scaled
  <1>. QED BY <1>1, <1>2, <1>3, <1>4

LEMMA Positive ==
    ASSUME NEW a \in Int, NEW b \in Nat, b # 0
    PROVE  /\ a > 0 => a * b > 0
           /\ a < 0 => a * b < 0
  <1>1. b * 0 < b * a <=> 0 < a
    BY Scaled
  <1>2. b * a < b * 0 <=> a < 0
    BY Scaled
  <1>3. b * a = a * b /\ b * 0 = 0 /\ a * b \in Int
    OBVIOUS
  <1>. QED BY <1>1, <1>2, <1>3

LEMMA PriceTyped == ASSUME NEW p \in Int PROVE Price(p) \in Fractions
  BY DEF Price, Fractions

(* A distance moves a level to its side.                                     *)
LEMMA Moved ==
    ASSUME NEW x \in Fractions, NEW y \in Fractions
    PROVE  /\ Add(x, y) \in Fractions /\ Subtract(x, y) \in Fractions
           /\ y.n > 0 => Below(x, Add(x, y)) /\ Below(Subtract(x, y), x)
           /\ y.n < 0 => Below(Add(x, y), x)
  <1>1. PICK a \in Int, b \in Nat : a = x.n /\ b = x.d /\ b # 0
    BY DEF Fractions
  <1>2. PICK c \in Int, d \in Nat : c = y.n /\ d = y.d /\ d # 0
    BY DEF Fractions
  <1>3. b * d \in Nat /\ b * d # 0 /\ a * d \in Int /\ c * b \in Int
    <2>1. b * d > 0
      BY <1>1, <1>2, Positive
    <2>. QED BY <2>1
  <1>4. PICK e \in Int, f \in Int, h \in Nat : e = a * d /\ f = c * b /\ h = b * d /\ h # 0
    BY <1>3
  <1>5. Add(x, y) = Fraction(e + f, h) /\ Subtract(x, y) = Fraction(e - f, h)
    BY <1>1, <1>2, <1>4 DEF Add, Subtract
  <1>6. Add(x, y) \in Fractions /\ Subtract(x, y) \in Fractions
    BY <1>4, <1>5, FractionRead
  <1>7. a * h = e * b
    <2>1. a * (b * d) = (a * d) * b
      OBVIOUS
    <2>. QED BY <1>4, <2>1
  <1>8. (e + f) * b = e * b + f * b /\ (e - f) * b = e * b - f * b /\ e * b \in Int /\ f * b \in Int
    OBVIOUS
  <1>9. /\ Below(x, Add(x, y)) <=> a * h < (e + f) * b
        /\ Below(Add(x, y), x) <=> (e + f) * b < a * h
        /\ Below(Subtract(x, y), x) <=> (e - f) * b < a * h
    <2>1. e + f \in Int /\ e - f \in Int
      OBVIOUS
    <2>2. /\ Below(x, Fraction(e + f, h)) <=> x.n * h < (e + f) * x.d
          /\ Below(Fraction(e + f, h), x) <=> (e + f) * x.d < x.n * h
      BY <1>4, <2>1, FractionCompares
    <2>3. Below(Fraction(e - f, h), x) <=> (e - f) * x.d < x.n * h
      BY <1>4, <2>1, FractionCompares
    <2>. QED BY <1>1, <1>5, <2>2, <2>3
  <1>10. /\ c > 0 => f * b > 0
         /\ c < 0 => f * b < 0
    <2>1. /\ c > 0 => c * b > 0
          /\ c < 0 => c * b < 0
      BY <1>1, Positive
    <2>2. /\ f > 0 => f * b > 0
          /\ f < 0 => f * b < 0
      BY <1>1, Positive
    <2>. QED BY <1>4, <2>1, <2>2
  <1>. QED BY <1>2, <1>6, <1>7, <1>8, <1>9, <1>10

LEMMA DifferenceSign ==
    ASSUME NEW x \in Fractions, NEW y \in Fractions
    PROVE  /\ Subtract(x, y).n > 0 <=> Below(y, x)
           /\ Subtract(x, y).n < 0 <=> Below(x, y)
  <1>1. PICK a \in Int, b \in Nat : a = x.n /\ b = x.d /\ b # 0
    BY DEF Fractions
  <1>2. PICK c \in Int, d \in Nat : c = y.n /\ d = y.d /\ d # 0
    BY DEF Fractions
  <1>3. b * d \in Nat /\ b * d # 0
    <2>1. b * d > 0
      BY <1>1, <1>2, Positive
    <2>. QED BY <2>1
  <1>4. PICK e \in Int, f \in Int, h \in Nat : e = a * d /\ f = c * b /\ h = b * d /\ h # 0
    BY <1>3
  <1>5. Subtract(x, y) = Fraction(e - f, h)
    BY <1>1, <1>2, <1>4 DEF Subtract
  <1>6. /\ Fraction(e - f, h).n > 0 <=> e - f > 0
        /\ Fraction(e - f, h).n < 0 <=> e - f < 0
    BY <1>4, FractionSign
  <1>7. (Below(y, x) <=> f < e) /\ (Below(x, y) <=> e < f)
    BY <1>1, <1>2, <1>4 DEF Below
  <1>. QED BY <1>5, <1>6, <1>7

LEMMA TimesSign ==
    ASSUME NEW x \in Fractions, NEW m \in Nat, m # 0
    PROVE  /\ Times(x, m) \in Fractions
           /\ x.n > 0 => Times(x, m).n > 0
           /\ x.n < 0 => Times(x, m).n < 0
  <1>1. PICK a \in Int, b \in Nat : a = x.n /\ b = x.d /\ b # 0
    BY DEF Fractions
  <1>2. PICK e \in Int, h \in Nat : e = a * m /\ h = b * 100 /\ h # 0
    BY <1>1
  <1>3. Times(x, m) = Fraction(e, h)
    BY <1>1, <1>2 DEF Times
  <1>4. /\ a > 0 => e > 0
        /\ a < 0 => e < 0
    BY <1>2, Positive
  <1>. QED BY <1>1, <1>2, <1>3, <1>4, FractionRead, FractionSign

(* One level below a second, and the second not above a third.               *)
LEMMA BelowThrough ==
    ASSUME NEW x \in Fractions, NEW y \in Fractions, NEW z \in Fractions
    PROVE  /\ Below(x, y) /\ ~Below(z, y) => Below(x, z)
           /\ ~Below(y, x) /\ Below(y, z) => Below(x, z)
  <1>1. PICK a \in Int, b \in Nat : a = x.n /\ b = x.d /\ b # 0
    BY DEF Fractions
  <1>2. PICK c \in Int, d \in Nat : c = y.n /\ d = y.d /\ d # 0
    BY DEF Fractions
  <1>3. PICK e \in Int, f \in Nat : e = z.n /\ f = z.d /\ f # 0
    BY DEF Fractions
  <1>4. PICK ad \in Int, cb \in Int, ed \in Int, cf \in Int, af \in Int, eb \in Int :
           ad = a * d /\ cb = c * b /\ ed = e * d /\ cf = c * f /\ af = a * f /\ eb = e * b
    OBVIOUS
  <1>5. f * ad = d * af /\ f * cb = b * cf /\ b * ed = d * eb
    BY <1>4
  <1>6. /\ f * ad < f * cb <=> ad < cb
        /\ b * ed < b * cf <=> ed < cf
        /\ d * af < d * eb <=> af < eb
        /\ f * cb < f * ad <=> cb < ad
        /\ b * cf < b * ed <=> cf < ed
    BY <1>1, <1>2, <1>3, Scaled
  <1>7. /\ f * ad \in Int /\ f * cb \in Int /\ b * ed \in Int
    OBVIOUS
  <1>8. /\ Below(x, y) <=> ad < cb
        /\ Below(y, x) <=> cb < ad
        /\ Below(z, y) <=> ed < cf
        /\ Below(y, z) <=> cf < ed
        /\ Below(x, z) <=> af < eb
    BY <1>1, <1>2, <1>3, <1>4 DEF Below
  <1>. QED BY <1>5, <1>6, <1>7, <1>8

-----------------------------------------------------------------------------
(* Stops and targets.                                                        *)

IsAtr(a) == a.sum \in Int /\ a.sum > 0 /\ a.n \in Nat /\ a.n # 0

LEMMA AtrsPositive ==
    ASSUME NEW a, IsAtr(a), NEW m \in Nat, m # 0
    PROVE  Atrs(m, a) \in Fractions /\ Atrs(m, a).n > 0
  <1>1. PICK s \in Int, k \in Nat : s = a.sum /\ k = a.n /\ s > 0 /\ k # 0
    BY DEF IsAtr
  <1>2. PICK e \in Int, h \in Nat : e = m * s /\ h = 100 * k /\ h # 0
    BY <1>1
  <1>3. Atrs(m, a) = Fraction(e, h)
    BY <1>1, <1>2 DEF Atrs
  <1>4. e > 0
    <2>1. s * m > 0 /\ s * m = m * s
      BY <1>1, Positive
    <2>. QED BY <1>2, <2>1
  <1>. QED BY <1>2, <1>3, <1>4, FractionRead, FractionSign

LEMMA StopBehind ==
    ASSUME NEW a, IsAtr(a), NEW m \in Nat, m # 0, NEW x \in Fractions
    PROVE  /\ ProtectiveStop("LONG", x, a, m) \in Fractions
           /\ ProtectiveStop("SHORT", x, a, m) \in Fractions
           /\ Below(ProtectiveStop("LONG", x, a, m), x)
           /\ Below(x, ProtectiveStop("SHORT", x, a, m))
  <1>1. Atrs(m, a) \in Fractions /\ Atrs(m, a).n > 0
    BY AtrsPositive
  <1>2. /\ ProtectiveStop("LONG", x, a, m) = Subtract(x, Atrs(m, a))
        /\ ProtectiveStop("SHORT", x, a, m) = Add(x, Atrs(m, a))
    BY DEF ProtectiveStop
  <1>. QED BY <1>1, <1>2, Moved

LEMMA TargetAhead ==
    ASSUME NEW x \in Fractions, NEW stop \in Fractions, NEW rr \in Nat, rr # 0
    PROVE  /\ Below(stop, x) => Below(x, TargetFromRR(x, stop, rr))
           /\ Below(x, stop) => Below(TargetFromRR(x, stop, rr), x)
  <1> DEFINE risk == Subtract(x, stop)
             far == Times(risk, rr)
  <1>1. risk \in Fractions
    BY Moved
  <1>2. /\ risk.n > 0 <=> Below(stop, x)
        /\ risk.n < 0 <=> Below(x, stop)
    BY DifferenceSign
  <1>3. TargetFromRR(x, stop, rr) = Add(x, far)
    BY DEF TargetFromRR
  <1> HIDE DEF risk
  <1>4. /\ far \in Fractions
        /\ risk.n > 0 => far.n > 0
        /\ risk.n < 0 => far.n < 0
    BY <1>1, TimesSign
  <1> HIDE DEF far
  <1>. QED BY <1>2, <1>3, <1>4, Moved

-----------------------------------------------------------------------------
(* What is read of a chart of ordered candles.                               *)

LEMMA CandleTyped ==
    ASSUME NEW w \in Seq(Candles), NEW i \in 1 .. Len(w)
    PROVE  /\ w[i].o \in Int /\ w[i].h \in Int /\ w[i].l \in Int /\ w[i].c \in Int /\ w[i].v \in Nat
           /\ w[i].l <= w[i].c /\ w[i].c <= w[i].h
  <1>1. w[i] \in Candles
    OBVIOUS
  <1>. QED BY <1>1 DEF Candles

LEMMA ExtremesTyped ==
    ASSUME NEW w \in Seq(Candles), NEW I \in SUBSET (1 .. Len(w)), I # {}
    PROVE  /\ HighestOf(w, I) \in Int /\ LowestOf(w, I) \in Int /\ LowestOf(w, I) <= HighestOf(w, I)
           /\ \A i \in I : w[i].h <= HighestOf(w, I) /\ LowestOf(w, I) <= w[i].l
  <1>1. \A i \in I : w[i].h \in Int /\ w[i].l \in Int /\ w[i].l <= w[i].h
    <2> TAKE i \in I
    <2>1. i \in 1 .. Len(w)
      OBVIOUS
    <2>2. w[i].h \in Int /\ w[i].l \in Int /\ w[i].c \in Int /\ w[i].l <= w[i].c /\ w[i].c <= w[i].h
      BY <2>1, CandleTyped
    <2>. QED BY <2>2
  <1>2. IsFiniteSet(I)
    <2>1. Len(w) \in Nat /\ IsFiniteSet(1 .. Len(w))
      BY FS_Interval
    <2>. QED BY <2>1, FS_Subset
  <1> DEFINE H == {w[i].h : i \in I}
             L == {w[i].l : i \in I}
             f == [i \in I |-> w[i].h]
             g == [i \in I |-> w[i].l]
  <1>3. H = {f[i] : i \in I} /\ L = {g[i] : i \in I}
    OBVIOUS
  <1> HIDE DEF f, g
  <1>4. IsFiniteSet(H) /\ IsFiniteSet(L)
    <2>1. IsFiniteSet({f[i] : i \in I})
      BY <1>2, FiniteImage
    <2>2. IsFiniteSet({g[i] : i \in I})
      BY <1>2, FiniteImage
    <2> HIDE DEF H, L
    <2>. QED BY <1>3, <2>1, <2>2
  <1>5. H \subseteq Int /\ L \subseteq Int /\ H # {} /\ L # {}
    BY <1>1
  <1>6. HighestOf(w, I) = Max(H) /\ LowestOf(w, I) = Min(L)
    BY DEF HighestOf, LowestOf
  <1>7. \A i \in I : w[i].h \in H /\ w[i].l \in L
    OBVIOUS
  <1> HIDE DEF H, L
  <1>8. Max(H) \in Int /\ \A y \in H : y <= Max(H)
    BY <1>4, <1>5, HasGreatest
  <1>9. Min(L) \in Int /\ \A y \in L : Min(L) <= y
    BY <1>4, <1>5, HasLeast
  <1>10. PICK i \in I : TRUE
    OBVIOUS
  <1>11. w[i].l <= w[i].h /\ w[i].h <= Max(H) /\ Min(L) <= w[i].l
    BY <1>1, <1>7, <1>8, <1>9, <1>10
  <1>12. Min(L) <= Max(H)
    BY <1>1, <1>8, <1>9, <1>10, <1>11
  <1>. QED BY <1>6, <1>7, <1>8, <1>9, <1>12

LEMMA TrueRangeTyped ==
    ASSUME NEW w \in Seq(Candles), NEW i \in 2 .. Len(w)
    PROVE  TrueRange(w, i) \in Int
  <1>1. i \in 1 .. Len(w) /\ i - 1 \in 1 .. Len(w)
    OBVIOUS
  <1>2. PICK h \in Int, l \in Int, c \in Int : h = w[i].h /\ l = w[i].l /\ c = w[i - 1].c
    BY <1>1, CandleTyped
  <1> DEFINE S == {h - l, Distance(h, c), Distance(l, c)}
  <1>3. Distance(h, c) \in Int /\ Distance(l, c) \in Int /\ h - l \in Int
    BY DEF Distance
  <1>4. S \subseteq Int /\ S # {}
    BY <1>3
  <1>5. IsFiniteSet(S)
    <2> DEFINE A == {h - l}
               B == A \cup {Distance(h, c)}
    <2>1. S = B \cup {Distance(l, c)} /\ A = {} \cup {h - l}
      OBVIOUS
    <2>2. IsFiniteSet(A)
      <3> HIDE DEF A
      <3>. QED BY <2>1, FS_EmptySet, FS_AddElement
    <2> HIDE DEF A
    <2>3. IsFiniteSet(B)
      BY <2>2, FS_AddElement
    <2> HIDE DEF B, S
    <2>. QED BY <2>1, <2>3, FS_AddElement
  <1>6. TrueRange(w, i) = Max(S)
    BY <1>2 DEF TrueRange
  <1> HIDE DEF S
  <1>. QED BY <1>4, <1>5, <1>6, HasGreatest

LEMMA AtrTyped ==
    ASSUME NEW w \in Seq(Candles), HasAtr(w)
    PROVE  IsAtr(Atr(w, AtrPeriod))
  <1> DEFINE I == (Larger(1, Len(w) - AtrPeriod) + 1) .. Len(w)
             f == [i \in I |-> TrueRange(w, i)]
  <1>1. Len(w) \in Nat /\ AtrPeriod \in Nat
    BY WindowsArePositive
  <1>2. Larger(1, Len(w) - AtrPeriod) \in Nat /\ Larger(1, Len(w) - AtrPeriod) >= 1
    BY <1>1 DEF Larger
  <1>3. I \subseteq 2 .. Len(w) /\ IsFiniteSet(I)
    <2>1. Larger(1, Len(w) - AtrPeriod) + 1 \in Int
      BY <1>2
    <2>2. IsFiniteSet(I)
      BY <1>1, <2>1, FS_Interval
    <2>. QED BY <1>1, <1>2, <2>2
  <1>4. \A i \in I : f[i] \in Int
    <2> TAKE i \in I
    <2>1. i \in 2 .. Len(w)
      BY <1>3
    <2>. QED BY <2>1, TrueRangeTyped
  <1>5. Atr(w, AtrPeriod) = [sum |-> SumFunctionOnSet(f, I), n |-> Cardinality(I)]
    BY DEF Atr, AddUp
  <1> HIDE DEF I, f
  <1>6. IntsOn(f, I)
    BY <1>4 DEF IntsOn
  <1>7. SumFunctionOnSet(f, I) \in Int /\ Cardinality(I) \in Nat
    BY <1>3, <1>6, SumIsInt, FS_CardinalityType
  <1>8. SumFunctionOnSet(f, I) > 0
    BY <1>5 DEF HasAtr
  <1>9. Cardinality(I) # 0
    <2> SUFFICES ASSUME Cardinality(I) = 0 PROVE FALSE
      OBVIOUS
    <2>1. I = {}
      BY <1>3, FS_EmptySet
    <2>. QED BY <1>8, <2>1, SumOfNothing
  <1>. QED BY <1>5, <1>7, <1>8, <1>9 DEF IsAtr

Directions == {"LONG", "SHORT"}

(* A setup at the last close whose stop is behind it.                        *)
Guarded(x, w, direction) ==
  /\ x.direction = direction /\ x.entry = Price(w[Len(w)].c)
  /\ direction = "LONG" => Below(x.stop, x.entry)
  /\ direction = "SHORT" => Below(x.entry, x.stop)

LEMMA AtMarketStands ==
    ASSUME NEW w \in Seq(Candles), HasAtr(w), NEW direction \in Directions,
           NEW m \in Nat, m # 0, NEW rr \in Nat, rr # 0
    PROVE  LevelChecks(AtMarket(w, direction, m, rr))
  <1> DEFINE close == Price(w[Len(w)].c)
             away == ProtectiveStop(direction, close, Atr(w, AtrPeriod), m)
  <1>1. Len(w) \in 1 .. Len(w)
    BY DEF HasAtr
  <1>2. close \in Fractions
    BY <1>1, CandleTyped, PriceTyped
  <1>3. IsAtr(Atr(w, AtrPeriod))
    BY AtrTyped
  <1>4. AtMarket(w, direction, m, rr) = Setup(direction, close, away, TargetFromRR(close, away, rr))
    BY DEF AtMarket
  <1> HIDE DEF close
  <1>5. CASE direction = "LONG"
    <2>1. away \in Fractions /\ Below(away, close)
      BY <1>2, <1>3, <1>5, StopBehind
    <2> HIDE DEF away
    <2>2. Below(close, TargetFromRR(close, away, rr))
      BY <1>2, <2>1, TargetAhead
    <2>. QED BY <1>4, <1>5, <2>1, <2>2 DEF Setup, LevelChecks
  <1>6. CASE direction = "SHORT"
    <2>1. away \in Fractions /\ Below(close, away)
      BY <1>2, <1>3, <1>6, StopBehind
    <2> HIDE DEF away
    <2>2. Below(TargetFromRR(close, away, rr), close)
      BY <1>2, <2>1, TargetAhead
    <2>. QED BY <1>4, <1>6, <2>1, <2>2 DEF Setup, LevelChecks
  <1>. QED BY <1>5, <1>6 DEF Directions

LEMMA ProtectedStands ==
    ASSUME NEW w \in Seq(Candles), HasAtr(w), NEW direction \in Directions, NEW x \in Fractions,
           NEW m \in Nat, m # 0, NEW rr \in Nat,
           direction = "LONG" => ~Below(Price(w[Len(w)].c), x),
           direction = "SHORT" => ~Below(x, Price(w[Len(w)].c))
    PROVE  /\ Guarded(Protected(w, direction, x, m, rr), w, direction)
           /\ rr # 0 => LevelChecks(Protected(w, direction, x, m, rr))
  <1> DEFINE close == Price(w[Len(w)].c)
             away == ProtectiveStop(direction, x, Atr(w, AtrPeriod), m)
  <1>1. Len(w) \in 1 .. Len(w)
    BY DEF HasAtr
  <1>2. close \in Fractions
    BY <1>1, CandleTyped, PriceTyped
  <1>3. IsAtr(Atr(w, AtrPeriod))
    BY AtrTyped
  <1>4. Protected(w, direction, x, m, rr) = Setup(direction, close, away, TargetFromRR(close, away, rr))
    BY DEF Protected
  <1>5. CASE direction = "LONG"
    <2>1. away \in Fractions /\ Below(away, x) /\ ~Below(close, x)
      BY <1>3, <1>5, StopBehind
    <2> HIDE DEF away, close
    <2>2. Below(away, close)
      BY <1>2, <2>1, BelowThrough
    <2>3. rr # 0 => Below(close, TargetFromRR(close, away, rr))
      BY <1>2, <2>1, <2>2, TargetAhead
    <2>. QED BY <1>4, <1>5, <2>2, <2>3 DEF Setup, LevelChecks, Guarded, close
  <1>6. CASE direction = "SHORT"
    <2>1. away \in Fractions /\ Below(x, away) /\ ~Below(x, close)
      BY <1>3, <1>6, StopBehind
    <2> HIDE DEF away, close
    <2>2. Below(close, away)
      BY <1>2, <2>1, BelowThrough
    <2>3. rr # 0 => Below(TargetFromRR(close, away, rr), close)
      BY <1>2, <2>1, <2>2, TargetAhead
    <2>. QED BY <1>4, <1>6, <2>2, <2>3 DEF Setup, LevelChecks, Guarded, close
  <1>. QED BY <1>5, <1>6 DEF Directions

LEMMA TargetStands ==
    ASSUME NEW w, NEW direction \in Directions, NEW x, NEW target, Guarded(x, w, direction),
           x = Setup(x.direction, x.entry, x.stop, x.target),
           direction = "LONG" => Below(Price(w[Len(w)].c), target),
           direction = "SHORT" => Below(target, Price(w[Len(w)].c))
    PROVE  LevelChecks(WithTarget(x, target))
  <1>1. WithTarget(x, target) = Setup(x.direction, x.entry, x.stop, target)
    BY DEF WithTarget, Setup
  <1>2. /\ WithTarget(x, target).direction = direction /\ WithTarget(x, target).entry = Price(w[Len(w)].c)
        /\ WithTarget(x, target).stop = x.stop /\ WithTarget(x, target).target = target
    BY <1>1 DEF Setup, Guarded
  <1> HIDE DEF Setup
  <1>. QED BY <1>2 DEF LevelChecks, Guarded, Directions

LEMMA RetargetedStands ==
    ASSUME NEW w \in Seq(Candles), HasAtr(w), NEW direction \in Directions, NEW x \in Fractions,
           NEW m \in Nat, m # 0, NEW rr \in Nat, NEW target,
           direction = "LONG" => ~Below(Price(w[Len(w)].c), x) /\ Below(Price(w[Len(w)].c), target),
           direction = "SHORT" => ~Below(x, Price(w[Len(w)].c)) /\ Below(target, Price(w[Len(w)].c))
    PROVE  LevelChecks(WithTarget(Protected(w, direction, x, m, rr), target))
  <1> DEFINE p == Protected(w, direction, x, m, rr)
  <1>1. Guarded(p, w, direction)
    BY ProtectedStands
  <1>2. p = Setup(p.direction, p.entry, p.stop, p.target)
    BY DEF Protected, Setup
  <1> HIDE DEF p
  <1>3. LevelChecks(WithTarget(p, target))
    BY <1>1, <1>2, TargetStands
  <1>. QED BY <1>3 DEF p

(* Passed by the validator, or nothing to pass.                              *)
Stands(x) == x = None \/ LevelChecks(x)

LEMMA PricesInOrder ==
    ASSUME NEW p \in Int, NEW q \in Int
    PROVE  Below(Price(p), Price(q)) <=> p < q
  BY DEF Below, Price

LEMMA RangeBreakoutStands ==
    ASSUME NEW w \in Seq(Candles)
    PROVE  InOrderOfTrade("range_breakout", RangeBreakout(w, DetectBreakout(w, 120)), w)
  <1> DEFINE b == DetectBreakout(w, 120)
             prior == (Len(w) - Lookback) .. (Len(w) - 1)
             x == RangeBreakout(w, b)
  <1>1. CASE x = None
    BY <1>1 DEF InOrderOfTrade
  <1>2. CASE x # None
    <2> DEFINE n == Len(w)
               hi == HighestOf(w, prior)
               lo == LowestOf(w, prior)
               c == LastOf(w).c
    <2>1. HasAtr(w) /\ b # None
      BY <1>2 DEF RangeBreakout
    <2>2. n \in Nat /\ Lookback \in Nat \ {0} /\ n >= Lookback + 1
      BY <2>1, WindowsArePositive DEF DetectBreakout
    <2>3. prior \in SUBSET (1 .. Len(w)) /\ prior # {} /\ n \in 1 .. Len(w)
      <3>1. n - 1 \in prior
        BY <2>2
      <3>2. \A i \in prior : i \in 1 .. Len(w)
        BY <2>2
      <3>3. n \in 1 .. Len(w)
        BY <2>2
      <3> HIDE DEF prior, n
      <3>. QED BY <3>1, <3>2, <3>3
    <2>4. hi \in Int /\ lo \in Int /\ lo <= hi
      BY <2>3, ExtremesTyped
    <2>5. c \in Int
      BY <2>3, CandleTyped DEF LastOf
    <2>6. \/ c > hi /\ b.direction = "up" /\ b.level = hi
          \/ c < lo /\ b.direction = "down" /\ b.level = lo
      <3>1. b = IF c > hi THEN [direction |-> "up", level |-> hi,
                                valid |-> b.valid]
                ELSE IF c < lo THEN [direction |-> "down", level |-> lo, valid |-> b.valid]
                ELSE None
        BY <2>1, <2>2 DEF DetectBreakout, LastOf
      <3> HIDE DEF b, hi, lo, c
      <3>. QED BY <2>1, <3>1
    <2> DEFINE direction == Side(b.direction)
               plain == Protected(w, direction, Price(b.level), 50, 200)
               target == Price(c + (IF b.direction = "up" THEN hi - lo ELSE -(hi - lo)))
    <2>7. x = WithTarget(plain, target)
      BY <1>2, <2>1 DEF RangeBreakout
    <2>8. b.level \in Int /\ Price(b.level) \in Fractions
      BY <2>4, <2>6, PriceTyped
    <2>9. FlatRange(w) <=> hi = lo
      BY DEF FlatRange
    <2>10. c = w[Len(w)].c
      BY DEF LastOf
    <2> HIDE DEF b, hi, lo, c, x, prior
    <2>11. CASE c > hi /\ b.direction = "up" /\ b.level = hi
      <3>1. direction = "LONG" /\ direction \in Directions
        BY <2>11 DEF Side, Directions
      <3>2. target = Price(c + (hi - lo)) /\ c + (hi - lo) \in Int
        BY <2>4, <2>5, <2>11
      <3>3. ~Below(Price(c), Price(b.level))
        BY <2>4, <2>5, <2>8, <2>11, PricesInOrder
      <3>4. CASE hi = lo
        <4>1. target = Price(c)
          BY <2>4, <2>5, <3>2, <3>4
        <4>2. x.target = target /\ x.entry = Price(w[Len(w)].c)
          BY <2>7 DEF WithTarget, Protected, Setup
        <4>. QED BY <2>9, <2>10, <3>4, <4>1, <4>2 DEF InOrderOfTrade, b, x
      <3>5. CASE hi # lo
        <4>1. Below(Price(c), target)
          BY <2>4, <2>5, <3>2, <3>5, PricesInOrder
        <4> HIDE DEF direction, target
        <4>2. LevelChecks(x)
          BY <2>1, <2>7, <2>8, <2>10, <3>1, <3>3, <4>1, RetargetedStands
        <4>. QED BY <4>2 DEF InOrderOfTrade, b, x
      <3>. QED BY <3>4, <3>5
    <2>12. CASE c < lo /\ b.direction = "down" /\ b.level = lo
      <3>1. direction = "SHORT" /\ direction \in Directions
        BY <2>12 DEF Side, Directions
      <3>2. target = Price(c + (-(hi - lo))) /\ c + (-(hi - lo)) \in Int /\ c + (-(hi - lo)) = c - (hi - lo)
        BY <2>4, <2>5, <2>12
      <3>3. ~Below(Price(b.level), Price(c))
        BY <2>4, <2>5, <2>8, <2>12, PricesInOrder
      <3>4. CASE hi = lo
        <4>1. c - (hi - lo) = c
          BY <2>4, <2>5, <3>4
        <4>2. x.target = target /\ x.entry = Price(w[Len(w)].c)
          BY <2>7 DEF WithTarget, Protected, Setup
        <4>. QED BY <2>9, <2>10, <3>2, <3>4, <4>1, <4>2 DEF InOrderOfTrade, b, x
      <3>5. CASE hi # lo
        <4>1. Below(target, Price(c))
          BY <2>4, <2>5, <3>2, <3>5, PricesInOrder
        <4> HIDE DEF direction, target
        <4>2. LevelChecks(x)
          BY <2>1, <2>7, <2>8, <2>10, <3>1, <3>3, <4>1, RetargetedStands
        <4>. QED BY <4>2 DEF InOrderOfTrade, b, x
      <3>. QED BY <3>4, <3>5
    <2>. QED BY <2>6, <2>11, <2>12
  <1>. QED BY <1>1, <1>2

LEMMA OpeningStands ==
    ASSUME NEW w \in Seq(Candles), NEW ctx
    PROVE  Stands(OpeningRangeBreakout(w, ctx))
  <1> DEFINE opening == OpeningRange(w, ctx)
             hi == HighestOf(w, opening)
             lo == LowestOf(w, opening)
             c == LastOf(w).c
             x == OpeningRangeBreakout(w, ctx)
  <1> SUFFICES ASSUME x # None PROVE LevelChecks(x)
    BY DEF Stands
  <1>1. /\ ~(Cardinality(opening) < 3) /\ HasAtr(w) /\ ~(hi <= lo)
        /\ w[Len(w)].c > hi \/ w[Len(w)].c < lo
    BY DEF OpeningRangeBreakout
  <1>2. opening \in SUBSET (1 .. Len(w)) /\ Len(w) \in 1 .. Len(w)
    BY <1>1 DEF OpeningRange, HasAtr
  <1>3. opening # {}
    <2> HIDE DEF opening
    <2> SUFFICES ASSUME opening = {} PROVE FALSE
      OBVIOUS
    <2>1. Cardinality({}) = 0
      BY FS_EmptySet
    <2>. QED BY <1>1, <2>1
  <1>4. hi \in Int /\ lo \in Int
    BY <1>2, <1>3, ExtremesTyped
  <1>5. c \in Int /\ c = w[Len(w)].c
    BY <1>2, CandleTyped DEF LastOf
  <1> DEFINE direction == IF c > hi THEN "LONG" ELSE "SHORT"
             target == Price(IF direction = "LONG" THEN c + hi - lo ELSE c - (hi - lo))
  <1>6. x = Setup(direction, Price(c), Half(hi, lo), target)
    BY DEF OpeningRangeBreakout
  <1> HIDE DEF x, hi, lo, c, opening
  <1>7. /\ Below(Half(hi, lo), Price(c)) <=> hi + lo < c * 2
        /\ Below(Price(c), Half(hi, lo)) <=> c * 2 < hi + lo
    <2>1. Price(c) \in Fractions /\ Price(c).n = c /\ Price(c).d = 1 /\ hi + lo \in Int
      BY <1>4, <1>5, PriceTyped DEF Price
    <2>2. /\ Below(Price(c), Fraction(hi + lo, 2)) <=> Price(c).n * 2 < (hi + lo) * Price(c).d
          /\ Below(Fraction(hi + lo, 2), Price(c)) <=> (hi + lo) * Price(c).d < Price(c).n * 2
      BY <2>1, FractionCompares
    <2>. QED BY <2>1, <2>2 DEF Half
  <1>8. CASE c > hi
    <2>1. direction = "LONG" /\ target = Price(c + hi - lo) /\ c + hi - lo \in Int
      BY <1>4, <1>5, <1>8
    <2>2. Below(Price(c), target) /\ Below(Half(hi, lo), Price(c))
      BY <1>1, <1>4, <1>5, <1>7, <1>8, <2>1, PricesInOrder
    <2> HIDE DEF direction, target
    <2>. QED BY <1>6, <2>1, <2>2 DEF Setup, LevelChecks
  <1>9. CASE ~(c > hi)
    <2>1. direction = "SHORT" /\ target = Price(c - (hi - lo)) /\ c - (hi - lo) \in Int
      BY <1>4, <1>5, <1>9
    <2>2. Below(target, Price(c)) /\ Below(Price(c), Half(hi, lo))
      BY <1>1, <1>4, <1>5, <1>7, <1>9, <2>1, PricesInOrder
    <2> HIDE DEF direction, target
    <2>. QED BY <1>6, <2>1, <2>2 DEF Setup, LevelChecks
  <1>. QED BY <1>8, <1>9

(* A VWAP is a price: there is volume behind it.                             *)
LEMMA VwapTyped ==
    ASSUME NEW w \in Seq(Candles), NEW ctx, SessionBands(w, ctx) # None
    PROVE  LET b == SessionBands(w, ctx)
           IN  b.notional \in Int /\ b.volume \in Nat /\ b.volume # 0
  <1> DEFINE anchor == Larger(1, ctx.anchor)
             I == anchor .. Len(w)
             v == [i \in I |-> w[i].v]
             f == [i \in I |-> Typical(w[i]) * w[i].v]
             b == AnchoredVwap(w, anchor)
  <1>1. SessionBands(w, ctx) = b /\ b # None
    BY DEF SessionBands
  <1>2. anchor \in 1 .. Len(w) /\ VolumeOf(w, I) # 0
    BY <1>1 DEF AnchoredVwap
  <1>3. I \in SUBSET (1 .. Len(w)) /\ IsFiniteSet(I)
    <2>1. anchor \in Nat /\ anchor >= 1 /\ Len(w) \in Nat
      BY <1>2
    <2> HIDE DEF anchor
    <2>2. IsFiniteSet(I)
      BY <2>1, FS_Interval
    <2>. QED BY <2>1, <2>2
  <1>4. b.volume = SumFunctionOnSet(v, I) /\ b.notional = SumFunctionOnSet(f, I)
    BY <1>1 DEF AnchoredVwap, VolumeOf, AddUp
  <1>5. \A i \in I : v[i] \in Nat /\ f[i] \in Int
    <2> TAKE i \in I
    <2>1. i \in 1 .. Len(w)
      BY <1>3
    <2>2. w[i].h \in Int /\ w[i].l \in Int /\ w[i].c \in Int /\ w[i].v \in Nat
      BY <2>1, CandleTyped
    <2>3. \A t \in Int, z \in Nat : t * z \in Int
      OBVIOUS
    <2>4. w[i].vwap \in Nat
      <3>1. w[i] \in Candles
        BY <2>1
      <3>. QED BY <3>1 DEF Candles
    <2>5. Typical(w[i]) \in Int
      BY <2>2, <2>4 DEF Typical
    <2>. QED BY <2>2, <2>3, <2>5
  <1>6. b.volume # 0
    BY <1>2, <1>4 DEF VolumeOf, AddUp
  <1> HIDE DEF anchor, I, v, f, b
  <1>7. IntsOn(f, I)
    BY <1>5 DEF IntsOn
  <1>8. SumFunctionOnSet(v, I) \in Nat /\ SumFunctionOnSet(f, I) \in Int
    BY <1>3, <1>5, <1>7, SumIsNat, SumIsInt
  <1>. QED BY <1>1, <1>4, <1>6, <1>8

LEMMA AgainstVwap ==
    ASSUME NEW b, b.notional \in Int, b.volume \in Nat, b.volume # 0, NEW c \in Int
    PROVE  /\ Vwap(b) \in Fractions /\ FromVwap(c, b) \in Int
           /\ Below(Price(c), Vwap(b)) <=> FromVwap(c, b) < 0
           /\ Below(Vwap(b), Price(c)) <=> FromVwap(c, b) > 0
  <1>1. PICK t \in Int, u \in Nat : t = b.notional /\ u = 3 * b.volume /\ u # 0
    OBVIOUS
  <1>2. Vwap(b) = Fraction(t, u)
    BY <1>1 DEF Vwap
  <1>3. PICK m \in Int : m = c * u /\ m = u * c
    OBVIOUS
  <1>4. FromVwap(c, b) = m - t
    BY <1>1, <1>3 DEF FromVwap
  <1>5. Price(c) \in Fractions /\ Price(c).n = c /\ Price(c).d = 1
    BY PriceTyped DEF Price
  <1>6. /\ Below(Price(c), Fraction(t, u)) <=> Price(c).n * u < t * Price(c).d
        /\ Below(Fraction(t, u), Price(c)) <=> t * Price(c).d < Price(c).n * u
    BY <1>1, <1>5, FractionCompares
  <1>7. /\ Below(Price(c), Vwap(b)) <=> m < t
        /\ Below(Vwap(b), Price(c)) <=> t < m
    BY <1>2, <1>3, <1>5, <1>6
  <1>8. Vwap(b) \in Fractions
    BY <1>1, <1>2, FractionRead
  <1>. QED BY <1>4, <1>7, <1>8

LEMMA VwapBreakoutStands ==
    ASSUME NEW w \in Seq(Candles), NEW ctx, NEW slope
    PROVE  Stands(VwapBreakout(w, SessionBands(w, ctx), slope))
  <1> DEFINE b == SessionBands(w, ctx)
             x == VwapBreakout(w, b, slope)
             c == LastOf(w).c
  <1> SUFFICES ASSUME x # None PROVE LevelChecks(x)
    BY DEF Stands
  <1>1. HasAtr(w) /\ b # None
    BY DEF VwapBreakout
  <1>2. \/ AboveBand(c, 1, b) /\ x = Protected(w, "LONG", Vwap(b), 25, 200)
        \/ BelowBand(c, 1, b) /\ x = Protected(w, "SHORT", Vwap(b), 25, 200)
    BY DEF VwapBreakout
  <1>3. c \in Int /\ c = w[Len(w)].c
    <2>1. Len(w) \in 1 .. Len(w)
      BY <1>1 DEF HasAtr
    <2>. QED BY <2>1, CandleTyped DEF LastOf
  <1>4. b.notional \in Int /\ b.volume \in Nat /\ b.volume # 0
    BY <1>1, VwapTyped
  <1> HIDE DEF x, b, c
  <1>5. /\ Vwap(b) \in Fractions /\ FromVwap(c, b) \in Int
        /\ Below(Price(c), Vwap(b)) <=> FromVwap(c, b) < 0
        /\ Below(Vwap(b), Price(c)) <=> FromVwap(c, b) > 0
    BY <1>3, <1>4, AgainstVwap
  <1>6. "LONG" \in Directions /\ "SHORT" \in Directions
    BY DEF Directions
  <1>7. CASE AboveBand(c, 1, b) /\ x = Protected(w, "LONG", Vwap(b), 25, 200)
    <2>1. ~Below(Price(w[Len(w)].c), Vwap(b))
      BY <1>3, <1>5, <1>7 DEF AboveBand
    <2>2. LevelChecks(Protected(w, "LONG", Vwap(b), 25, 200))
      BY <1>1, <1>5, <1>6, <2>1, ProtectedStands
    <2>. QED BY <1>7, <2>2
  <1>8. CASE BelowBand(c, 1, b) /\ x = Protected(w, "SHORT", Vwap(b), 25, 200)
    <2>1. ~Below(Vwap(b), Price(w[Len(w)].c))
      BY <1>3, <1>5, <1>8 DEF BelowBand
    <2>2. LevelChecks(Protected(w, "SHORT", Vwap(b), 25, 200))
      BY <1>1, <1>5, <1>6, <2>1, ProtectedStands
    <2>. QED BY <1>8, <2>2
  <1>. QED BY <1>2, <1>7, <1>8

(* The last close is within what the last candles spanned.                   *)
LEMMA LastInRange ==
    ASSUME NEW w \in Seq(Candles), HasAtr(w), NEW n \in Nat \ {0}
    PROVE  LET c == LastOf(w).c
           IN  /\ c \in Int /\ c = w[Len(w)].c
               /\ LowOf(w, n) \in Fractions /\ HighOf(w, n) \in Fractions
               /\ ~Below(Price(c), LowOf(w, n)) /\ ~Below(HighOf(w, n), Price(c))
  <1> DEFINE I == Recent(w, n)
             c == LastOf(w).c
  <1>1. Len(w) \in Nat /\ Len(w) >= 2
    BY DEF HasAtr
  <1>2. I \in SUBSET (1 .. Len(w)) /\ Len(w) \in I
    <2>1. Larger(0, Len(w) - n) \in Nat /\ Larger(0, Len(w) - n) + 1 <= Len(w)
      BY <1>1 DEF Larger
    <2>. QED BY <1>1, <2>1 DEF Recent
  <1> HIDE DEF I
  <1>3. /\ HighestOf(w, I) \in Int /\ LowestOf(w, I) \in Int
        /\ w[Len(w)].h <= HighestOf(w, I) /\ LowestOf(w, I) <= w[Len(w)].l
    BY <1>2, ExtremesTyped
  <1>4. /\ w[Len(w)].h \in Int /\ w[Len(w)].l \in Int /\ w[Len(w)].c \in Int
        /\ w[Len(w)].l <= w[Len(w)].c /\ w[Len(w)].c <= w[Len(w)].h
    BY <1>1, CandleTyped
  <1>5. c = w[Len(w)].c
    BY DEF LastOf
  <1>6. LowOf(w, n) = Price(LowestOf(w, I)) /\ HighOf(w, n) = Price(HighestOf(w, I))
    BY DEF LowOf, HighOf, I
  <1> HIDE DEF c
  <1>7. ~Below(Price(c), LowOf(w, n)) /\ ~Below(HighOf(w, n), Price(c))
    BY <1>3, <1>4, <1>5, <1>6, PricesInOrder
  <1>8. LowOf(w, n) \in Fractions /\ HighOf(w, n) \in Fractions
    BY <1>3, <1>6, PriceTyped
  <1>. QED BY <1>4, <1>5, <1>7, <1>8 DEF c

LEMMA VwapReversionStands ==
    ASSUME NEW w \in Seq(Candles), NEW ctx
    PROVE  Stands(VwapMeanReversion(w, SessionBands(w, ctx)))
  <1> DEFINE b == SessionBands(w, ctx)
             x == VwapMeanReversion(w, b)
             c == LastOf(w).c
  <1> SUFFICES ASSUME x # None PROVE LevelChecks(x)
    BY DEF Stands
  <1>1. HasAtr(w) /\ b # None
    BY DEF VwapMeanReversion
  <1>2. \/ FromVwap(c, b) < 0 /\ x = WithTarget(Protected(w, "LONG", LowOf(w, 3), 75, 0), Vwap(b))
        \/ FromVwap(c, b) > 0 /\ x = WithTarget(Protected(w, "SHORT", HighOf(w, 3), 75, 0), Vwap(b))
    BY DEF VwapMeanReversion
  <1>3. /\ c \in Int /\ c = w[Len(w)].c
        /\ LowOf(w, 3) \in Fractions /\ HighOf(w, 3) \in Fractions
        /\ ~Below(Price(c), LowOf(w, 3)) /\ ~Below(HighOf(w, 3), Price(c))
    BY <1>1, LastInRange
  <1>4. b.notional \in Int /\ b.volume \in Nat /\ b.volume # 0
    BY <1>1, VwapTyped
  <1> HIDE DEF x, b, c
  <1>5. /\ Below(Price(c), Vwap(b)) <=> FromVwap(c, b) < 0
        /\ Below(Vwap(b), Price(c)) <=> FromVwap(c, b) > 0
    BY <1>3, <1>4, AgainstVwap
  <1>6. "LONG" \in Directions /\ "SHORT" \in Directions
    BY DEF Directions
  <1>7. CASE FromVwap(c, b) < 0 /\ x = WithTarget(Protected(w, "LONG", LowOf(w, 3), 75, 0), Vwap(b))
    <2>1. LevelChecks(WithTarget(Protected(w, "LONG", LowOf(w, 3), 75, 0), Vwap(b)))
      BY <1>1, <1>3, <1>5, <1>6, <1>7, RetargetedStands
    <2>. QED BY <1>7, <2>1
  <1>8. CASE FromVwap(c, b) > 0 /\ x = WithTarget(Protected(w, "SHORT", HighOf(w, 3), 75, 0), Vwap(b))
    <2>1. LevelChecks(WithTarget(Protected(w, "SHORT", HighOf(w, 3), 75, 0), Vwap(b)))
      BY <1>1, <1>3, <1>5, <1>6, <1>8, RetargetedStands
    <2>. QED BY <1>8, <2>1
  <1>. QED BY <1>2, <1>7, <1>8

(* A close that strays from the mean of the closes is on one side of it: were *)
(* it the mean itself, the closes would not vary.                            *)
LEMMA StraysOneWay ==
    ASSUME NEW n \in Nat, NEW sum \in Int, NEW squares \in Nat, NEW k \in Nat, k <= n,
           sum * sum <= k * squares, NEW far \in Int,
           n * squares # sum * sum, ~(far * far < 4 * (n * squares - sum * sum))
    PROVE  far # 0
  <1>1. PICK e \in Nat : n = k + e
    <2>1. n - k \in Nat /\ n = k + (n - k)
      OBVIOUS
    <2>. QED BY <2>1
  <1>2. n * squares = k * squares + e * squares /\ e * squares \in Nat
    BY <1>1
  <1>3. PICK p \in Int, q \in Int : p = n * squares /\ q = sum * sum /\ q <= p /\ p # q
    BY <1>2
  <1>4. ~(far * far < 4 * (p - q))
    BY <1>3
  <1> SUFFICES ASSUME far = 0 PROVE FALSE
    OBVIOUS
  <1>5. far * far = 0
    OBVIOUS
  <1>. QED BY <1>3, <1>4, <1>5

LEMMA MeanReversionStands ==
    ASSUME NEW w \in Seq(Candles), NEW ctx
    PROVE  Stands(MeanReversion(w, ctx))
  <1> DEFINE n == Len(w)
             f == [i \in DOMAIN w |-> w[i].c]
             sq == [i \in DOMAIN w |-> w[i].c * w[i].c]
             sum == AddUp(f, DOMAIN w)
             squares == AddUp(sq, DOMAIN w)
             c == LastOf(w).c
             far == n * c - sum
             mean == [n |-> sum, d |-> n]
             x == MeanReversion(w, ctx)
  <1> SUFFICES ASSUME x # None PROVE LevelChecks(x)
    BY DEF Stands
  <1>1. HasAtr(w) /\ n * squares # sum * sum /\ ~(far * far < 4 * (n * squares - sum * sum))
    BY DEF MeanReversion
  <1>2. x = IF far < 0 THEN WithTarget(Protected(w, "LONG", LowOf(w, 3), 75, 0), mean)
                       ELSE WithTarget(Protected(w, "SHORT", HighOf(w, 3), 75, 0), mean)
    BY <1>1 DEF MeanReversion
  <1>3. n \in Nat /\ n # 0 /\ DOMAIN w = 1 .. n /\ IsFiniteSet(DOMAIN w)
    <2>1. n \in Nat /\ n # 0
      BY <1>1 DEF HasAtr
    <2>. QED BY <2>1, FS_Interval
  <1>4. \A i \in DOMAIN w : f[i] \in Int
    <2> TAKE i \in DOMAIN w
    <2>1. i \in 1 .. Len(w)
      OBVIOUS
    <2>. QED BY <2>1, CandleTyped
  <1>5. sq = Squares(f, DOMAIN w)
    BY DEF Squares
  <1>6. sum = SumFunctionOnSet(f, DOMAIN w) /\ squares = SumFunctionOnSet(sq, DOMAIN w)
    BY DEF AddUp
  <1>7. /\ c \in Int /\ c = w[Len(w)].c
        /\ LowOf(w, 3) \in Fractions /\ HighOf(w, 3) \in Fractions
        /\ ~Below(Price(c), LowOf(w, 3)) /\ ~Below(HighOf(w, 3), Price(c))
    BY <1>1, LastInRange
  <1> HIDE DEF x, n, f, sq, c, sum, squares
  <1>8. IntsOn(f, DOMAIN w)
    BY <1>4 DEF IntsOn
  <1>9. /\ sum \in Int /\ squares \in Nat /\ Cardinality(NonZero(f, DOMAIN w)) \in Nat
        /\ sum * sum <= Cardinality(NonZero(f, DOMAIN w)) * squares
    <2>1. /\ SumFunctionOnSet(f, DOMAIN w) \in Int /\ SumFunctionOnSet(sq, DOMAIN w) \in Nat
          /\ Cardinality(NonZero(f, DOMAIN w)) \in Nat
          /\ SumFunctionOnSet(f, DOMAIN w) * SumFunctionOnSet(f, DOMAIN w)
               <= Cardinality(NonZero(f, DOMAIN w)) * SumFunctionOnSet(sq, DOMAIN w)
      BY <1>3, <1>5, <1>8, SquareOfTheSum
    <2>. QED BY <1>6, <2>1
  <1>10. Cardinality(NonZero(f, DOMAIN w)) <= n
    <2>1. Cardinality(DOMAIN w) = n
      <3>1. Cardinality(1 .. n) = n
        BY <1>3, FS_Interval
      <3>. QED BY <1>3, <3>1
    <2>2. NonZero(f, DOMAIN w) \subseteq DOMAIN w
      BY DEF NonZero
    <2>3. Cardinality(NonZero(f, DOMAIN w)) <= Cardinality(DOMAIN w)
      BY <1>3, <2>2, FS_Subset
    <2>. QED BY <2>1, <2>3
  <1>11. PICK k \in Nat : k = Cardinality(NonZero(f, DOMAIN w)) /\ k <= n /\ sum * sum <= k * squares
    BY <1>9, <1>10
  <1>12. PICK a \in Int : a = far /\ a = n * c - sum
    BY <1>3, <1>7, <1>9
  <1>13. a # 0
    <2>1. ~(a * a < 4 * (n * squares - sum * sum))
      BY <1>1, <1>12
    <2>. QED BY <1>1, <1>3, <1>9, <1>11, <2>1, StraysOneWay
  <1>14. /\ Below(Price(c), mean) <=> a < 0
         /\ Below(mean, Price(c)) <=> a > 0
    <2>1. PICK m \in Int : m = n * c /\ m = c * n
      BY <1>3, <1>7
    <2>2. /\ Below(Price(c), mean) <=> c * n < sum * 1
          /\ Below(mean, Price(c)) <=> sum * 1 < c * n
      BY DEF Below, Price
    <2>. QED BY <1>9, <1>12, <2>1, <2>2
  <1>15. "LONG" \in Directions /\ "SHORT" \in Directions
    BY DEF Directions
  <1> HIDE DEF mean, far
  <1>16. CASE a < 0
    <2>1. LevelChecks(WithTarget(Protected(w, "LONG", LowOf(w, 3), 75, 0), mean))
      BY <1>1, <1>7, <1>14, <1>15, <1>16, RetargetedStands
    <2>2. far < 0
      BY <1>12, <1>16
    <2>. QED BY <1>2, <2>1, <2>2
  <1>17. CASE ~(a < 0)
    <2>1. a > 0
      BY <1>13, <1>17
    <2>2. LevelChecks(WithTarget(Protected(w, "SHORT", HighOf(w, 3), 75, 0), mean))
      BY <1>1, <1>7, <1>14, <1>15, <2>1, RetargetedStands
    <2>3. ~(far < 0)
      BY <1>12, <1>17
    <2>. QED BY <1>2, <2>2, <2>3
  <1>. QED BY <1>16, <1>17

LEMMA CompressionStands ==
    ASSUME NEW w \in Seq(Candles), NEW prior \in Seq(Candles)
    PROVE  Stands(VolatilityCompression(w, prior, AnalyzeStructure(prior, Band)))
  <1> DEFINE s == AnalyzeStructure(prior, Band)
             I == Recent(prior, Lookback)
             x == VolatilityCompression(w, prior, s)
             c == LastOf(w).c
             height == s.high - s.low
  <1> SUFFICES ASSUME x # None PROVE LevelChecks(x)
    BY DEF Stands
  <1>1. HasAtr(w) /\ s # None /\ ~(height <= 0)
    BY DEF VolatilityCompression
  <1>2. \/ c > s.high /\ x = Setup("LONG", Price(c), Price(s.low), Price(c + height))
        \/ c < s.low /\ x = Setup("SHORT", Price(c), Price(s.high), Price(c - height))
    BY <1>1 DEF VolatilityCompression
  <1>3. c \in Int
    <2>1. Len(w) \in 1 .. Len(w)
      BY <1>1 DEF HasAtr
    <2>. QED BY <2>1, CandleTyped DEF LastOf
  <1>4. ~(Len(prior) < Larger(Lookback, 2 * SwingSide + 1))
    BY <1>1 DEF AnalyzeStructure
  <1>5. Lookback \in Nat \ {0} /\ SwingSide \in Nat /\ Len(prior) \in Nat
    BY WindowsArePositive
  <1>6. Len(prior) >= 1
    BY <1>4, <1>5 DEF Larger
  <1>7. I \in SUBSET (1 .. Len(prior)) /\ Len(prior) \in I
    <2>1. Larger(0, Len(prior) - Lookback) \in Nat /\ Larger(0, Len(prior) - Lookback) + 1 <= Len(prior)
      BY <1>5, <1>6 DEF Larger
    <2>. QED BY <1>5, <2>1 DEF Recent
  <1>8. s.high = HighestOf(prior, I) /\ s.low = LowestOf(prior, I)
    BY <1>1 DEF AnalyzeStructure
  <1> HIDE DEF I, s, x, c
  <1>9. s.high \in Int /\ s.low \in Int
    BY <1>7, <1>8, ExtremesTyped
  <1>10. PICK h \in Int, l \in Int : h = s.high /\ l = s.low /\ l < h
    BY <1>1, <1>9
  <1>11. CASE c > s.high /\ x = Setup("LONG", Price(c), Price(s.low), Price(c + height))
    <2>1. Below(Price(l), Price(c)) /\ Below(Price(c), Price(c + (h - l))) /\ c + (h - l) \in Int
      <3>1. l < c /\ c < c + (h - l) /\ c + (h - l) \in Int
        BY <1>3, <1>10, <1>11
      <3>. QED BY <1>3, <3>1, PricesInOrder
    <2>2. x = Setup("LONG", Price(c), Price(l), Price(c + (h - l)))
      BY <1>10, <1>11
    <2>. QED BY <2>1, <2>2 DEF Setup, LevelChecks
  <1>12. CASE c < s.low /\ x = Setup("SHORT", Price(c), Price(s.high), Price(c - height))
    <2>1. Below(Price(c), Price(h)) /\ Below(Price(c - (h - l)), Price(c)) /\ c - (h - l) \in Int
      <3>1. c < h /\ c - (h - l) < c /\ c - (h - l) \in Int
        BY <1>3, <1>10, <1>12
      <3>. QED BY <1>3, <3>1, PricesInOrder
    <2>2. x = Setup("SHORT", Price(c), Price(h), Price(c - (h - l)))
      BY <1>10, <1>12
    <2>. QED BY <2>1, <2>2 DEF Setup, LevelChecks
  <1>. QED BY <1>2, <1>11, <1>12

LEMMA MarketEntriesStand ==
    ASSUME NEW w \in Seq(Candles), NEW ctx, NEW f
    PROVE  /\ Stands(AtrExpansion(w)) /\ Stands(OrderbookImbalance(w, ctx))
           /\ Stands(Cvd(w, f)) /\ Stands(DeltaConfirmation(w, f))
  <1>1. "LONG" \in Directions /\ "SHORT" \in Directions
    BY DEF Directions
  <1>2. ASSUME HasAtr(w), NEW m \in Nat, m # 0, NEW rr \in Nat, rr # 0
        PROVE  LevelChecks(AtMarket(w, "LONG", m, rr)) /\ LevelChecks(AtMarket(w, "SHORT", m, rr))
    BY <1>1, <1>2, AtMarketStands
  <1>3. Stands(AtrExpansion(w))
    <2> SUFFICES ASSUME AtrExpansion(w) # None PROVE LevelChecks(AtrExpansion(w))
      BY DEF Stands
    <2>1. HasAtr(w)
      BY DEF AtrExpansion
    <2>2. AtrExpansion(w) = AtMarket(w, "LONG", 100, 150) \/ AtrExpansion(w) = AtMarket(w, "SHORT", 100, 150)
      BY DEF AtrExpansion
    <2>3. LevelChecks(AtMarket(w, "LONG", 100, 150)) /\ LevelChecks(AtMarket(w, "SHORT", 100, 150))
      BY <1>2, <2>1
    <2>. QED BY <2>2, <2>3
  <1>4. Stands(OrderbookImbalance(w, ctx))
    <2> SUFFICES ASSUME OrderbookImbalance(w, ctx) # None PROVE LevelChecks(OrderbookImbalance(w, ctx))
      BY DEF Stands
    <2>1. HasAtr(w)
      BY DEF OrderbookImbalance
    <2>2. \/ OrderbookImbalance(w, ctx) = AtMarket(w, "LONG", 60, 150)
          \/ OrderbookImbalance(w, ctx) = AtMarket(w, "SHORT", 60, 150)
      BY DEF OrderbookImbalance
    <2>3. LevelChecks(AtMarket(w, "LONG", 60, 150)) /\ LevelChecks(AtMarket(w, "SHORT", 60, 150))
      BY <1>2, <2>1
    <2>. QED BY <2>2, <2>3
  <1>5. Stands(Cvd(w, f))
    <2> SUFFICES ASSUME Cvd(w, f) # None PROVE LevelChecks(Cvd(w, f))
      BY DEF Stands
    <2>1. HasAtr(w)
      BY DEF Cvd
    <2>2. Cvd(w, f) = AtMarket(w, "LONG", 120, 200) \/ Cvd(w, f) = AtMarket(w, "SHORT", 120, 200)
      BY DEF Cvd
    <2>3. LevelChecks(AtMarket(w, "LONG", 120, 200)) /\ LevelChecks(AtMarket(w, "SHORT", 120, 200))
      BY <1>2, <2>1
    <2>. QED BY <2>2, <2>3
  <1>6. Stands(DeltaConfirmation(w, f))
    <2> SUFFICES ASSUME DeltaConfirmation(w, f) # None PROVE LevelChecks(DeltaConfirmation(w, f))
      BY DEF Stands
    <2>1. HasAtr(w)
      BY DEF DeltaConfirmation
    <2>2. \/ DeltaConfirmation(w, f) = AtMarket(w, "LONG", 100, 150)
          \/ DeltaConfirmation(w, f) = AtMarket(w, "SHORT", 100, 150)
      BY DEF DeltaConfirmation
    <2>3. LevelChecks(AtMarket(w, "LONG", 100, 150)) /\ LevelChecks(AtMarket(w, "SHORT", 100, 150))
      BY <1>2, <2>1
    <2>. QED BY <2>2, <2>3
  <1>. QED BY <1>3, <1>4, <1>5, <1>6

LEMMA ProjectingStand ==
    ASSUME NEW w \in Seq(Candles), Len(w) >= 3, NEW ctx, NEW s \in Projecting
    PROVE  InOrderOfTrade(s, Evaluate(s, w, ctx), w)
  <1> DEFINE prior == SubSeq(w, 1, Len(w) - 1)
             flow == AnalyzeOrderFlow(ctx.trades, Buckets)
  <1>1. prior \in Seq(Candles)
    BY SubSeqProperties
  <1>2. ASSUME NEW t, Stands(Evaluate(t, w, ctx)) PROVE InOrderOfTrade(t, Evaluate(t, w, ctx), w)
    BY <1>2 DEF Stands, InOrderOfTrade
  <1>3. Evaluate("range_breakout", w, ctx) = RangeBreakout(w, DetectBreakout(w, 120))
    BY DEF Evaluate
  <1>4. Evaluate("opening_range_breakout", w, ctx) = OpeningRangeBreakout(w, ctx)
    BY DEF Evaluate
  <1>5. Evaluate("vwap_breakout", w, ctx) =
          VwapBreakout(w, SessionBands(w, ctx), VwapSlope(w, Larger(1, ctx.anchor), SlopeBars))
    BY DEF Evaluate
  <1>6. Evaluate("vwap_mean_reversion", w, ctx) = VwapMeanReversion(w, SessionBands(w, ctx))
    BY DEF Evaluate
  <1>7. Evaluate("mean_reversion", w, ctx) = MeanReversion(w, ctx)
    BY DEF Evaluate
  <1>8. Evaluate("atr_expansion", w, ctx) = AtrExpansion(w)
    BY DEF Evaluate
  <1>9. Evaluate("volatility_compression", w, ctx) =
          VolatilityCompression(w, prior, AnalyzeStructure(prior, Band))
    BY DEF Evaluate
  <1>10. Evaluate("orderbook_imbalance", w, ctx) = OrderbookImbalance(w, ctx)
    BY DEF Evaluate
  <1>11. Evaluate("cvd", w, ctx) = Cvd(w, flow) /\ Evaluate("delta_confirmation", w, ctx) = DeltaConfirmation(w, flow)
    BY DEF Evaluate
  <1> HIDE DEF prior, flow
  <1>12. CASE s = "range_breakout"
    BY <1>3, <1>12, RangeBreakoutStands
  <1>13. CASE s # "range_breakout"
    <2>1. Stands(Evaluate("opening_range_breakout", w, ctx))
      BY <1>4, OpeningStands
    <2>2. Stands(Evaluate("vwap_breakout", w, ctx)) /\ Stands(Evaluate("vwap_mean_reversion", w, ctx))
      BY <1>5, <1>6, VwapBreakoutStands, VwapReversionStands
    <2>3. Stands(Evaluate("mean_reversion", w, ctx))
      BY <1>7, MeanReversionStands
    <2>4. Stands(Evaluate("volatility_compression", w, ctx))
      BY <1>1, <1>9, CompressionStands
    <2>5. /\ Stands(Evaluate("atr_expansion", w, ctx)) /\ Stands(Evaluate("orderbook_imbalance", w, ctx))
          /\ Stands(Evaluate("cvd", w, ctx)) /\ Stands(Evaluate("delta_confirmation", w, ctx))
      BY <1>8, <1>10, <1>11, MarketEntriesStand
    <2>6. Stands(Evaluate(s, w, ctx))
      BY <1>13, <2>1, <2>2, <2>3, <2>4, <2>5 DEF Projecting
    <2>. QED BY <1>2, <2>6
  <1>. QED BY <1>12, <1>13

(* The stop of the ten strategies that project their target from the entry,  *)
(* or revert to a mean, lies behind the entry and the target ahead of it, on *)
(* every chart of ordered candles and whatever the book, the trades and the  *)
(* regime: the validator finds nothing to refuse but a breakout from a range *)
(* without height (engine/validators/signal_validator.py:36-60).          *)
THEOREM LevelsAreInOrder == StudySpec => []LevelsHold
  <1>1. StudyInit => Studied
    BY StudiedInit
  <1>2. Studied /\ [StudyNext]_study => Studied'
    BY StudiedNext
  <1>3. Studied => LevelsHold
    BY ProjectingStand DEF Studied, LevelsHold
  <1>. QED BY <1>1, <1>2, <1>3, PTL DEF StudySpec

-----------------------------------------------------------------------------
(* The profile of the volume.  What a candle leaves in a bin is what its     *)
(* range grows by between the edges of the bin, so the bins add up to it.    *)

Clip(x, lo, hi) == Larger(lo, Smaller(x, hi))
Gained(b, step, lo, hi) == Clip((b + 1) * step, lo, hi) - Clip(b * step, lo, hi)
FirstBin(lo, step, bins) == Smaller(bins - 1, lo \div step)
LastBin(hi, step, bins) == Smaller(bins - 1, Larger(0, (hi - 1) \div step))

(* The bin of a price, by its edges.                                         *)
LEMMA BinOf ==
    ASSUME NEW x \in Nat, NEW step \in Nat, step # 0, NEW b \in Int
    PROVE  /\ x \div step \in Nat
           /\ b <= x \div step <=> b * step <= x
  <1>1. PICK q \in Int, r \in Nat : q = x \div step /\ x = step * q + r /\ r < step
    <2>1. x \div step \in Int /\ x = step * (x \div step) + (x % step)
      OBVIOUS
    <2>2. x % step \in Nat /\ x % step < step
      OBVIOUS
    <2>. QED BY <2>1, <2>2
  <1>2. b * step = step * b /\ step * b \in Int
    OBVIOUS
  <1>3. ASSUME b <= q PROVE step * b <= x
    <2>1. step * q < step * b <=> q < b
      BY Scaled
    <2>2. step * q \in Int /\ ~(q < b)
      BY <1>3
    <2>. QED BY <1>1, <1>2, <2>1, <2>2
  <1>4. ASSUME q < b PROVE x < step * b
    <2>1. PICK k \in Nat : b = (q + 1) + k
      <3>1. b - q - 1 \in Nat /\ b = (q + 1) + (b - q - 1)
        BY <1>4
      <3>. QED BY <3>1
    <2>2. step * ((q + 1) + k) = (step * q + step) + step * k /\ step * k \in Nat
      OBVIOUS
    <2>3. step * q \in Int
      OBVIOUS
    <2>. QED BY <1>1, <2>1, <2>2, <2>3
  <1>5. q \in Nat
    <2> SUFFICES ASSUME q < 0 PROVE FALSE
      OBVIOUS
    <2>1. PICK k \in Nat : q + (k + 1) = 0
      <3>1. -1 - q \in Nat /\ q + ((-1 - q) + 1) = 0
        OBVIOUS
      <3>. QED BY <3>1
    <2>2. step * (q + (k + 1)) = step * q + (step * k + step) /\ step * k \in Nat /\ step * 0 = 0
      OBVIOUS
    <2>3. step * q \in Int
      OBVIOUS
    <2>. QED BY <1>1, <2>1, <2>2, <2>3
  <1>6. step * b <= x \/ x < step * b
    BY <1>2
  <1>. QED BY <1>1, <1>2, <1>3, <1>4, <1>5, <1>6

Crossing(b, step, lo, hi, first, last) ==
  LET gain == Gained(b, step, lo, hi)
  IN  /\ gain \in Nat
      /\ b \in first .. last =>
           gain = Smaller(hi, (b + 1) * step) - Larger(lo, b * step) /\ gain > 0
      /\ b \notin first .. last => gain = 0
      /\ first = last /\ b = last => gain = hi - lo
      /\ first \in Int /\ last \in Int

(* Which bins the range from lo to hi crosses, hi belonging to the bin below *)
(* when it is an edge, and by how much.                                      *)
LEMMA BinsCrossed ==
    ASSUME NEW lo \in Nat, NEW hi \in Nat, lo < hi, NEW step \in Nat, step # 0,
           NEW bins \in Nat, bins # 0, hi <= bins * step, NEW b \in 0 .. (bins - 1)
    PROVE  Crossing(b, step, lo, hi, FirstBin(lo, step, bins), LastBin(hi, step, bins))
  <1> DEFINE first == FirstBin(lo, step, bins)
             last == LastBin(hi, step, bins)
             gain == Gained(b, step, lo, hi)
  <1> SUFFICES /\ gain \in Nat
               /\ b \in first .. last =>
                    gain = Smaller(hi, (b + 1) * step) - Larger(lo, b * step) /\ gain > 0
               /\ b \notin first .. last => gain = 0
               /\ first = last /\ b = last => gain = hi - lo
               /\ first \in Int /\ last \in Int
    BY DEF Crossing
  <1> DEFINE q == lo \div step
             p == (hi - 1) \div step
  <1>1. hi - 1 \in Nat /\ b \in Int /\ b + 1 \in Int /\ bins - 1 \in Int
    OBVIOUS
  <1>2. q \in Nat /\ p \in Nat
    BY <1>1, BinOf
  <1>3. first = q
    <2>0. bins \in Int
      OBVIOUS
    <2>1. bins <= q <=> bins * step <= lo
      BY <2>0, BinOf
    <2>2. bins * step \in Int
      OBVIOUS
    <2>3. ~(bins <= q)
      BY <2>1, <2>2
    <2> HIDE DEF q
    <2>. QED BY <1>2, <2>3 DEF Smaller, FirstBin, q
  <1>4. last = p
    <2>0. bins \in Int
      OBVIOUS
    <2>1. bins <= p <=> bins * step <= hi - 1
      BY <1>1, <2>0, BinOf
    <2>2. bins * step \in Int
      OBVIOUS
    <2>3. ~(bins <= p)
      BY <2>1, <2>2
    <2> HIDE DEF p
    <2>. QED BY <1>2, <2>3 DEF Smaller, Larger, LastBin, p
  <1>5. (b <= q <=> b * step <= lo) /\ (b + 1 <= q <=> (b + 1) * step <= lo)
    BY <1>1, BinOf
  <1>6. (b <= p <=> b * step <= hi - 1) /\ (b + 1 <= p <=> (b + 1) * step <= hi - 1)
    BY <1>1, BinOf
  <1>7. PICK x \in Nat, y \in Nat : x = b * step /\ y = (b + 1) * step /\ y = x + step
    <2>1. b \in Nat /\ (b + 1) * step = b * step + step
      OBVIOUS
    <2>2. b * step \in Nat
      BY <2>1
    <2>. QED BY <2>1, <2>2
  <1>8. gain = Clip(y, lo, hi) - Clip(x, lo, hi)
    BY <1>7 DEF Gained
  <1> HIDE DEF q, p, first, last, gain
  <1>9. CASE b < q
    <2>1. y <= lo /\ x <= lo
      BY <1>1, <1>2, <1>5, <1>7, <1>9
    <2>2. gain = 0
      BY <1>8, <2>1 DEF Clip, Larger, Smaller
    <2>. QED BY <1>2, <1>3, <1>4, <1>9, <2>2
  <1>10. CASE b > p
    <2>1. x >= hi /\ y >= hi
      BY <1>1, <1>2, <1>6, <1>7, <1>10
    <2>2. gain = 0
      BY <1>8, <2>1 DEF Clip, Larger, Smaller
    <2>. QED BY <1>2, <1>3, <1>4, <1>10, <2>2
  <1>11. CASE q <= b /\ b <= p
    <2>1. lo < y /\ x < hi
      BY <1>1, <1>2, <1>5, <1>6, <1>7, <1>11
    <2>2. gain = Smaller(hi, y) - Larger(lo, x) /\ gain > 0 /\ gain \in Nat
      BY <1>7, <1>8, <2>1 DEF Clip, Larger, Smaller
    <2>3. b \in first .. last
      BY <1>2, <1>3, <1>4, <1>11
    <2>4. q = p => x <= lo /\ hi <= y
      BY <1>1, <1>2, <1>5, <1>6, <1>7, <1>11
    <2>5. q = p => gain = hi - lo
      BY <1>7, <2>2, <2>4 DEF Larger, Smaller
    <2>. QED BY <1>2, <1>3, <1>4, <1>7, <2>2, <2>3, <2>5
  <1>. QED BY <1>1, <1>2, <1>9, <1>10, <1>11
(* What grows from edge to edge adds up to the whole growth.                 *)
GrowsBy(f, e, n) == \A b \in 0 .. (n - 1) : f[b] = e[b + 1] - e[b]

LEMMA Telescopes ==
    ASSUME NEW n \in Nat, NEW e, \A b \in 0 .. n : e[b] \in Int, NEW f, GrowsBy(f, e, n)
    PROVE  SumFunctionOnSet(f, 0 .. (n - 1)) = e[n] - e[0]
  <1> DEFINE T == {k \in Nat : k <= n => SumFunctionOnSet(f, 0 .. (k - 1)) = e[k] - e[0]}
  <1>1. 0 \in T
    <2>1. 0 .. (0 - 1) = {} /\ e[0] \in Int
      OBVIOUS
    <2>. QED BY <2>1, SumOfNothing
  <1>2. \A k \in Nat : k \in T => k + 1 \in T
    <2> SUFFICES ASSUME NEW k \in Nat, k + 1 <= n,
                        SumFunctionOnSet(f, 0 .. (k - 1)) = e[k] - e[0]
                 PROVE  SumFunctionOnSet(f, 0 .. ((k + 1) - 1)) = e[k + 1] - e[0]
      OBVIOUS
    <2> DEFINE R == 0 .. (k - 1)
    <2>1. 0 .. ((k + 1) - 1) = R \cup {k} /\ k \notin R /\ IsFiniteSet(R)
      <3>1. IsFiniteSet(R)
        BY FS_Interval
      <3>. QED BY <3>1
    <2>2. PICK a \in Int, b \in Int, c \in Int : a = e[0] /\ b = e[k] /\ c = e[k + 1]
      OBVIOUS
    <2>3. f[k] = c - b
      BY <2>2 DEF GrowsBy
    <2>4. IntsOn(f, R \cup {k})
      <3> SUFFICES ASSUME NEW x \in R \cup {k} PROVE f[x] \in Int
        BY DEF IntsOn
      <3>1. x \in 0 .. (n - 1) /\ x \in 0 .. n /\ x + 1 \in 0 .. n
        OBVIOUS
      <3>2. e[x] \in Int /\ e[x + 1] \in Int /\ f[x] = e[x + 1] - e[x]
        BY <3>1 DEF GrowsBy
      <3>. QED BY <3>2
    <2>5. SumsTo(f, R, b - a)
      BY <2>2 DEF SumsTo
    <2> HIDE DEF R
    <2>6. SumsTo(f, R \cup {k}, (b - a) + (c - b))
      <3>1. b - a \in Int /\ c - b \in Int /\ AgreeOn(f, f, R)
        BY DEF AgreeOn
      <3>. QED BY <2>1, <2>3, <2>4, <2>5, <3>1, SumWithOneMore
    <2>7. (b - a) + (c - b) = c - a
      OBVIOUS
    <2>. QED BY <2>1, <2>2, <2>6, <2>7 DEF SumsTo
  <1> HIDE DEF T
  <1>3. n \in T
    BY <1>1, <1>2, CountedUp
  <1>. QED BY <1>3 DEF T

(* The sum of what is nothing but in one place.                              *)
LEMMA SumOfOne ==
    ASSUME NEW S, IsFiniteSet(S), NEW x \in S, NEW a \in Int, NEW f, f[x] = a,
           \A y \in S : y # x => f[y] = 0
    PROVE  SumFunctionOnSet(f, S) = a
  <1> DEFINE R == S \ {x}
             z == [y \in R |-> 0]
             T == {s \in SUBSET R : SumFunctionOnSet(f, s) = 0}
  <1>1. IsFiniteSet(R)
    BY FS_Subset
  <1>2. {} \in T
    BY SumOfNothing
  <1>3. \A s \in SUBSET R : s # {} /\ (\A y \in s : s \ {y} \in T) => s \in T
    <2> SUFFICES ASSUME NEW s \in SUBSET R, s # {}, \A y \in s : s \ {y} \in T
                 PROVE  SumFunctionOnSet(f, s) = 0
      OBVIOUS
    <2>1. PICK y \in s : TRUE
      OBVIOUS
    <2>2. IsFiniteSet(s) /\ IntsOn(f, s)
      BY <1>1, FS_Subset DEF IntsOn
    <2>3. SumFunctionOnSet(f, s) = SumFunctionOnSet(f, s \ {y}) + f[y]
      BY <2>1, <2>2, SumTakesOne
    <2>. QED BY <2>1, <2>3
  <1> HIDE DEF T
  <1>4. R \in T
    <2> HIDE DEF R
    <2>1. \A s \in SUBSET R : s \in T
      BY <1>1, <1>2, <1>3, SubsetsInTurn
    <2>. QED BY <2>1
  <1>5. SumFunctionOnSet(f, S) = SumFunctionOnSet(f, R) + f[x]
    <2>1. IntsOn(f, S)
      BY DEF IntsOn
    <2>. QED BY <2>1, SumTakesOne
  <1>. QED BY <1>4, <1>5 DEF T

(* A table is added up by its columns as by its rows.                        *)
Table(s, m, B) == \A i \in 1 .. m, b \in B : s[i][b] \in Int

LEMMA ColumnsAsRows ==
    ASSUME NEW m \in Nat, NEW B, IsFiniteSet(B), NEW s, Table(s, m, B),
           NEW t, \A i \in 1 .. m : t[i] = SumFunctionOnSet(s[i], B)
    PROVE  SumFunctionOnSet([b \in B |-> SumFunctionOnSet([i \in 1 .. m |-> s[i][b]], 1 .. m)], B)
             = SumFunctionOnSet(t, 1 .. m)
  <1> DEFINE row(b) == [i \in 1 .. m |-> s[i][b]]
             F(k) == [b \in B |-> SumFunctionOnSet(row(b), 1 .. k)]
             T == {k \in Nat : k <= m => SumFunctionOnSet(F(k), B) = SumFunctionOnSet(t, 1 .. k)}
  <1>1. \A k \in 0 .. m : IntsOn(F(k), B)
    <2> SUFFICES ASSUME NEW k \in 0 .. m, NEW b \in B
                 PROVE  SumFunctionOnSet(row(b), 1 .. k) \in Int
      BY DEF IntsOn
    <2>1. IntsOn(row(b), 1 .. k)
      <3> SUFFICES ASSUME NEW i \in 1 .. k PROVE row(b)[i] \in Int
        BY DEF IntsOn
      <3>1. i \in 1 .. m
        OBVIOUS
      <3>. QED BY <3>1 DEF Table
    <2>2. IsFiniteSet(1 .. k)
      BY FS_Interval
    <2> HIDE DEF row
    <2>. QED BY <2>1, <2>2, SumIsInt
  <1>2. 0 \in T
    <2>1. 1 .. 0 = {}
      OBVIOUS
    <2>2. SumFunctionOnSet(F(0), B) = 0
      <3>1. \A b \in B : F(0)[b] = 0
        BY <2>1, SumOfNothing
      <3> DEFINE f == F(0)
                 V == {S \in SUBSET B : SumFunctionOnSet(f, S) = 0}
      <3>2. {} \in V
        BY SumOfNothing
      <3>3. \A S \in SUBSET B : S # {} /\ (\A y \in S : S \ {y} \in V) => S \in V
        <4> SUFFICES ASSUME NEW S \in SUBSET B, S # {}, \A y \in S : S \ {y} \in V
                     PROVE  SumFunctionOnSet(f, S) = 0
          OBVIOUS
        <4>1. PICK y \in S : TRUE
          OBVIOUS
        <4>2. f[y] = 0 /\ SumFunctionOnSet(f, S \ {y}) = 0
          BY <3>1, <4>1
        <4>3. IsFiniteSet(S) /\ IntsOn(f, S)
          BY <3>1, FS_Subset DEF IntsOn
        <4> HIDE DEF f
        <4>. QED BY <4>1, <4>2, <4>3, SumTakesOne
      <3> HIDE DEF V, f
      <3>4. B \in V
        BY <3>2, <3>3, SubsetsInTurn
      <3>. QED BY <3>4 DEF V, f
    <2>. QED BY <2>1, <2>2, SumOfNothing
  <1>3. \A k \in Nat : k \in T => k + 1 \in T
    <2> SUFFICES ASSUME NEW k \in Nat, k + 1 <= m,
                        SumFunctionOnSet(F(k), B) = SumFunctionOnSet(t, 1 .. k)
                 PROVE  SumFunctionOnSet(F(k + 1), B) = SumFunctionOnSet(t, 1 .. (k + 1))
      OBVIOUS
    <2>0. k \in 0 .. m /\ k + 1 \in 0 .. m /\ k + 1 \in 1 .. m
      OBVIOUS
    <2>1. 1 .. (k + 1) = (1 .. k) \cup {k + 1} /\ k + 1 \notin 1 .. k /\ (1 .. (k + 1)) \ {k + 1} = 1 .. k
      OBVIOUS
    <2>2. IsFiniteSet(1 .. k) /\ IsFiniteSet(1 .. (k + 1))
      BY FS_Interval
    <2>3. \A b \in B : /\ SumFunctionOnSet(row(b), 1 .. k) \in Int /\ s[k + 1][b] \in Int
                       /\ SumFunctionOnSet(row(b), 1 .. (k + 1))
                            = SumFunctionOnSet(row(b), 1 .. k) + s[k + 1][b]
      <3> TAKE b \in B
      <3>1. IntsOn(row(b), 1 .. (k + 1))
        <4> SUFFICES ASSUME NEW i \in 1 .. (k + 1) PROVE row(b)[i] \in Int
          BY DEF IntsOn
        <4>1. i \in 1 .. m
          OBVIOUS
        <4>. QED BY <4>1 DEF Table
      <3>2. row(b)[k + 1] = s[k + 1][b]
        BY <2>0
      <3>3. k + 1 \in 1 .. (k + 1)
        OBVIOUS
      <3> HIDE DEF row
      <3>. QED BY <2>1, <2>2, <3>1, <3>2, <3>3, SumTakesOne
    <2>4. IntsOn(F(k), B) /\ IntsOn(F(k + 1), B) /\ IntsOn(s[k + 1], B)
      BY <1>1, <2>0 DEF IntsOn, Table
    <2>5. DifferenceOn(s[k + 1], F(k + 1), F(k), B)
      <3> SUFFICES ASSUME NEW b \in B PROVE s[k + 1][b] = F(k + 1)[b] - F(k)[b]
        BY DEF DifferenceOn
      <3>1. F(k + 1)[b] = F(k)[b] + s[k + 1][b] /\ F(k)[b] \in Int /\ s[k + 1][b] \in Int
        BY <2>3
      <3>. QED BY <3>1
    <2> HIDE DEF F
    <2>6. SumFunctionOnSet(s[k + 1], B) = SumFunctionOnSet(F(k + 1), B) - SumFunctionOnSet(F(k), B)
      BY <2>4, <2>5, SumOfDifferences
    <2>7. SumFunctionOnSet(F(k), B) \in Int /\ SumFunctionOnSet(F(k + 1), B) \in Int
      BY <2>4, SumIsInt
    <2>8. t[k + 1] = SumFunctionOnSet(s[k + 1], B)
      BY <2>0
    <2>9. IntsOn(t, 1 .. (k + 1))
      <3> SUFFICES ASSUME NEW i \in 1 .. (k + 1) PROVE t[i] \in Int
        BY DEF IntsOn
      <3>1. i \in 1 .. m
        OBVIOUS
      <3>2. IntsOn(s[i], B)
        BY <3>1 DEF Table, IntsOn
      <3>. QED BY <3>1, <3>2, SumIsInt
    <2>10. /\ SumFunctionOnSet(t, 1 .. k) \in Int
           /\ SumFunctionOnSet(t, 1 .. (k + 1)) = SumFunctionOnSet(t, 1 .. k) + t[k + 1]
      <3>1. k + 1 \in 1 .. (k + 1)
        OBVIOUS
      <3>. QED BY <2>1, <2>2, <2>9, <3>1, SumTakesOne
    <2>. QED BY <2>6, <2>7, <2>8, <2>10
  <1> HIDE DEF T
  <1>4. m \in T
    BY <1>2, <1>3, CountedUp
  <1>. QED BY <1>4 DEF T

(* What is added up many times over.                                         *)
LEMMA SumOfTimes ==
    ASSUME NEW S, IsFiniteSet(S), NEW f, IntsOn(f, S), NEW c \in Int,
           NEW g, \A x \in S : g[x] = c * f[x]
    PROVE  SumFunctionOnSet(g, S) = c * SumFunctionOnSet(f, S)
  <1> DEFINE T == {s \in SUBSET S : SumFunctionOnSet(g, s) = c * SumFunctionOnSet(f, s)}
  <1>1. {} \in T
    <2>1. c * 0 = 0
      OBVIOUS
    <2>. QED BY <2>1, SumOfNothing
  <1>2. \A s \in SUBSET S : s # {} /\ (\A x \in s : s \ {x} \in T) => s \in T
    <2> SUFFICES ASSUME NEW s \in SUBSET S, s # {}, \A x \in s : s \ {x} \in T
                 PROVE  SumFunctionOnSet(g, s) = c * SumFunctionOnSet(f, s)
      OBVIOUS
    <2>1. PICK x \in s : TRUE
      OBVIOUS
    <2>2. IsFiniteSet(s) /\ IntsOn(f, s) /\ IntsOn(g, s)
      <3>1. \A y \in s : f[y] \in Int /\ g[y] = c * f[y]
        BY DEF IntsOn
      <3>2. \A y \in s : g[y] \in Int
        BY <3>1
      <3>. QED BY <3>1, <3>2, FS_Subset DEF IntsOn
    <2>3. PICK a \in Int, b \in Int :
             a = SumFunctionOnSet(f, s \ {x}) /\ b = f[x] /\ SumFunctionOnSet(f, s) = a + b
      BY <2>1, <2>2, SumTakesOne
    <2>4. SumFunctionOnSet(g, s) = SumFunctionOnSet(g, s \ {x}) + g[x]
      BY <2>1, <2>2, SumTakesOne
    <2>5. SumFunctionOnSet(g, s \ {x}) = c * a /\ g[x] = c * b
      BY <2>1, <2>3
    <2>6. c * (a + b) = c * a + c * b
      OBVIOUS
    <2>. QED BY <2>3, <2>4, <2>5, <2>6
  <1> HIDE DEF T
  <1>3. \A s \in SUBSET S : s \in T
    BY <1>1, <1>2, SubsetsInTurn
  <1>4. S \in T
    BY <1>3
  <1>. QED BY <1>4 DEF T
(* What a candle leaves in all the bins: the volume of the whole of it.      *)
LowOfAll(w) == LowestOf(w, DOMAIN w)
StepOfAll(w) == HighestOf(w, DOMAIN w) - LowestOf(w, DOMAIN w)
PriceAt(w, p) == (p - LowOfAll(w)) * Bins

LEMMA PricesAt ==
    ASSUME NEW w \in Seq(Divided), StepOfAll(w) > 0, NEW i \in 1 .. Len(w)
    PROVE  /\ StepOfAll(w) \in Nat /\ Bins \in Nat /\ Bins # 0 /\ Grain \in Nat
           /\ w[i].v \in Nat /\ Span(w[i]) \in Nat
           /\ PriceAt(w, w[i].l) \in Nat /\ PriceAt(w, w[i].h) \in Nat
           /\ PriceAt(w, w[i].h) = PriceAt(w, w[i].l) + Span(w[i]) * Bins
           /\ PriceAt(w, w[i].h) <= Bins * StepOfAll(w)
  <1>1. Bins \in Nat /\ Bins # 0 /\ Grain \in Nat
    BY LibraryParameters
  <1>2. w \in Seq(Candles) /\ DOMAIN w = 1 .. Len(w)
    BY DEF Divided
  <1>3. PICK h \in Int, l \in Int : h = w[i].h /\ l = w[i].l /\ l <= h /\ w[i].v \in Nat
    <2>1. /\ w[i].h \in Int /\ w[i].l \in Int /\ w[i].c \in Int /\ w[i].v \in Nat
          /\ w[i].l <= w[i].c /\ w[i].c <= w[i].h
      BY <1>2, CandleTyped
    <2>. QED BY <2>1
  <1>4. /\ HighestOf(w, DOMAIN w) \in Int /\ LowestOf(w, DOMAIN w) \in Int
        /\ w[i].h <= HighestOf(w, DOMAIN w) /\ LowestOf(w, DOMAIN w) <= w[i].l
    <2>1. DOMAIN w \in SUBSET (1 .. Len(w)) /\ DOMAIN w # {} /\ i \in DOMAIN w
      BY <1>2
    <2>. QED BY <1>2, <2>1, ExtremesTyped
  <1>5. PICK a \in Nat, b \in Nat, c \in Nat :
           /\ a = l - LowOfAll(w) /\ b = h - l /\ c = HighestOf(w, DOMAIN w) - h
           /\ h - LowOfAll(w) = a + b /\ StepOfAll(w) = a + b + c
    <2>1. /\ l - LowOfAll(w) \in Nat /\ h - l \in Nat /\ HighestOf(w, DOMAIN w) - h \in Nat
      BY <1>3, <1>4 DEF LowOfAll
    <2>2. /\ h - LowOfAll(w) = (l - LowOfAll(w)) + (h - l)
          /\ StepOfAll(w) = (l - LowOfAll(w)) + (h - l) + (HighestOf(w, DOMAIN w) - h)
      BY <1>3, <1>4 DEF LowOfAll, StepOfAll
    <2>. QED BY <2>1, <2>2
  <1>6. PriceAt(w, w[i].l) = a * Bins /\ PriceAt(w, w[i].h) = (a + b) * Bins /\ Span(w[i]) = b
    BY <1>3, <1>5 DEF PriceAt, Span
  <1>7. /\ (a + b) * Bins = a * Bins + b * Bins
        /\ Bins * (a + b + c) = (a + b) * Bins + c * Bins
        /\ a * Bins \in Nat /\ b * Bins \in Nat /\ c * Bins \in Nat
    BY <1>1
  <1>8. StepOfAll(w) \in Nat /\ Bins * StepOfAll(w) = Bins * (a + b + c)
    BY <1>5
  <1>9. PICK x \in Nat, y \in Nat, z \in Nat : x = a * Bins /\ y = b * Bins /\ z = c * Bins
    BY <1>7
  <1>10. x + y \in Nat /\ x + y <= (x + y) + z
    OBVIOUS
  <1>11. PriceAt(w, w[i].l) = x /\ PriceAt(w, w[i].h) = x + y /\ Span(w[i]) * Bins = y
    BY <1>6, <1>7, <1>9
  <1>12. Bins * StepOfAll(w) = (x + y) + z
    BY <1>7, <1>8, <1>9
  <1>13. Span(w[i]) \in Nat
    BY <1>6
  <1>. QED BY <1>1, <1>3, <1>8, <1>9, <1>10, <1>11, <1>12, <1>13, Zenon

LEMMA FlatShare ==
    ASSUME NEW w \in Seq(Divided), StepOfAll(w) > 0, NEW i \in 1 .. Len(w), Span(w[i]) = 0,
           NEW s, \A b \in 0 .. (Bins - 1) : s[b] = ProfileShare(w, w[i], b, Bins, Grain)
    PROVE  /\ \A b \in 0 .. (Bins - 1) : s[b] \in Nat
           /\ SumFunctionOnSet(s, 0 .. (Bins - 1)) = Grain * w[i].v
  <1>0. /\ StepOfAll(w) \in Nat /\ Bins \in Nat /\ Bins # 0 /\ Grain \in Nat
        /\ w[i].v \in Nat /\ PriceAt(w, w[i].l) \in Nat
    BY PricesAt
  <1>a. PICK step \in Nat : step = StepOfAll(w) /\ step # 0
    BY <1>0
  <1>b. PICK n \in Nat : n = Bins /\ n # 0
    BY <1>0
  <1>c. PICK g \in Nat, v \in Nat, lo \in Nat : g = Grain /\ v = w[i].v /\ lo = PriceAt(w, w[i].l)
    BY <1>0
  <1>1. /\ step = StepOfAll(w) /\ n = Bins /\ g = Grain /\ v = w[i].v /\ lo = PriceAt(w, w[i].l)
        /\ step # 0 /\ n # 0
    BY <1>a, <1>b, <1>c
  <1>2. lo \div step \in Nat
    BY <1>1, BinOf
  <1>3. PICK first \in 0 .. (n - 1) : first = Smaller(n - 1, lo \div step)
    <2>1. Smaller(n - 1, lo \div step) \in 0 .. (n - 1)
      BY <1>1, <1>2 DEF Smaller
    <2>. QED BY <2>1
  <1>4. \A b \in 0 .. (n - 1) : s[b] = IF b = first THEN v * g ELSE 0
    <2> TAKE b \in 0 .. (n - 1)
    <2>1. s[b] = ProfileShare(w, w[i], b, Bins, Grain)
      BY <1>1
    <2>2. ProfileShare(w, w[i], b, Bins, Grain) =
            IF b = Smaller(Bins - 1, PriceAt(w, w[i].l) \div StepOfAll(w)) THEN w[i].v * Grain ELSE 0
      BY DEF ProfileShare, PriceAt, StepOfAll, LowOfAll
    <2>. QED BY <1>1, <1>3, <2>1, <2>2
  <1>5. v * g \in Nat /\ g * v = v * g
    OBVIOUS
  <1>6. SumFunctionOnSet(s, 0 .. (n - 1)) = v * g
    <2> DEFINE S == 0 .. (n - 1)
               a == v * g
    <2>1. IsFiniteSet(S) /\ first \in S /\ a \in Int
      <3>1. n - 1 \in Int /\ 0 \in Int
        OBVIOUS
      <3>2. IsFiniteSet(S)
        BY <3>1, FS_Interval
      <3>. QED BY <1>3, <1>5, <3>2
    <2>2. s[first] = a /\ \A y \in S : y # first => s[y] = 0
      BY <1>4
    <2> HIDE DEF S, a
    <2>3. SumFunctionOnSet(s, S) = a
      BY <2>1, <2>2, SumOfOne
    <2>. QED BY <2>3 DEF S, a
  <1>7. \A b \in 0 .. (n - 1) : s[b] \in Nat
    BY <1>4, <1>5
  <1>8. Grain * w[i].v = v * g
    BY <1>1, <1>5
  <1>. QED BY <1>b, <1>6, <1>7, <1>8

LEMMA SpreadShare ==
    ASSUME NEW w \in Seq(Divided), StepOfAll(w) > 0, NEW i \in 1 .. Len(w), Span(w[i]) # 0,
           NEW s, \A b \in 0 .. (Bins - 1) : s[b] = ProfileShare(w, w[i], b, Bins, Grain)
    PROVE  /\ \A b \in 0 .. (Bins - 1) : s[b] \in Nat
           /\ SumFunctionOnSet(s, 0 .. (Bins - 1)) = Grain * w[i].v
  <1>0. /\ StepOfAll(w) \in Nat /\ Bins \in Nat /\ Bins # 0 /\ Grain \in Nat
        /\ w[i].v \in Nat /\ Span(w[i]) \in Nat
        /\ PriceAt(w, w[i].l) \in Nat /\ PriceAt(w, w[i].h) \in Nat
        /\ PriceAt(w, w[i].h) = PriceAt(w, w[i].l) + Span(w[i]) * Bins
        /\ PriceAt(w, w[i].h) <= Bins * StepOfAll(w)
    BY PricesAt
  <1>a. PICK step \in Nat : step = StepOfAll(w) /\ step # 0
    BY <1>0
  <1>b. PICK n \in Nat : n = Bins /\ n # 0
    BY <1>0
  <1>c. PICK g \in Nat, v \in Nat, span \in Nat : g = Grain /\ v = w[i].v /\ span = Span(w[i])
    BY <1>0
  <1>d. PICK lo \in Nat, hi \in Nat : lo = PriceAt(w, w[i].l) /\ hi = PriceAt(w, w[i].h)
    BY <1>0
  <1>1. /\ step = StepOfAll(w) /\ n = Bins /\ g = Grain /\ v = w[i].v /\ span = Span(w[i])
        /\ lo = PriceAt(w, w[i].l) /\ hi = PriceAt(w, w[i].h)
        /\ hi = lo + span * n /\ hi <= n * step /\ step # 0 /\ n # 0
    BY <1>0, <1>a, <1>b, <1>c, <1>d
  <1>2. PICK width \in Nat : width = span * n /\ width # 0
    <2>1. span > 0
      BY <1>1
    <2>2. span \in Int /\ n \in Nat /\ n # 0
      BY <1>1
    <2>3. span * n > 0
      BY <2>1, <2>2, Positive
    <2>4. span * n \in Nat
      OBVIOUS
    <2>. QED BY <2>3, <2>4
  <1>3. lo < hi
    BY <1>1, <1>2
  <1>4. PICK each \in Nat : each = g \div width /\ width * each = g
    <2>1. w[i] \in Divided
      OBVIOUS
    <2>2. g % width = 0
      BY <1>1, <1>2, <2>1 DEF Divided
    <2>3. g \div width \in Nat
      BY <1>2, BinOf
    <2>4. g = width * (g \div width) + (g % width)
      BY <1>2
    <2>5. width * (g \div width) \in Int
      BY <2>3
    <2>. QED BY <2>2, <2>3, <2>4, <2>5
  <1>5. PICK unit \in Nat : unit = v * each
    OBVIOUS
  <1> DEFINE first == FirstBin(lo, step, n)
             last == LastBin(hi, step, n)
             gain(b) == Gained(b, step, lo, hi)
             e == [b \in 0 .. n |-> unit * Clip(b * step, lo, hi)]
  <1>6. \A b \in 0 .. (n - 1) :
          /\ gain(b) \in Nat
          /\ b \in first .. last =>
               gain(b) = Smaller(hi, (b + 1) * step) - Larger(lo, b * step) /\ gain(b) > 0
          /\ b \notin first .. last => gain(b) = 0
          /\ first = last /\ b = last => gain(b) = hi - lo
          /\ first \in Int /\ last \in Int
    <2> TAKE b \in 0 .. (n - 1)
    <2>1. Crossing(b, step, lo, hi, FirstBin(lo, step, n), LastBin(hi, step, n))
      BY <1>1, <1>3, BinsCrossed
    <2>. QED BY <2>1 DEF Crossing
  <1>7. \A b \in 0 .. (n - 1) : s[b] = unit * gain(b)
    <2> TAKE b \in 0 .. (n - 1)
    <2>1. s[b] = ProfileShare(w, w[i], b, Bins, Grain)
      BY <1>1
    <2>2. ProfileShare(w, w[i], b, Bins, Grain) =
            IF first = last THEN (IF b = last THEN v * g ELSE 0)
            ELSE IF b \in first .. last /\ Smaller(hi, (b + 1) * step) - Larger(lo, b * step) > 0
                 THEN v * (Smaller(hi, (b + 1) * step) - Larger(lo, b * step)) * (g \div (span * n))
                 ELSE 0
      <3>1. ~(Span(w[i]) <= 0)
        BY <1>1, <1>2
      <3>. QED BY <1>1, <3>1 DEF ProfileShare, PriceAt, StepOfAll, LowOfAll, FirstBin, LastBin
    <2> HIDE DEF first, last
    <2>3. PICK x \in Nat : x = gain(b)
      BY <1>6
    <2>4. unit * 0 = 0
      OBVIOUS
    <2> HIDE DEF gain
    <2>5. CASE first = last
      <3>1. first .. last = {last}
        BY <1>6, <2>5
      <3>2. CASE b = last
        <4>1. x = width
          BY <1>1, <1>2, <1>6, <2>3, <2>5, <3>2
        <4>2. unit * width = v * (width * each)
          BY <1>5
        <4>. QED BY <1>4, <2>1, <2>2, <2>3, <2>5, <3>2, <4>1, <4>2
      <3>3. CASE b # last
        <4>1. x = 0
          BY <1>6, <2>3, <3>1, <3>3
        <4>. QED BY <2>1, <2>2, <2>3, <2>4, <2>5, <3>3, <4>1
      <3>. QED BY <3>2, <3>3
    <2>6. CASE first # last /\ b \in first .. last
      <3>1. x = Smaller(hi, (b + 1) * step) - Larger(lo, b * step) /\ x > 0
        BY <1>6, <2>3, <2>6
      <3>2. v * x * each = unit * x
        BY <1>5
      <3>. QED BY <1>2, <1>4, <2>1, <2>2, <2>3, <2>6, <3>1, <3>2
    <2>7. CASE first # last /\ b \notin first .. last
      <3>1. x = 0
        BY <1>6, <2>3, <2>7
      <3>. QED BY <2>1, <2>2, <2>3, <2>4, <2>7, <3>1
    <2>. QED BY <2>5, <2>6, <2>7
  <1>8. \A b \in 0 .. n : Clip(b * step, lo, hi) \in Nat
    <2> TAKE b \in 0 .. n
    <2>1. b \in Nat /\ b * step \in Nat
      OBVIOUS
    <2>. QED BY <2>1 DEF Clip, Larger, Smaller
  <1>9. \A b \in 0 .. n : e[b] = unit * Clip(b * step, lo, hi) /\ e[b] \in Int
    BY <1>8
  <1>10. GrowsBy(s, e, n)
    <2> SUFFICES ASSUME NEW b \in 0 .. (n - 1) PROVE s[b] = e[b + 1] - e[b]
      BY DEF GrowsBy
    <2>1. b \in 0 .. n /\ b + 1 \in 0 .. n
      OBVIOUS
    <2>2. PICK x \in Nat, y \in Nat : x = Clip(b * step, lo, hi) /\ y = Clip((b + 1) * step, lo, hi)
      BY <1>8, <2>1
    <2>3. e[b] = unit * x /\ e[b + 1] = unit * y
      BY <1>9, <2>1, <2>2
    <2>4. s[b] = unit * (y - x)
      BY <1>7, <2>2 DEF Gained
    <2> HIDE DEF e
    <2>5. unit * (y - x) = unit * y - unit * x
      OBVIOUS
    <2>. QED BY <2>3, <2>4, <2>5
  <1>11. e[0] = unit * lo /\ e[n] = unit * hi
    <2>1. 0 * step = 0 /\ 0 \in 0 .. n /\ n \in 0 .. n
      OBVIOUS
    <2>2. Clip(0, lo, hi) = lo
      BY <1>3 DEF Clip, Larger, Smaller
    <2>3. n * step \in Nat
      OBVIOUS
    <2>4. Clip(n * step, lo, hi) = hi
      BY <1>1, <1>3, <2>3 DEF Clip, Larger, Smaller
    <2>. QED BY <1>9, <2>1, <2>2, <2>4
  <1>12. SumFunctionOnSet(s, 0 .. (n - 1)) = unit * hi - unit * lo
    <2> HIDE DEF e
    <2>1. SumFunctionOnSet(s, 0 .. (n - 1)) = e[n] - e[0]
      BY <1>9, <1>10, Telescopes
    <2>. QED BY <1>11, <2>1
  <1>13. unit * hi - unit * lo = g * v
    <2>1. unit * (lo + width) = unit * lo + unit * width /\ unit * lo \in Int /\ unit * width \in Int
      OBVIOUS
    <2>2. unit * width = v * (width * each)
      BY <1>5
    <2>3. v * g = g * v
      OBVIOUS
    <2>4. hi = lo + width
      BY <1>1, <1>2
    <2>5. unit * hi = unit * lo + unit * width
      BY <2>1, <2>4
    <2>6. unit * width = g * v
      BY <1>4, <2>2, <2>3
    <2>. QED BY <2>1, <2>5, <2>6
  <1>14. \A b \in 0 .. (n - 1) : s[b] \in Nat
    <2> TAKE b \in 0 .. (n - 1)
    <2>1. PICK x \in Nat : x = gain(b)
      BY <1>6
    <2>2. s[b] = unit * x
      BY <1>7, <2>1
    <2>. QED BY <2>2
  <1>. QED BY <1>1, <1>12, <1>13, <1>14
(* The value area, by the widenings so far.                                  *)
Filled(vol, s) == 10 * AddUp(vol, s.lo .. s.hi) >= 7 * AddUp(vol, DOMAIN vol)
Whole(bins, s) == s.lo = 0 /\ s.hi = bins - 1
Under(vol, s) == IF s.lo > 0 THEN vol[s.lo - 1] ELSE -1
Over(vol, bins, s) == IF s.hi < bins - 1 THEN vol[s.hi + 1] ELSE -1
Widened(vol, bins, s) ==
  IF Filled(vol, s) \/ Whole(bins, s) THEN s
  ELSE IF Over(vol, bins, s) >= Under(vol, s) THEN [s EXCEPT !.hi = @ + 1]
  ELSE [s EXCEPT !.lo = @ - 1]
Narrowest(poc) == [lo |-> poc, hi |-> poc]

AreaStep(vol, poc, bins, g, s) ==
  IF s = {} THEN Narrowest(poc) ELSE Widened(vol, bins, g[s \ {Max(s)}])
AreaOf(vol, poc, bins, S) == CHOOSE g : g = [s \in SUBSET S |-> AreaStep(vol, poc, bins, g, s)]
Areas(vol, poc, bins, S, n) == \E g : g = [s \in Small(S, n) |-> AreaStep(vol, poc, bins, g, s)]

LEMMA AreaIs ==
    ASSUME NEW vol, NEW poc, NEW bins
    PROVE  LET S == DOMAIN [n \in 1 .. bins |-> n]
           IN  ValueArea(vol, poc, bins) = AreaOf(vol, poc, bins, S)[S]
  BY Zenon DEF ValueArea, FoldLeft, MapThenFoldSet, AreaOf, AreaStep, Widened, Filled, Whole,
               Under, Over, Narrowest

LEMMA WithoutTheGreatest ==
    ASSUME NEW k \in Nat, NEW n \in Nat, NEW s \in Small(1 .. k, n + 1), s # {}
    PROVE  s \ {Max(s)} \in Small(1 .. k, n)
  <1>1. IsFiniteSet(1 .. k) /\ s \in SUBSET (1 .. k)
    BY FS_Interval DEF Small
  <1>2. IsFiniteSet(s) /\ Cardinality(s) \in Nat /\ Cardinality(s) <= n + 1
    BY <1>1, FS_Subset, FS_CardinalityType DEF Small
  <1>3. Max(s) \in s
    <2>1. s \subseteq Int
      BY <1>1
    <2>. QED BY <1>2, <2>1, HasGreatest
  <1>4. Cardinality(s \ {Max(s)}) = Cardinality(s) - 1
    BY <1>2, <1>3, FS_RemoveElement
  <1>5. Cardinality(s \ {Max(s)}) <= n
    BY <1>2, <1>4
  <1>6. s \ {Max(s)} \in SUBSET (1 .. k)
    BY <1>1
  <1>. QED BY <1>5, <1>6 DEF Small

LEMMA AreasGrow ==
    ASSUME NEW k \in Nat, NEW vol, NEW poc, NEW bins, NEW n \in Nat, Areas(vol, poc, bins, 1 .. k, n)
    PROVE  Areas(vol, poc, bins, 1 .. k, n + 1)
  <1> DEFINE S == 1 .. k
  <1>1. IsFiniteSet(S)
    BY FS_Interval
  <1>2. \A s \in Small(S, n + 1) : s # {} => s \ {Max(s)} \in Small(S, n)
    BY WithoutTheGreatest
  <1>3. PICK g : g = [s \in Small(S, n) |-> AreaStep(vol, poc, bins, g, s)]
    BY DEF Areas
  <1> HIDE DEF S
  <1> DEFINE h == [s \in Small(S, n + 1) |-> AreaStep(vol, poc, bins, g, s)]
  <1>4. \A s \in Small(S, n) : s \in Small(S, n + 1)
    <2>1. \A s \in SUBSET S : Cardinality(s) \in Nat
      BY <1>1, FS_Subset, FS_CardinalityType
    <2>. QED BY <2>1 DEF Small
  <1>5. \A s \in Small(S, n) : h[s] = g[s]
    BY <1>3, <1>4
  <1>6. \A s \in Small(S, n + 1) : AreaStep(vol, poc, bins, h, s) = AreaStep(vol, poc, bins, g, s)
    <2> TAKE s \in Small(S, n + 1)
    <2>1. s # {} => h[s \ {Max(s)}] = g[s \ {Max(s)}]
      BY <1>2, <1>5
    <2> HIDE DEF h
    <2>. QED BY <2>1 DEF AreaStep
  <1>7. h = [s \in Small(S, n + 1) |-> AreaStep(vol, poc, bins, h, s)]
    BY <1>6, Zenon
  <1> HIDE DEF h
  <1>. QED BY <1>7 DEF Areas, S

LEMMA AreaEquation ==
    ASSUME NEW k \in Nat, NEW vol, NEW poc, NEW bins
    PROVE  \A s \in SUBSET (1 .. k) :
             AreaOf(vol, poc, bins, 1 .. k)[s] = AreaStep(vol, poc, bins, AreaOf(vol, poc, bins, 1 .. k), s)
  <1> DEFINE S == 1 .. k
             T == {n \in Nat : Areas(vol, poc, bins, S, n)}
  <1>1. IsFiniteSet(S)
    BY FS_Interval
  <1>2. \A n \in Nat : n \in T => n + 1 \in T
    BY AreasGrow
  <1> HIDE DEF S
  <1>3. Areas(vol, poc, bins, S, 0)
    <2> DEFINE z == [s \in Small(S, 0) |-> Narrowest(poc)]
    <2>1. \A s \in Small(S, 0) : s = {}
      <3> TAKE s \in Small(S, 0)
      <3>1. IsFiniteSet(s) /\ Cardinality(s) \in Nat /\ Cardinality(s) <= 0
        BY <1>1, FS_Subset, FS_CardinalityType DEF Small
      <3>. QED BY <3>1, FS_EmptySet
    <2>2. \A s \in Small(S, 0) : AreaStep(vol, poc, bins, z, s) = Narrowest(poc)
      BY <2>1 DEF AreaStep
    <2>3. z = [s \in Small(S, 0) |-> AreaStep(vol, poc, bins, z, s)]
      BY <2>2, Zenon
    <2> HIDE DEF z
    <2>. QED BY <2>3 DEF Areas
  <1>4. Nat \subseteq T
    <2> HIDE DEF T
    <2>1. 0 \in T
      BY <1>3 DEF T
    <2>. QED BY <1>2, <2>1, CountedUp
  <1>5. Areas(vol, poc, bins, S, Cardinality(S))
    BY <1>1, <1>4, FS_CardinalityType
  <1>6. Small(S, Cardinality(S)) = SUBSET S
    BY <1>1, FS_Subset DEF Small
  <1>7. \E g : g = [s \in SUBSET S |-> AreaStep(vol, poc, bins, g, s)]
    BY <1>5, <1>6 DEF Areas
  <1> DEFINE G == AreaOf(vol, poc, bins, S)
  <1>8. G = [s \in SUBSET S |-> AreaStep(vol, poc, bins, G, s)]
    BY <1>7, Zenon DEF AreaOf
  <1> HIDE DEF G
  <1>9. \A s \in SUBSET S : G[s] = AreaStep(vol, poc, bins, G, s)
    BY <1>8
  <1>. QED BY <1>9 DEF G, S

(* An area around the point of control that has been widened k times, unless *)
(* there was no need to.                                                     *)
IsVolumes(vol, bins) == DOMAIN vol = 0 .. (bins - 1) /\ \A b \in 0 .. (bins - 1) : vol[b] \in Nat
Encloses(vol, poc, bins, s, k) ==
  /\ s \in [lo : 0 .. (bins - 1), hi : 0 .. (bins - 1)]
  /\ s.lo <= poc /\ poc <= s.hi
  /\ Filled(vol, s) \/ Whole(bins, s) \/ s.hi - s.lo >= k

LEMMA WidenedEncloses ==
    ASSUME NEW bins \in Nat, NEW vol, IsVolumes(vol, bins), NEW poc \in 0 .. (bins - 1),
           NEW k \in Nat, NEW s, Encloses(vol, poc, bins, s, k)
    PROVE  Encloses(vol, poc, bins, Widened(vol, bins, s), k + 1)
  <1>1. PICK a \in 0 .. (bins - 1), z \in 0 .. (bins - 1) : s = [lo |-> a, hi |-> z]
    BY DEF Encloses
  <1>2. a \in Int /\ z \in Int /\ a <= poc /\ poc <= z /\ s.lo = a /\ s.hi = z
    BY <1>1 DEF Encloses
  <1>3. CASE Filled(vol, s) \/ Whole(bins, s)
    BY <1>3 DEF Encloses, Widened
  <1>4. CASE ~Filled(vol, s) /\ ~Whole(bins, s)
    <2>1. z - a >= k /\ (a # 0 \/ z # bins - 1)
      BY <1>2, <1>4 DEF Encloses, Whole
    <2>2. PICK u \in Int : u = Under(vol, s) /\ (a > 0 => u >= 0) /\ (a = 0 => u = -1)
      <3>1. a > 0 => a - 1 \in 0 .. (bins - 1)
        BY <1>2
      <3>. QED BY <1>2, <3>1 DEF Under, IsVolumes
    <2>3. PICK o \in Int : o = Over(vol, bins, s) /\ (z < bins - 1 => o >= 0) /\ (z = bins - 1 => o = -1)
      <3>1. z < bins - 1 => z + 1 \in 0 .. (bins - 1)
        BY <1>2
      <3>. QED BY <1>2, <3>1 DEF Over, IsVolumes
    <2>4. CASE o >= u
      <3>1. z < bins - 1
        BY <1>2, <2>1, <2>2, <2>3, <2>4
      <3>2. Widened(vol, bins, s) = [lo |-> a, hi |-> z + 1]
        BY <1>1, <1>4, <2>2, <2>3, <2>4 DEF Widened
      <3>. QED BY <1>2, <2>1, <3>1, <3>2 DEF Encloses
    <2>5. CASE o < u
      <3>1. a > 0
        BY <1>2, <2>1, <2>2, <2>3, <2>5
      <3>2. Widened(vol, bins, s) = [lo |-> a - 1, hi |-> z]
        BY <1>1, <1>4, <2>2, <2>3, <2>5 DEF Widened
      <3>. QED BY <1>2, <2>1, <3>1, <3>2 DEF Encloses
    <2>. QED BY <2>4, <2>5
  <1>. QED BY <1>3, <1>4

LEMMA AreaHolds ==
    ASSUME NEW bins \in Nat, NEW vol, IsVolumes(vol, bins), NEW poc \in 0 .. (bins - 1)
    PROVE  LET s == ValueArea(vol, poc, bins)
           IN  poc \in s.lo .. s.hi /\ Filled(vol, s)
  <1> DEFINE G == AreaOf(vol, poc, bins, 1 .. bins)
             T == {k \in Nat : k <= bins => Encloses(vol, poc, bins, G[1 .. k], k)}
  <1>1. ValueArea(vol, poc, bins) = G[1 .. bins]
    <2>1. DOMAIN [n \in 1 .. bins |-> n] = 1 .. bins
      OBVIOUS
    <2>. QED BY <2>1, AreaIs
  <1>2. \A s \in SUBSET (1 .. bins) : G[s] = AreaStep(vol, poc, bins, G, s)
    BY AreaEquation
  <1> HIDE DEF G
  <1>3. 0 \in T
    <2>1. 1 .. 0 = {}
      OBVIOUS
    <2>2. G[{}] = Narrowest(poc)
      BY <1>2 DEF AreaStep
    <2>3. Encloses(vol, poc, bins, Narrowest(poc), 0)
      BY DEF Encloses, Narrowest
    <2>. QED BY <2>1, <2>2, <2>3
  <1>4. \A k \in Nat : k \in T => k + 1 \in T
    <2> SUFFICES ASSUME NEW k \in Nat, k + 1 <= bins, Encloses(vol, poc, bins, G[1 .. k], k)
                 PROVE  Encloses(vol, poc, bins, G[1 .. (k + 1)], k + 1)
      OBVIOUS
    <2> DEFINE R == 1 .. (k + 1)
    <2>1. R \in SUBSET (1 .. bins) /\ R # {} /\ R \subseteq Int /\ k + 1 \in R
      <3>1. \A x \in R : x \in 1 .. bins /\ x \in Int
        OBVIOUS
      <3>2. k + 1 \in R
        OBVIOUS
      <3>. QED BY <3>1, <3>2
    <2>2. IsFiniteSet(R)
      BY FS_Interval
    <2>3. Max(R) \in R /\ \A y \in R : y <= Max(R)
      <3> HIDE DEF R
      <3>. QED BY <2>1, <2>2, HasGreatest
    <2>4. Max(R) = k + 1
      <3>1. Max(R) \in 1 .. (k + 1) /\ k + 1 <= Max(R)
        BY <2>1, <2>3
      <3>. QED BY <3>1
    <2>5. R \ {k + 1} = 1 .. k
      OBVIOUS
    <2> HIDE DEF R
    <2>6. G[R] = Widened(vol, bins, G[1 .. k])
      BY <1>2, <2>1, <2>4, <2>5 DEF AreaStep
    <2>. QED BY <2>6, WidenedEncloses DEF R
  <1>5. bins \in T
    <2> HIDE DEF T
    <2>. QED BY <1>3, <1>4, CountedUp
  <1>6. PICK s : s = ValueArea(vol, poc, bins)
    OBVIOUS
  <1>7. Encloses(vol, poc, bins, s, bins)
    BY <1>1, <1>5, <1>6
  <1>8. PICK a \in 0 .. (bins - 1), z \in 0 .. (bins - 1) :
           s = [lo |-> a, hi |-> z] /\ a <= poc /\ poc <= z
    BY <1>7 DEF Encloses
  <1>9. Filled(vol, s)
    <2>1. CASE Whole(bins, s)
      <3>1. s.lo .. s.hi = DOMAIN vol
        BY <2>1 DEF Whole, IsVolumes
      <3>2. AddUp(vol, DOMAIN vol) \in Nat
        <4> DEFINE S == 0 .. (bins - 1)
        <4>1. IsFiniteSet(S)
          BY FS_Interval
        <4>2. \A b \in S : vol[b] \in Nat
          BY DEF IsVolumes
        <4> HIDE DEF S
        <4>3. SumFunctionOnSet(vol, S) \in Nat
          BY <4>1, <4>2, SumIsNat
        <4>. QED BY <4>3 DEF S, AddUp, IsVolumes
      <3>. QED BY <3>1, <3>2 DEF Filled
    <2>2. ~(s.hi - s.lo >= bins)
      BY <1>8
    <2>. QED BY <1>7, <2>1, <2>2 DEF Encloses
  <1>. QED BY <1>6, <1>8, <1>9

(* The profile of a window: what the candles leave adds up to their volume,  *)
(* and the value area holds its share of it around the point of control.     *)
LEMMA ProfileAdds ==
    ASSUME NEW w \in Seq(Divided), StepOfAll(w) > 0, Len(w) > 0,
           NEW vol, vol = [b \in 0 .. (Bins - 1) |->
                             AddUp([i \in DOMAIN w |-> ProfileShare(w, w[i], b, Bins, Grain)], DOMAIN w)]
    PROVE  /\ IsVolumes(vol, Bins)
           /\ AddUp(vol, DOMAIN vol) = Grain * VolumeOf(w, DOMAIN w)
  <1> DEFINE m == Len(w)
             B == 0 .. (Bins - 1)
             s == [i \in 1 .. m |-> [b \in B |-> ProfileShare(w, w[i], b, Bins, Grain)]]
             t == [i \in 1 .. m |-> Grain * w[i].v]
             v == [i \in 1 .. m |-> w[i].v]
             row(b) == [i \in 1 .. m |-> s[i][b]]
  <1>1. m \in Nat /\ DOMAIN w = 1 .. m /\ IsFiniteSet(1 .. m)
    BY FS_Interval
  <1>2. IsFiniteSet(B)
    <2>1. 0 \in Int /\ Bins - 1 \in Int
      BY LibraryParameters
    <2>. QED BY <2>1, FS_Interval
  <1>3. \A i \in 1 .. m : /\ \A b \in B : s[i][b] \in Nat
                          /\ SumFunctionOnSet(s[i], B) = Grain * w[i].v
    <2> TAKE i \in 1 .. m
    <2> DEFINE f == s[i]
    <2>1. \A b \in 0 .. (Bins - 1) : f[b] = ProfileShare(w, w[i], b, Bins, Grain)
      OBVIOUS
    <2>2. i \in 1 .. Len(w)
      OBVIOUS
    <2> HIDE DEF f
    <2>3. CASE Span(w[i]) = 0
      BY <2>1, <2>2, <2>3, FlatShare DEF f
    <2>4. CASE Span(w[i]) # 0
      BY <2>1, <2>2, <2>4, SpreadShare DEF f
    <2>. QED BY <2>3, <2>4
  <1>4. vol = [b \in B |-> SumFunctionOnSet(row(b), 1 .. m)]
    <2>1. \A b \in B : [i \in DOMAIN w |-> ProfileShare(w, w[i], b, Bins, Grain)] = row(b)
      BY <1>1
    <2>. QED BY <1>1, <2>1 DEF AddUp
  <1>5. \A i \in 1 .. m : v[i] \in Int /\ t[i] = Grain * v[i] /\ t[i] = SumFunctionOnSet(s[i], B)
    <2> TAKE i \in 1 .. m
    <2>1. w[i].v \in Nat
      BY PricesAt
    <2>2. t[i] = Grain * w[i].v /\ v[i] = w[i].v
      OBVIOUS
    <2>. QED BY <1>3, <2>1, <2>2
  <1>6. IsVolumes(vol, Bins)
    <2>1. \A b \in B : SumFunctionOnSet(row(b), 1 .. m) \in Nat
      <3> TAKE b \in B
      <3> DEFINE f == row(b)
      <3>1. \A i \in 1 .. m : f[i] \in Nat
        BY <1>3
      <3> HIDE DEF f
      <3>2. SumFunctionOnSet(f, 1 .. m) \in Nat
        BY <1>1, <3>1, SumIsNat
      <3>. QED BY <3>2 DEF f
    <2> HIDE DEF row
    <2>2. DOMAIN vol = B /\ \A b \in B : vol[b] \in Nat
      BY <1>4, <2>1
    <2>. QED BY <2>2 DEF IsVolumes
  <1>7. DOMAIN vol = B
    BY <1>4
  <1>8. SumFunctionOnSet(vol, B) = SumFunctionOnSet(t, 1 .. m)
    <2>1. vol = [b \in B |-> SumFunctionOnSet([i \in 1 .. m |-> s[i][b]], 1 .. m)]
      BY <1>4
    <2> HIDE DEF m, B, s, t
    <2>2. Table(s, m, B)
      BY <1>3 DEF Table
    <2>3. m \in Nat /\ \A i \in 1 .. m : t[i] = SumFunctionOnSet(s[i], B)
      BY <1>1, <1>5
    <2>4. SumFunctionOnSet([b \in B |-> SumFunctionOnSet([i \in 1 .. m |-> s[i][b]], 1 .. m)], B)
            = SumFunctionOnSet(t, 1 .. m)
      BY <1>2, <2>2, <2>3, ColumnsAsRows
    <2>. QED BY <2>1, <2>4
  <1>9. SumFunctionOnSet(t, 1 .. m) = Grain * SumFunctionOnSet(v, 1 .. m)
    <2>1. Grain \in Int
      BY LibraryParameters
    <2> HIDE DEF m, t, v
    <2>2. IntsOn(v, 1 .. m)
      BY <1>5 DEF IntsOn
    <2>3. \A i \in 1 .. m : t[i] = Grain * v[i]
      BY <1>5
    <2>. QED BY <1>1, <2>1, <2>2, <2>3, SumOfTimes
  <1>10. VolumeOf(w, DOMAIN w) = SumFunctionOnSet(v, 1 .. m)
    BY <1>1 DEF VolumeOf, AddUp
  <1> HIDE DEF m, B, t, v
  <1>. QED BY <1>6, <1>7, <1>8, <1>9, <1>10 DEF AddUp

LEMMA ProfileRead ==
    ASSUME NEW w \in Seq(Divided), w # << >>,
           NEW p, p = VolumeProfile(w, Bins, Grain), p # None
    PROVE  /\ AddUp(p.vol, DOMAIN p.vol) = Grain * VolumeOf(w, DOMAIN w)
           /\ p.poc \in p.area.lo .. p.area.hi
           /\ 10 * AddUp(p.vol, p.area.lo .. p.area.hi) >= 7 * AddUp(p.vol, DOMAIN p.vol)
  <1> DEFINE vol == [b \in 0 .. (Bins - 1) |->
                       AddUp([i \in DOMAIN w |-> ProfileShare(w, w[i], b, Bins, Grain)], DOMAIN w)]
             tops == {b \in DOMAIN vol : \A d \in DOMAIN vol : vol[d] <= vol[b]}
             poc == Min(tops)
  <1>1. /\ ~(HighestOf(w, DOMAIN w) <= LowestOf(w, DOMAIN w))
        /\ p = [vol |-> vol, poc |-> poc, area |-> ValueArea(vol, poc, Bins)]
    BY Zenon DEF VolumeProfile
  <1>2. w \in Seq(Candles) /\ Len(w) \in Nat /\ Len(w) > 0 /\ DOMAIN w = 1 .. Len(w) /\ DOMAIN w # {}
    <2>1. w \in Seq(Candles) /\ Len(w) \in Nat /\ DOMAIN w = 1 .. Len(w)
      BY DEF Divided
    <2>2. Len(w) # 0
      BY <2>1
    <2>3. 1 \in DOMAIN w
      BY <2>1, <2>2
    <2>. QED BY <2>1, <2>2, <2>3
  <1>3. StepOfAll(w) > 0
    <2>1. HighestOf(w, DOMAIN w) \in Int /\ LowestOf(w, DOMAIN w) \in Int
      <3>1. DOMAIN w \in SUBSET (1 .. Len(w))
        BY <1>2
      <3>. QED BY <1>2, <3>1, ExtremesTyped
    <2>. QED BY <1>1, <2>1 DEF StepOfAll
  <1>4. PICK x : x = vol
    OBVIOUS
  <1>5. IsVolumes(x, Bins) /\ AddUp(x, DOMAIN x) = Grain * VolumeOf(w, DOMAIN w)
    <2> HIDE DEF tops
    <2>. QED BY <1>2, <1>3, <1>4, ProfileAdds
  <1>6. Bins \in Nat /\ Bins # 0
    BY LibraryParameters
  <1> HIDE DEF vol
  <1>7. tops = {b \in 0 .. (Bins - 1) : \A d \in 0 .. (Bins - 1) : x[d] <= x[b]}
    BY <1>4, <1>5 DEF IsVolumes
  <1>8. tops # {}
    <2> DEFINE S == {x[b] : b \in 0 .. (Bins - 1)}
               f == [b \in 0 .. (Bins - 1) |-> x[b]]
    <2>1. IsFiniteSet(0 .. (Bins - 1))
      <3>1. 0 \in Int /\ Bins - 1 \in Int
        BY <1>6
      <3>. QED BY <3>1, FS_Interval
    <2>2. S = {f[b] : b \in 0 .. (Bins - 1)}
      OBVIOUS
    <2> HIDE DEF f
    <2>3. IsFiniteSet({f[b] : b \in 0 .. (Bins - 1)})
      BY <2>1, FiniteImage
    <2>4. S \subseteq Int /\ S # {}
      <3>1. 0 \in 0 .. (Bins - 1)
        BY <1>6
      <3>. QED BY <1>5, <3>1 DEF IsVolumes
    <2>5. Max(S) \in S /\ \A y \in S : y <= Max(S)
      <3> HIDE DEF S
      <3>. QED BY <2>2, <2>3, <2>4, HasGreatest
    <2>6. PICK b \in 0 .. (Bins - 1) : x[b] = Max(S)
      BY <2>5
    <2>7. \A d \in 0 .. (Bins - 1) : x[d] \in S
      OBVIOUS
    <2> HIDE DEF S
    <2>8. b \in tops
      BY <1>7, <2>5, <2>6, <2>7
    <2>. QED BY <2>8
  <1>9. poc \in 0 .. (Bins - 1)
    <2>1. tops \subseteq Int
      BY <1>7
    <2>2. IsFiniteSet(tops)
      <3>1. IsFiniteSet(0 .. (Bins - 1))
        <4>1. 0 \in Int /\ Bins - 1 \in Int
          BY <1>6
        <4>. QED BY <4>1, FS_Interval
      <3>. QED BY <1>7, <3>1, FS_Subset
    <2>3. Min(tops) \in tops
      <3> HIDE DEF tops
      <3>. QED BY <1>8, <2>1, <2>2, HasLeast
    <2>. QED BY <1>7, <2>3
  <1> HIDE DEF poc
  <1>10. poc \in p.area.lo .. p.area.hi /\ Filled(x, p.area)
    <2>1. p.area = ValueArea(x, poc, Bins)
      BY <1>1, <1>4
    <2>. QED BY <1>5, <1>6, <1>9, <2>1, AreaHolds
  <1>11. p.vol = x /\ p.poc = poc
    BY <1>1, <1>4
  <1>. QED BY <1>5, <1>10, <1>11 DEF Filled

(* Every candle of a chart is one the shares of a contract divide among.     *)
Prepared == Charted => Window \in Seq(Divided)

LEMMA PreparedInit == StudyInit => Prepared
  <1> SUFFICES ASSUME StudyInit PROVE Prepared
    OBVIOUS
  <1>1. CASE \E w \in Charts, ctx \in Contexts : study = Chart(w, ctx, 0)
    <2>1. PICK w \in Charts, ctx \in Contexts : study = Chart(w, ctx, 0)
      BY <1>1
    <2>2. w \in Seq(Divided)
      BY SharesAreWhole
    <2>. QED BY <2>1, <2>2 DEF Prepared, Chart, Charted, Window
  <1>2. CASE study = Tape(<< >>)
    BY <1>2 DEF Prepared, Tape, Charted
  <1>3. CASE study = Vote(<< >>)
    BY <1>3 DEF Prepared, Vote, Charted
  <1>. QED BY <1>1, <1>2, <1>3 DEF StudyInit

LEMMA PreparedNext == Prepared /\ [StudyNext]_study => Prepared'
  <1> SUFFICES ASSUME Prepared, [StudyNext]_study PROVE Prepared'
    OBVIOUS
  <1>1. CASE CandleCloses
    <2>1. PICK k \in Shapes : study' = Grown(k) \/ study' = Slid(k)
      BY <1>1 DEF CandleCloses
    <2>2. study.data \in Seq(Divided) /\ k \in Divided
      BY <1>1, SharesAreWhole DEF CandleCloses, Prepared, Charted, Window
    <2>3. Append(study.data, k) \in Seq(Divided) /\ Tail(Append(study.data, k)) \in Seq(Divided)
      BY <2>2
    <2>4. study'.data \in Seq(Divided)
      BY <2>1, <2>3 DEF Grown, Slid, Chart
    <2>. QED BY <2>4 DEF Prepared, Window
  <1>2. CASE TradePrints
    BY <1>2 DEF TradePrints, Tape, Prepared, Charted
  <1>3. CASE SignalJoins
    BY <1>3 DEF SignalJoins, Vote, Prepared, Charted
  <1>4. CASE UNCHANGED study
    BY <1>4 DEF Prepared, Charted, Window
  <1>. QED BY <1>1, <1>2, <1>3, <1>4 DEF StudyNext

(* The profile of every window holds its volume to the last share, and its   *)
(* value area holds the point of control and seven tenths of that volume     *)
(* (analytics/indicators/volume_profile.py:84-128).                          *)
THEOREM ProfileKeepsVolume == StudySpec => []ProfileWhole
  <1>1. StudyInit => Prepared
    BY PreparedInit
  <1>2. Prepared /\ [StudyNext]_study => Prepared'
    BY PreparedNext
  <1>3. Prepared => ProfileWhole
    <2> SUFFICES ASSUME Prepared, Charted, Window # << >>,
                        VolumeProfile(Window, Bins, Grain) # None
                 PROVE  LET p == VolumeProfile(Window, Bins, Grain)
                        IN /\ AddUp(p.vol, DOMAIN p.vol) = Grain * VolumeOf(Window, DOMAIN Window)
                           /\ p.poc \in p.area.lo .. p.area.hi
                           /\ 10 * AddUp(p.vol, p.area.lo .. p.area.hi) >= 7 * AddUp(p.vol, DOMAIN p.vol)
      BY DEF ProfileWhole
    <2>1. Window \in Seq(Divided)
      BY DEF Prepared
    <2>. QED BY <2>1, ProfileRead
  <1>. QED BY <1>1, <1>2, <1>3, PTL DEF StudySpec

-----------------------------------------------------------------------------
(* Grades: what a vote, a score and a confidence come to.                    *)

(* A share of a whole, in hundredths.                                        *)
LEMMA ShareIsGrade ==
    ASSUME NEW a \in Nat, NEW b \in Nat, a <= b, b # 0
    PROVE  (100 * a) \div b \in 0 .. 100
  <1>1. PICK q \in Int : q = (100 * a) \div b
    OBVIOUS
  <1>2. PICK x \in Nat : x = 100 * a /\ x <= b * 100
    OBVIOUS
  <1>3. x = b * q + (x % b) /\ x % b \in 0 .. (b - 1)
    BY <1>1, <1>2
  <1>4. b * q <= b * 100 /\ b * q \in Int
    BY <1>2, <1>3
  <1>5. b * 100 < b * q <=> 100 < q
    BY Scaled
  <1>6. q <= 100
    BY <1>4, <1>5
  <1>7. b * q < b * 0 <=> q < 0
    BY Scaled
  <1>8. b * (q + 1) = b * q + b
    OBVIOUS
  <1>9. b * (q + 1) < b * 0 \/ q + 1 >= 0
    <2>1. b * (q + 1) < b * 0 <=> q + 1 < 0
      BY Scaled
    <2>. QED BY <2>1
  <1>10. b * (q + 1) > x /\ b * 0 = 0
    BY <1>3, <1>8
  <1>11. q + 1 # 0
    BY <1>2, <1>10
  <1>12. q >= 0
    <2>1. ~(b * (q + 1) < b * 0)
      BY <1>2, <1>10
    <2>. QED BY <1>9, <1>11, <2>1
  <1>. QED BY <1>1, <1>6, <1>12

(* A verdict for a direction or nobody, agreed on by a share of the voters.  *)
Graded(c) == c.direction \in {"LONG", "SHORT", "NEUTRAL"} /\ c.agreement \in 0 .. 100

LEMMA UnanimousGraded ==
    ASSUME NEW d \in {"LONG", "SHORT", "NEUTRAL"}, NEW score, NEW agreement \in 0 .. 100, NEW n
    PROVE  Graded(D!Unanimous(d, score, agreement, n))
  BY DEF Graded, D!Unanimous

LEMMA NobodyGraded ==
    /\ Graded(D!Nobody)
    /\ \A n : Graded(D!Unanimous("NEUTRAL", 0, 50, n))
  BY DEF Graded, D!Nobody, D!Unanimous

LEMMA MajorityGraded ==
    ASSUME NEW s \in Seq(Votes)
    PROVE  Graded(D!MajorityVoting(s))
  <1> DEFINE total == D!Cardinality(D!Voters(s))
             n == [d \in {"LONG", "SHORT"} |-> D!Cardinality(D!Side(s, d))]
             winner == IF n["LONG"] > n["SHORT"] THEN "LONG" ELSE "SHORT"
             of == [i \in D!Voters(s) |-> D!Score(s[i])]
             verdict == D!Unanimous(winner, (100 * D!AddUp(of, D!Side(s, winner))) \div n[winner],
                                    (100 * n[winner]) \div total, total)
  <1>1. /\ IsFiniteSet(D!Voters(s))
        /\ D!Side(s, "LONG") \subseteq D!Voters(s) /\ D!Side(s, "SHORT") \subseteq D!Voters(s)
    BY TurnedOver
  <1>2. /\ total \in Nat
        /\ n["LONG"] \in Nat /\ n["LONG"] <= total /\ n["SHORT"] \in Nat /\ n["SHORT"] <= total
    BY <1>1, FS_Subset, FS_CardinalityType, SameSize
  <1>3. winner \in {"LONG", "SHORT"}
    OBVIOUS
  <1>4. D!MajorityVoting(s) = CASE total = 0 -> D!Nobody
                                [] total # 0 /\ n["LONG"] = n["SHORT"]
                                     -> D!Unanimous("NEUTRAL", 0, 50, total)
                                [] OTHER -> verdict
    BY Zenon DEF D!MajorityVoting
  <1> HIDE DEF total, n, winner, of
  <1>5. n[winner] \in Nat /\ n[winner] <= total
    BY <1>2, <1>3
  <1>6. CASE total = 0
    <2>1. D!MajorityVoting(s) = D!Nobody
      BY <1>4, <1>6
    <2>. QED BY <2>1, NobodyGraded
  <1>7. CASE total # 0 /\ n["LONG"] = n["SHORT"]
    <2>1. D!MajorityVoting(s) = D!Unanimous("NEUTRAL", 0, 50, total)
      BY <1>4, <1>7
    <2>. QED BY <2>1, NobodyGraded
  <1>8. CASE total # 0 /\ n["LONG"] # n["SHORT"]
    <2>1. D!MajorityVoting(s) = verdict
      BY <1>4, <1>8
    <2>2. (100 * n[winner]) \div total \in 0 .. 100
      BY <1>2, <1>5, <1>8, ShareIsGrade
    <2>. QED BY <1>3, <2>1, <2>2, UnanimousGraded
  <1>. QED BY <1>6, <1>7, <1>8

(* A side of the scale weighs no more than the scale.                        *)
LEMMA MassInScale ==
    ASSUME NEW s \in Seq(Votes), NEW weight \in Weights, NEW d \in {"LONG", "SHORT"}
    PROVE  /\ Mass(s, weight, d) \in Nat /\ Scale(s, weight) \in Nat
           /\ Mass(s, weight, d) <= Scale(s, weight)
  <1> DEFINE f == D!Stake(s, weight)
             V == D!Voters(s)
             S == D!Side(s, d)
  <1>1. IsFiniteSet(V) /\ S \subseteq V
    BY TurnedOver
  <1>2. \A i \in V : f[i] \in Nat
    BY StakesTurned
  <1>3. Mass(s, weight, d) = SumFunctionOnSet(f, S) /\ Scale(s, weight) = SumFunctionOnSet(f, V)
    BY DEF Mass, Scale
  <1> HIDE DEF f, V, S
  <1>4. IsFiniteSet(S) /\ IsFiniteSet(V \ S) /\ S \cap (V \ S) = {} /\ V = S \cup (V \ S)
    BY <1>1, FS_Subset
  <1>5. /\ SumFunctionOnSet(f, S) \in Nat /\ SumFunctionOnSet(f, V \ S) \in Nat
        /\ SumFunctionOnSet(f, V) \in Nat
    <2>1. \A i \in S : f[i] \in Nat
      BY <1>1, <1>2
    <2>2. \A i \in V \ S : f[i] \in Nat
      BY <1>2
    <2>3. SumFunctionOnSet(f, S) \in Nat
      BY <1>4, <2>1, SumIsNat
    <2>4. SumFunctionOnSet(f, V \ S) \in Nat
      BY <1>4, <2>2, SumIsNat
    <2>5. SumFunctionOnSet(f, V) \in Nat
      BY <1>1, <1>2, SumIsNat
    <2>. QED BY <2>3, <2>4, <2>5
  <1>6. SumFunctionOnSet(f, S \cup (V \ S)) = SumFunctionOnSet(f, S) + SumFunctionOnSet(f, V \ S)
    <2>1. IntsOn(f, S \cup (V \ S))
      BY <1>2, <1>4 DEF IntsOn
    <2>. QED BY <1>4, <2>1, SumOfParts
  <1>7. SumFunctionOnSet(f, V) = SumFunctionOnSet(f, S) + SumFunctionOnSet(f, V \ S)
    <2>1. SumFunctionOnSet(f, V) = SumFunctionOnSet(f, S \cup (V \ S))
      BY <1>4
    <2>. QED BY <1>6, <2>1
  <1>8. SumFunctionOnSet(f, S) <= SumFunctionOnSet(f, V)
    BY <1>5, <1>7
  <1>. QED BY <1>3, <1>5, <1>8

LEMMA VotingGraded ==
    ASSUME NEW s \in Seq(Votes), NEW weight \in Weights
    PROVE  Graded(D!WeightedVoting(s, weight))
  <1> DEFINE of == [i \in D!Voters(s) |-> D!Score(s[i]) * D!Stake(s, weight)[i]]
             mass == [d \in {"LONG", "SHORT"} |-> D!AddUp(D!Stake(s, weight), D!Side(s, d))]
             total == mass["LONG"] + mass["SHORT"]
             winner == IF mass["LONG"] > mass["SHORT"] THEN "LONG" ELSE "SHORT"
             verdict == D!Unanimous(winner,
                             (100 * D!AddUp(of, D!Side(s, winner))) \div mass[winner],
                             (100 * mass[winner]) \div total, D!Cardinality(D!Voters(s)))
             tied == total =< 0 \/ mass["LONG"] = mass["SHORT"]
  <1>1. D!WeightedVoting(s, weight) = IF tied THEN D!Nobody ELSE verdict
    BY ZenonT(60) DEF D!WeightedVoting
  <1>2. mass["LONG"] \in Nat /\ mass["SHORT"] \in Nat
    <2>1. Mass(s, weight, "LONG") \in Nat /\ Mass(s, weight, "SHORT") \in Nat
      BY MassInScale
    <2>. QED BY <2>1, SameSum DEF Mass
  <1>3. winner \in {"LONG", "SHORT"}
    OBVIOUS
  <1>4. total \in Nat /\ mass[winner] \in Nat /\ mass[winner] <= total
    <2> HIDE DEF mass
    <2>. QED BY <1>2
  <1> HIDE DEF mass, winner, of, total
  <1>5. CASE tied
    <2>1. D!WeightedVoting(s, weight) = D!Nobody
      BY <1>1, <1>5
    <2>. QED BY <2>1, NobodyGraded
  <1>6. CASE ~tied
    <2>1. D!WeightedVoting(s, weight) = verdict /\ total # 0
      BY <1>1, <1>4, <1>6
    <2>2. (100 * mass[winner]) \div total \in 0 .. 100
      BY <1>4, <2>1, ShareIsGrade
    <2>. QED BY <1>3, <2>1, <2>2, UnanimousGraded
  <1>. QED BY <1>5, <1>6

LEMMA AverageGraded ==
    ASSUME NEW s \in Seq(Votes), NEW weight \in Weights
    PROVE  Graded(D!WeightedAverage(s, weight))
  <1> DEFINE total == Scale(s, weight)
             value == Balance(s, weight)
             winner == CASE value > 0 -> "LONG" [] value < 0 -> "SHORT" [] OTHER -> "NEUTRAL"
             n == D!Cardinality(D!Voters(s))
             w == D!Stake(s, weight)
             verdict == D!Unanimous(winner, (100 * D!Magnitude(value)) \div total,
                             (100 * D!AddUp(w, D!Side(s, winner))) \div total, n)
  <1>1. total \in Nat /\ value \in Int
    BY MassInScale, BalanceTurned
  <1>2. D!WeightedAverage(s, weight) = CASE total =< 0 -> D!Nobody
                                         [] total > 0 /\ value = 0 -> D!Unanimous("NEUTRAL", 0, 50, n)
                                         [] OTHER -> verdict
    <2>1. /\ D!AddUp(D!Stake(s, weight), D!Voters(s)) = Scale(s, weight)
          /\ D!AddUp(D!Signed(s, weight), D!Voters(s)) = value
      BY SameSum DEF Scale, Balance
    <2> HIDE DEF total, value
    <2>. QED BY <2>1, Zenon DEF D!WeightedAverage, total
  <1> HIDE DEF total, value, n
  <1>3. CASE total <= 0
    <2>1. D!WeightedAverage(s, weight) = D!Nobody
      BY <1>1, <1>2, <1>3
    <2>. QED BY <2>1, NobodyGraded
  <1>4. CASE total > 0 /\ value = 0
    <2>1. D!WeightedAverage(s, weight) = D!Unanimous("NEUTRAL", 0, 50, n)
      BY <1>1, <1>2, <1>4
    <2>. QED BY <2>1, NobodyGraded
  <1>5. CASE total > 0 /\ value # 0
    <2>1. winner \in {"LONG", "SHORT"}
      BY <1>1, <1>5
    <2>2. D!WeightedAverage(s, weight) = verdict
      BY <1>1, <1>2, <1>5
    <2> HIDE DEF winner, w
    <2>3. D!AddUp(w, D!Side(s, winner)) = Mass(s, weight, winner)
      BY SameSum DEF Mass, w
    <2>4. Mass(s, weight, winner) \in Nat /\ Mass(s, weight, winner) <= total
      BY <2>1, MassInScale DEF total
    <2>5. (100 * D!AddUp(w, D!Side(s, winner))) \div total \in 0 .. 100
      <3>1. total \in Nat /\ total # 0
        BY <1>1, <1>5
      <3>2. (100 * Mass(s, weight, winner)) \div total \in 0 .. 100
        BY <2>4, <3>1, ShareIsGrade
      <3>. QED BY <2>3, <3>2
    <2>. QED BY <2>1, <2>2, <2>5, UnanimousGraded
  <1>. QED BY <1>1, <1>3, <1>4, <1>5

LEMMA ConsensusGraded ==
    ASSUME NEW s \in Seq(Votes), NEW m \in D!Methods
    PROVE  Graded(D!Consensus(m, s, Panel))
  <1>1. CASE m = "majority_voting"
    <2>1. D!Consensus(m, s, Panel) = D!MajorityVoting(s)
      BY <1>1 DEF D!Consensus
    <2>. QED BY <2>1, MajorityGraded
  <1>2. CASE m = "weighted_voting"
    <2>1. D!Consensus(m, s, Panel) = D!WeightedVoting(s, Panel.weight)
      BY <1>2 DEF D!Consensus
    <2>. QED BY <2>1, VotingGraded, WeightsTyped
  <1>3. CASE m = "weighted_average"
    <2>1. D!Consensus(m, s, Panel) = D!WeightedAverage(s, Panel.weight)
      BY <1>3 DEF D!Consensus
    <2>. QED BY <2>1, AverageGraded, WeightsTyped
  <1>4. CASE m = "dynamic_weighting"
    <2> DEFINE weight == D!DynamicWeights(Panel.weight, Panel.performance)
    <2>1. D!Consensus(m, s, Panel) = D!WeightedAverage(s, weight)
      BY <1>4 DEF D!Consensus
    <2>2. weight \in Weights
      BY WeightsTyped
    <2> HIDE DEF weight
    <2>. QED BY <2>1, <2>2, AverageGraded
  <1>5. CASE m = "regime_weighting"
    <2> DEFINE weight == D!RegimeWeights(Panel.weight, Panel.multipliers, Panel.regime)
    <2>1. D!Consensus(m, s, Panel) = D!WeightedAverage(s, weight)
      BY <1>5 DEF D!Consensus
    <2>2. weight \in Weights
      BY WeightsTyped
    <2> HIDE DEF weight
    <2>. QED BY <2>1, <2>2, AverageGraded
  <1>. QED BY <1>1, <1>2, <1>3, <1>4, <1>5 DEF D!Methods

(* What a strategy sends is a setup for one of the two sides.                *)
IsSetup(x) == x.direction \in Directions /\ x = Setup(x.direction, x.entry, x.stop, x.target)
Sound(x) == x = None \/ IsSetup(x)

LEMMA SideTyped == \A y : Side(y) \in Directions
  BY DEF Side, Directions

LEMMA SetupSound ==
    ASSUME NEW d \in Directions, NEW entry, NEW stop, NEW target
    PROVE  IsSetup(Setup(d, entry, stop, target))
  BY DEF IsSetup, Setup

LEMMA ProtectedSound ==
    ASSUME NEW w, NEW d \in Directions, NEW x, NEW m, NEW rr
    PROVE  IsSetup(Protected(w, d, x, m, rr)) /\ IsSetup(AtMarket(w, d, m, rr))
  BY SetupSound, Zenon DEF Protected, AtMarket

LEMMA RetargetedSound ==
    ASSUME NEW x, IsSetup(x), NEW target
    PROVE  IsSetup(WithTarget(x, target))
  <1>1. WithTarget(x, target) = Setup(x.direction, x.entry, x.stop, target)
    BY DEF IsSetup, WithTarget, Setup
  <1>. QED BY <1>1, SetupSound DEF IsSetup

LEMMA ProtectedTarget ==
    ASSUME NEW w, NEW d \in Directions, NEW x, NEW m, NEW rr, NEW target
    PROVE  IsSetup(WithTarget(Protected(w, d, x, m, rr), target))
  BY ProtectedSound, RetargetedSound

LEMMA BreaksSound ==
    ASSUME NEW w, NEW smc
    PROVE  Sound(Bos(w, smc)) /\ Sound(Choch(w, smc)) /\ Sound(Mss(w, smc))
  <1>1. Sound(Bos(w, smc))
    <2> DEFINE event == LatestOf(RecentBreaks(w, smc, {"BOS"}))
               plain == Protected(w, Side(event.direction), Price(event.level), 75, 200)
    <2>1. Bos(w, smc) = None \/ Bos(w, smc) = plain
      BY Zenon DEF Bos
    <2> HIDE DEF event
    <2>2. IsSetup(plain)
      BY SideTyped, ProtectedSound
    <2>. QED BY <2>1, <2>2 DEF Sound
  <1>2. Sound(Choch(w, smc))
    <2> DEFINE event == LatestOf(RecentBreaks(w, smc, {"CHOCH"}))
               direction == Side(event.direction)
               origin == IF direction = "LONG" THEN LowOf(w, 10) ELSE HighOf(w, 10)
               plain == Protected(w, direction, origin, 50, 150)
               middle == Half(smc.zone.high, smc.zone.low)
    <2>1. Choch(w, smc) = None \/ Choch(w, smc) = plain \/ Choch(w, smc) = WithTarget(plain, middle)
      BY Zenon DEF Choch
    <2> HIDE DEF event, middle, origin
    <2>2. IsSetup(plain)
      BY SideTyped, ProtectedSound
    <2>3. IsSetup(WithTarget(plain, middle))
      BY <2>2, RetargetedSound
    <2>. QED BY <2>1, <2>2, <2>3 DEF Sound
  <1>3. Sound(Mss(w, smc))
    <2> DEFINE shifts == {b \in RecentBreaks(w, smc, {"CHOCH"}) : b.mss}
               direction == Side(LatestOf(shifts).direction)
               origin == IF direction = "LONG" THEN LowOf(w, 12) ELSE HighOf(w, 12)
               plain == Protected(w, direction, origin, 50, 250)
               edge == Price(IF direction = "LONG" THEN smc.zone.high ELSE smc.zone.low)
    <2>1. Mss(w, smc) = None \/ Mss(w, smc) = plain \/ Mss(w, smc) = WithTarget(plain, edge)
      BY Zenon DEF Mss
    <2> HIDE DEF shifts, edge, origin
    <2>2. IsSetup(plain)
      BY SideTyped, ProtectedSound
    <2>3. IsSetup(WithTarget(plain, edge))
      BY <2>2, RetargetedSound
    <2>. QED BY <2>1, <2>2, <2>3 DEF Sound
  <1>. QED BY <1>1, <1>2, <1>3

LEMMA InZoneSound ==
    ASSUME NEW smc, NEW z
    PROVE  IsSetup(InZone(smc, z))
  <1>1. ASSUME NEW x, IsSetup(x) PROVE IsSetup(PivotTarget(smc, x))
    <2> DEFINE kind == IF x.direction = "LONG" THEN "high" ELSE "low"
               prices == {s.price : s \in OfKind(smc.swings, kind)}
               target == Price(IF kind = "high" THEN Max(prices) ELSE Min(prices))
    <2>1. PivotTarget(smc, x) = x \/ PivotTarget(smc, x) = WithTarget(x, target)
      BY Zenon DEF PivotTarget
    <2> HIDE DEF target
    <2>. QED BY <1>1, <2>1, RetargetedSound
  <1> DEFINE direction == Side(z.direction)
             entry == Half(z.top, z.bottom)
             edge == Price(IF direction = "LONG" THEN z.bottom ELSE z.top)
             stop == ProtectiveStop(direction, edge, smc.atr, 50)
             x == Setup(direction, entry, stop, TargetFromRR(entry, stop, 200))
  <1>2. InZone(smc, z) = PivotTarget(smc, x)
    BY Zenon DEF InZone
  <1>3. IsSetup(x)
    BY SideTyped, SetupSound
  <1> HIDE DEF x
  <1>. QED BY <1>1, <1>2, <1>3

LEMMA ZonesSound ==
    ASSUME NEW w, NEW smc, NEW map
    PROVE  Sound(FairValueGap(w, smc)) /\ Sound(OrderBlock(w, smc)) /\ Sound(LiquiditySweep(w, map))
  <1>1. Sound(FairValueGap(w, smc))
    <2> DEFINE gap == LatestOf({g \in Aligned(smc, smc.fvgs) : 2 * g.open >= g.top - g.bottom})
    <2>1. FairValueGap(w, smc) = None \/ FairValueGap(w, smc) = InZone(smc, gap)
      BY Zenon DEF FairValueGap
    <2>. QED BY <2>1, InZoneSound DEF Sound
  <1>2. Sound(OrderBlock(w, smc))
    <2>1. OrderBlock(w, smc) = None \/ OrderBlock(w, smc) = InZone(smc, LatestOf(FreshBlocks(smc)))
      BY Zenon DEF OrderBlock
    <2>. QED BY <2>1, InZoneSound DEF Sound
  <1>3. Sound(LiquiditySweep(w, map))
    <2> DEFINE ok == {n \in DOMAIN map.hunts : map.hunts[n].rejection /\ map.hunts[n].i > Len(w) - 3}
               hunt == map.hunts[Max(ok)]
               direction == IF hunt.pool.kind = "low" THEN "LONG" ELSE "SHORT"
               reference == IF direction = "LONG" THEN w[hunt.i].l ELSE w[hunt.i].h
               plain == Protected(w, direction, Price(reference), 25, 200)
               opposite == NearestPool(map, LastOf(w).c, IF direction = "LONG" THEN "high" ELSE "low")
               far == [n |-> opposite.sum, d |-> opposite.count]
    <2>1. \/ LiquiditySweep(w, map) = None \/ LiquiditySweep(w, map) = plain
          \/ LiquiditySweep(w, map) = WithTarget(plain, far)
      BY Zenon DEF LiquiditySweep
    <2>2. direction \in Directions
      BY DEF Directions
    <2> HIDE DEF direction, reference, far
    <2>3. IsSetup(plain)
      BY <2>2, ProtectedSound
    <2>4. IsSetup(WithTarget(plain, far))
      BY <2>3, RetargetedSound
    <2>. QED BY <2>1, <2>3, <2>4 DEF Sound
  <1>. QED BY <1>1, <1>2, <1>3

LEMMA BreakoutsSound ==
    ASSUME NEW w, NEW b, NEW ctx, NEW bands, NEW slope
    PROVE  /\ Sound(RangeBreakout(w, b)) /\ Sound(OpeningRangeBreakout(w, ctx))
           /\ Sound(VwapBreakout(w, bands, slope))
  <1>0. "LONG" \in Directions /\ "SHORT" \in Directions
    BY DEF Directions
  <1>1. Sound(RangeBreakout(w, b))
    <2> DEFINE prior == (Len(w) - Lookback) .. (Len(w) - 1)
               height == HighestOf(w, prior) - LowestOf(w, prior)
               plain == Protected(w, Side(b.direction), Price(b.level), 50, 200)
               far == Price(LastOf(w).c + (IF b.direction = "up" THEN height ELSE -height))
    <2>1. RangeBreakout(w, b) = None \/ RangeBreakout(w, b) = WithTarget(plain, far)
      BY Zenon DEF RangeBreakout
    <2> HIDE DEF far
    <2>2. IsSetup(WithTarget(plain, far))
      BY SideTyped, ProtectedTarget
    <2>. QED BY <2>1, <2>2 DEF Sound
  <1>2. Sound(OpeningRangeBreakout(w, ctx))
    <2> DEFINE opening == OpeningRange(w, ctx)
               hi == HighestOf(w, opening)
               lo == LowestOf(w, opening)
               close == LastOf(w).c
               direction == IF close > hi THEN "LONG" ELSE "SHORT"
               x == Setup(direction, Price(close), Half(hi, lo),
                          Price(IF direction = "LONG" THEN close + hi - lo ELSE close - (hi - lo)))
    <2>1. OpeningRangeBreakout(w, ctx) = None \/ OpeningRangeBreakout(w, ctx) = x
      BY Zenon DEF OpeningRangeBreakout
    <2>2. direction \in Directions
      BY DEF Directions
    <2> HIDE DEF direction
    <2>3. IsSetup(x)
      BY <2>2, SetupSound
    <2>. QED BY <2>1, <2>3 DEF Sound
  <1>3. Sound(VwapBreakout(w, bands, slope))
    <2>1. \/ VwapBreakout(w, bands, slope) = None
          \/ VwapBreakout(w, bands, slope) = Protected(w, "LONG", Vwap(bands), 25, 200)
          \/ VwapBreakout(w, bands, slope) = Protected(w, "SHORT", Vwap(bands), 25, 200)
      BY DEF VwapBreakout
    <2>. QED BY <1>0, <2>1, ProtectedSound DEF Sound
  <1>. QED BY <1>1, <1>2, <1>3

LEMMA ReversionsSound ==
    ASSUME NEW w, NEW ctx, NEW bands, NEW p
    PROVE  /\ Sound(VwapMeanReversion(w, bands)) /\ Sound(MeanReversion(w, ctx))
           /\ Sound(VolumeProfileReversal(w, p))
  <1>0. "LONG" \in Directions /\ "SHORT" \in Directions
    BY DEF Directions
  <1>1. \A x, m, t : /\ IsSetup(WithTarget(Protected(w, "LONG", x, m, 0), t))
                     /\ IsSetup(WithTarget(Protected(w, "SHORT", x, m, 0), t))
    BY <1>0, ProtectedTarget
  <1>2. Sound(VwapMeanReversion(w, bands))
    <2>1. \/ VwapMeanReversion(w, bands) = None
          \/ VwapMeanReversion(w, bands) = WithTarget(Protected(w, "LONG", LowOf(w, 3), 75, 0), Vwap(bands))
          \/ VwapMeanReversion(w, bands) = WithTarget(Protected(w, "SHORT", HighOf(w, 3), 75, 0), Vwap(bands))
      BY Zenon DEF VwapMeanReversion
    <2>. QED BY <1>1, <2>1 DEF Sound
  <1>3. Sound(MeanReversion(w, ctx))
    <2> DEFINE mean == [n |-> AddUp([i \in DOMAIN w |-> w[i].c], DOMAIN w), d |-> Len(w)]
    <2>1. \/ MeanReversion(w, ctx) = None
          \/ MeanReversion(w, ctx) = WithTarget(Protected(w, "LONG", LowOf(w, 3), 75, 0), mean)
          \/ MeanReversion(w, ctx) = WithTarget(Protected(w, "SHORT", HighOf(w, 3), 75, 0), mean)
      BY Zenon DEF MeanReversion
    <2> HIDE DEF mean
    <2>. QED BY <1>1, <2>1 DEF Sound
  <1>4. Sound(VolumeProfileReversal(w, p))
    <2> DEFINE k == LastOf(w)
               poc == Times(Add(BinEdge(w, p.poc), BinEdge(w, p.poc + 1)), 50)
    <2>1. \/ VolumeProfileReversal(w, p) = None
          \/ VolumeProfileReversal(w, p) = WithTarget(Protected(w, "LONG", Price(k.l), 50, 0), poc)
          \/ VolumeProfileReversal(w, p) = WithTarget(Protected(w, "SHORT", Price(k.h), 50, 0), poc)
      BY Zenon DEF VolumeProfileReversal
    <2> HIDE DEF poc, k
    <2>. QED BY <1>1, <2>1 DEF Sound
  <1>. QED BY <1>2, <1>3, <1>4

LEMMA PullbacksSound ==
    ASSUME NEW w, NEW ctx, NEW structure
    PROVE  Sound(TrendPullback(w, ctx, structure)) /\ Sound(AnchoredVwapPullback(w, structure))
  <1>1. ASSUME NEW reference, NEW low, NEW high, NEW stopAt, NEW m
        PROVE  Sound(Pullback(w, structure, reference, low, high, stopAt, m))
    <2> DEFINE pivot(kind) == PivotOrNone(structure.swings, kind)
               ahead(setup, kind) == IF pivot(kind) = None THEN setup
                                     ELSE WithTarget(setup, Price(pivot(kind).price))
               long == Protected(w, "LONG", stopAt.long, m, 200)
               short == Protected(w, "SHORT", stopAt.short, m, 200)
               x == Pullback(w, structure, reference, low, high, stopAt, m)
    <2>1. x = ahead(long, "high") \/ x = ahead(short, "low") \/ x = None
      BY Zenon DEF Pullback
    <2>2. IsSetup(long) /\ IsSetup(short)
      BY ProtectedSound DEF Directions
    <2> HIDE DEF long, short, pivot
    <2>3. IsSetup(ahead(long, "high")) /\ IsSetup(ahead(short, "low"))
      BY <2>2, RetargetedSound
    <2> HIDE DEF ahead, x
    <2>4. x = None \/ IsSetup(x)
      BY <2>1, <2>3
    <2>. QED BY <2>4 DEF Sound, x
  <1>2. Sound(TrendPullback(w, ctx, structure))
    <2>1. \/ TrendPullback(w, ctx, structure) = None
          \/ TrendPullback(w, ctx, structure) =
               Pullback(w, structure, ctx.ema, LowOf(w, 2), HighOf(w, 2),
                        [long |-> LowOf(w, 2), short |-> HighOf(w, 2)], 50)
      BY Zenon DEF TrendPullback
    <2>. QED BY <1>1, <2>1 DEF Sound
  <1>3. Sound(AnchoredVwapPullback(w, structure))
    <2> DEFINE pivot == PivotOrNone(structure.swings, IF structure.trend = "up" THEN "low" ELSE "high")
               b == AnchoredVwap(w, pivot.i)
    <2>1. \/ AnchoredVwapPullback(w, structure) = None
          \/ AnchoredVwapPullback(w, structure) =
               Pullback(w, structure, Vwap(b), LowOf(w, 1), HighOf(w, 1),
                        [long |-> Vwap(b), short |-> Vwap(b)], 75)
      BY Zenon DEF AnchoredVwapPullback
    <2> HIDE DEF b
    <2>. QED BY <1>1, <2>1 DEF Sound
  <1>. QED BY <1>2, <1>3

LEMMA MomentumSound ==
    ASSUME NEW w, NEW base, NEW impulse, NEW prior, NEW structure
    PROVE  /\ Sound(MomentumContinuation(w, base, impulse)) /\ Sound(AtrExpansion(w))
           /\ Sound(VolatilityCompression(w, prior, structure))
  <1>0. "LONG" \in Directions /\ "SHORT" \in Directions
    BY DEF Directions
  <1>1. Sound(MomentumContinuation(w, base, impulse))
    <2> DEFINE during == impulse.first .. Len(base)
               pull == (Len(base) + 1) .. Len(w)
               a == Atr(base, AtrPeriod)
               now == Atr(w, AtrPeriod)
               range == [n |-> impulse.net * a.n * now.sum, d |-> a.sum * now.n]
               long == Protected(w, "LONG", Price(LowestOf(w, pull)), 50, 0)
               short == Protected(w, "SHORT", Price(HighestOf(w, pull)), 50, 0)
               up == Add(Price(HighestOf(w, during)), Times(range, 50))
               down == Subtract(Price(LowestOf(w, during)), Times(range, 50))
    <2>1. \/ MomentumContinuation(w, base, impulse) = None
          \/ MomentumContinuation(w, base, impulse) = WithTarget(long, up)
          \/ MomentumContinuation(w, base, impulse) = WithTarget(short, down)
      BY Zenon DEF MomentumContinuation
    <2>2. IsSetup(long) /\ IsSetup(short)
      BY <1>0, ProtectedSound
    <2> HIDE DEF long, short, up, down
    <2>. QED BY <2>1, <2>2, RetargetedSound DEF Sound
  <1>2. Sound(AtrExpansion(w))
    <2> DEFINE direction == IF Bullish(LastOf(w)) THEN "LONG" ELSE "SHORT"
    <2>1. AtrExpansion(w) = None \/ AtrExpansion(w) = AtMarket(w, direction, 100, 150)
      BY Zenon DEF AtrExpansion
    <2>2. direction \in Directions
      BY <1>0
    <2> HIDE DEF direction
    <2>. QED BY <2>1, <2>2, ProtectedSound DEF Sound
  <1>3. Sound(VolatilityCompression(w, prior, structure))
    <2> DEFINE height == structure.high - structure.low
               close == LastOf(w).c
               long == Setup("LONG", Price(close), Price(structure.low), Price(close + height))
               short == Setup("SHORT", Price(close), Price(structure.high), Price(close - height))
               x == VolatilityCompression(w, prior, structure)
    <2>1. x = None \/ x = long \/ x = short
      BY Zenon DEF VolatilityCompression
    <2>2. IsSetup(long) /\ IsSetup(short)
      BY <1>0, SetupSound
    <2> HIDE DEF long, short, x
    <2>3. x = None \/ IsSetup(x)
      BY <2>1, <2>2
    <2>. QED BY <2>3 DEF Sound, x
  <1>. QED BY <1>1, <1>2, <1>3

LEMMA FlowsSound ==
    ASSUME NEW w, NEW ctx, NEW f
    PROVE  Sound(OrderbookImbalance(w, ctx)) /\ Sound(Cvd(w, f)) /\ Sound(DeltaConfirmation(w, f))
  <1>0. \A m, rr : IsSetup(AtMarket(w, "LONG", m, rr)) /\ IsSetup(AtMarket(w, "SHORT", m, rr))
    BY ProtectedSound DEF Directions
  <1>1. \/ OrderbookImbalance(w, ctx) = None
        \/ OrderbookImbalance(w, ctx) = AtMarket(w, "LONG", 60, 150)
        \/ OrderbookImbalance(w, ctx) = AtMarket(w, "SHORT", 60, 150)
    BY Zenon DEF OrderbookImbalance
  <1>2. \/ Cvd(w, f) = None
        \/ Cvd(w, f) = AtMarket(w, "LONG", 120, 200)
        \/ Cvd(w, f) = AtMarket(w, "SHORT", 120, 200)
    BY DEF Cvd
  <1>3. \/ DeltaConfirmation(w, f) = None
        \/ DeltaConfirmation(w, f) = AtMarket(w, "LONG", 100, 150)
        \/ DeltaConfirmation(w, f) = AtMarket(w, "SHORT", 100, 150)
    BY Zenon DEF DeltaConfirmation
  <1>. QED BY <1>0, <1>1, <1>2, <1>3 DEF Sound

LEMMA EvaluationSound ==
    ASSUME NEW s \in Library, NEW w, NEW ctx
    PROVE  Sound(Evaluate(s, w, ctx))
  <1>1. CASE s \in {"bos", "choch", "mss"}
    <2>1. Evaluate(s, w, ctx) \in {Bos(w, AnalyzeSMC(w)), Choch(w, AnalyzeSMC(w)), Mss(w, AnalyzeSMC(w))}
      BY <1>1 DEF Evaluate
    <2>. QED BY <2>1, BreaksSound
  <1>2. CASE s \in {"fair_value_gap", "order_block", "liquidity_sweep"}
    <2>1. Evaluate(s, w, ctx) \in {FairValueGap(w, AnalyzeSMC(w)), OrderBlock(w, AnalyzeSMC(w)),
                                   LiquiditySweep(w, AnalyzeLiquidity(w))}
      BY <1>2 DEF Evaluate
    <2>. QED BY <2>1, ZonesSound
  <1>3. CASE s \in {"range_breakout", "opening_range_breakout", "vwap_breakout"}
    <2>1. Evaluate(s, w, ctx) \in {RangeBreakout(w, DetectBreakout(w, 120)), OpeningRangeBreakout(w, ctx),
                                   VwapBreakout(w, SessionBands(w, ctx),
                                                VwapSlope(w, Larger(1, ctx.anchor), SlopeBars))}
      BY <1>3 DEF Evaluate
    <2>. QED BY <2>1, BreakoutsSound
  <1>4. CASE s \in {"vwap_mean_reversion", "mean_reversion", "volume_profile"}
    <2>1. Evaluate(s, w, ctx) \in {VwapMeanReversion(w, SessionBands(w, ctx)), MeanReversion(w, ctx),
                                   VolumeProfileReversal(w, VolumeProfile(w, Bins, Grain))}
      BY <1>4 DEF Evaluate
    <2>. QED BY <2>1, ReversionsSound
  <1>5. CASE s \in {"trend_pullback", "anchored_vwap"}
    <2>1. Evaluate(s, w, ctx) \in {TrendPullback(w, ctx, AnalyzeStructure(w, Band)),
                                   AnchoredVwapPullback(w, AnalyzeStructure(w, Band))}
      BY <1>5 DEF Evaluate
    <2>. QED BY <2>1, PullbacksSound
  <1>6. CASE s \in {"momentum_continuation", "atr_expansion", "volatility_compression"}
    <2> DEFINE prior == SubSeq(w, 1, Len(w) - 1)
               base == SubSeq(w, 1, Len(w) - PullbackBars)
    <2>1. Evaluate(s, w, ctx) \in {MomentumContinuation(w, base, DetectImpulse(base, 3)), AtrExpansion(w),
                                   VolatilityCompression(w, prior, AnalyzeStructure(prior, Band))}
      BY <1>6 DEF Evaluate
    <2>. QED BY <2>1, MomentumSound
  <1>7. CASE s \in {"orderbook_imbalance", "cvd", "delta_confirmation"}
    <2> DEFINE flow == AnalyzeOrderFlow(ctx.trades, Buckets)
    <2>1. Evaluate(s, w, ctx) \in {OrderbookImbalance(w, ctx), Cvd(w, flow), DeltaConfirmation(w, flow)}
      BY <1>7 DEF Evaluate
    <2>. QED BY <2>1, FlowsSound
  <1>. QED BY <1>1, <1>2, <1>3, <1>4, <1>5, <1>6, <1>7 DEF Library

(* Grades in hundredths, weighed: between nothing and all of the weight.     *)
LEMMA WeighedGrades ==
    ASSUME NEW S, IsFiniteSet(S), NEW weight, NEW grade, NEW f,
           \A c \in S : weight[c] \in Nat /\ grade[c] \in 0 .. 100 /\ f[c] = weight[c] * grade[c],
           SumsTo(weight, S, 100)
    PROVE  SumFunctionOnSet(f, S) \div 100 \in 0 .. 100
  <1> DEFINE g == [c \in S |-> 100 * weight[c]]
  <1>1. \A c \in S : f[c] \in Nat /\ g[c] = 100 * weight[c] /\ f[c] <= 100 * weight[c]
    <2> TAKE c \in S
    <2>1. PICK a \in Nat : a = weight[c]
      OBVIOUS
    <2>2. PICK b \in Nat, k \in Nat : b = grade[c] /\ b + k = 100
      <3>1. grade[c] \in Nat /\ 100 - grade[c] \in Nat /\ grade[c] + (100 - grade[c]) = 100
        OBVIOUS
      <3>. QED BY <3>1
    <2>3. a * b \in Nat /\ a * k \in Nat /\ a * (b + k) = a * b + a * k
      OBVIOUS
    <2>4. a * b <= a * 100
      BY <2>2, <2>3
    <2>. QED BY <2>1, <2>2, <2>3, <2>4
  <1> HIDE DEF g
  <1>2. \A c \in S : weight[c] \in Int /\ f[c] \in Int /\ g[c] \in Int
    BY <1>1
  <1>3. IntsOn(f, S) /\ IntsOn(g, S) /\ IntsOn(weight, S) /\ AtMostOn(f, g, S)
    BY <1>1, <1>2 DEF IntsOn, AtMostOn
  <1>4. SumFunctionOnSet(f, S) \in Nat
    BY <1>1, SumIsNat
  <1>5. SumFunctionOnSet(f, S) <= SumFunctionOnSet(g, S)
    BY <1>3, SumIsMonotone
  <1>6. SumFunctionOnSet(g, S) = 100 * SumFunctionOnSet(weight, S)
    <2>1. \A c \in S : g[c] = 100 * weight[c]
      BY <1>1
    <2>2. 100 \in Int
      OBVIOUS
    <2>. QED BY <1>3, <2>1, <2>2, SumOfTimes
  <1>7. SumFunctionOnSet(weight, S) = 100
    BY DEF SumsTo
  <1>8. SumFunctionOnSet(f, S) <= 10000
    BY <1>4, <1>5, <1>6, <1>7
  <1>. QED BY <1>4, <1>8

LEMMA OneMoreWeight ==
    ASSUME NEW W, NEW S, IsFiniteSet(S), IntsOn(W, S), NEW x, x \notin S,
           NEW a \in Nat, SumsTo(W, S, a), NEW b \in Nat, W[x] = b
    PROVE  IsFiniteSet(S \cup {x}) /\ IntsOn(W, S \cup {x}) /\ SumsTo(W, S \cup {x}, a + b)
  <1>1. AgreeOn(W, W, S) /\ IntsOn(W, S \cup {x})
    BY DEF AgreeOn, IntsOn
  <1>2. IsFiniteSet(S \cup {x})
    BY FS_AddElement
  <1>3. a \in Int /\ b \in Int
    OBVIOUS
  <1>4. SumsTo(W, S \cup {x}, a + b)
    BY <1>1, <1>3, SumWithOneMore
  <1>. QED BY <1>1, <1>2, <1>4

Weighs(W, S, a) == IsFiniteSet(S) /\ IntsOn(W, S) /\ SumsTo(W, S, a)

LEMMA WeighsMore ==
    ASSUME NEW W, NEW S, NEW a \in Nat, Weighs(W, S, a), NEW x, x \notin S,
           NEW b \in Nat, W[x] = b, NEW c, c = a + b
    PROVE  Weighs(W, S \cup {x}, c)
  BY OneMoreWeight DEF Weighs

LEMMA WeighsNothing == ASSUME NEW W PROVE Weighs(W, {}, 0)
  BY FS_EmptySet, SumOfNothing DEF Weighs, IntsOn, SumsTo

LEMMA ScoreWeightsAddUp == SumsTo(ScoreWeights, DOMAIN ScoreWeights, 100)
  <1> DEFINE W == ScoreWeights
             A == {} \cup {"quality"}
             B == A \cup {"strength"}
             C == B \cup {"context"}
             E == C \cup {"probability"}
             F == E \cup {"risk"}
  <1>1. /\ W["quality"] = 25 /\ W["strength"] = 20 /\ W["context"] = 20
        /\ W["probability"] = 20 /\ W["risk"] = 15
        /\ DOMAIN W = F
    BY DEF ScoreWeights
  <1>2. /\ "quality" \notin {}
        /\ "strength" \notin A
        /\ "context" \notin B
        /\ "probability" \notin C
        /\ "risk" \notin E
    OBVIOUS
  <1> HIDE DEF W
  <1>3. Weighs(W, {}, 0)
    BY WeighsNothing
  <1>4. Weighs(W, A, 25)
    BY <1>1, <1>2, <1>3, WeighsMore
  <1> HIDE DEF A
  <1>5. Weighs(W, B, 45)
    BY <1>1, <1>2, <1>4, WeighsMore
  <1> HIDE DEF B
  <1>6. Weighs(W, C, 65)
    BY <1>1, <1>2, <1>5, WeighsMore
  <1> HIDE DEF C
  <1>7. Weighs(W, E, 85)
    BY <1>1, <1>2, <1>6, WeighsMore
  <1> HIDE DEF E
  <1>8. Weighs(W, F, 100)
    BY <1>1, <1>2, <1>7, WeighsMore
  <1> HIDE DEF F
  <1>. QED BY <1>1, <1>8 DEF W, Weighs

LEMMA ConfidenceWeightsAddUp == SumsTo(ConfidenceWeights, DOMAIN ConfidenceWeights, 100)
  <1> DEFINE W == ConfidenceWeights
             A == {} \cup {"volume"}
             B == A \cup {"volatility"}
             C == B \cup {"liquidity"}
             E == C \cup {"regime"}
             F == E \cup {"confirmations"}
             G == F \cup {"quality"}
  <1>1. /\ W["volume"] = 15 /\ W["volatility"] = 15 /\ W["liquidity"] = 15
        /\ W["regime"] = 20 /\ W["confirmations"] = 25 /\ W["quality"] = 10
        /\ DOMAIN W = G
    BY DEF ConfidenceWeights
  <1>2. /\ "volume" \notin {}
        /\ "volatility" \notin A
        /\ "liquidity" \notin B
        /\ "regime" \notin C
        /\ "confirmations" \notin E
        /\ "quality" \notin F
    OBVIOUS
  <1> HIDE DEF W
  <1>3. Weighs(W, {}, 0)
    BY WeighsNothing
  <1>4. Weighs(W, A, 15)
    BY <1>1, <1>2, <1>3, WeighsMore
  <1> HIDE DEF A
  <1>5. Weighs(W, B, 30)
    BY <1>1, <1>2, <1>4, WeighsMore
  <1> HIDE DEF B
  <1>6. Weighs(W, C, 45)
    BY <1>1, <1>2, <1>5, WeighsMore
  <1> HIDE DEF C
  <1>7. Weighs(W, E, 65)
    BY <1>1, <1>2, <1>6, WeighsMore
  <1> HIDE DEF E
  <1>8. Weighs(W, F, 90)
    BY <1>1, <1>2, <1>7, WeighsMore
  <1> HIDE DEF F
  <1>9. Weighs(W, G, 100)
    BY <1>1, <1>2, <1>8, WeighsMore
  <1> HIDE DEF G
  <1>. QED BY <1>1, <1>9 DEF W, Weighs

LEMMA FiniteNames ==
    /\ IsFiniteSet({"quality", "strength", "context", "probability", "risk"})
    /\ IsFiniteSet({"volume", "volatility", "liquidity", "regime", "confirmations", "quality"})
  <1> DEFINE A == {} \cup {"quality"}
             B == A \cup {"strength"}
             C == B \cup {"context"}
             E == C \cup {"probability"}
             F == {} \cup {"volume"}
             G == F \cup {"volatility"}
             H == G \cup {"liquidity"}
             I == H \cup {"regime"}
             J == I \cup {"confirmations"}
  <1>1. /\ {"quality", "strength", "context", "probability", "risk"} = E \cup {"risk"}
        /\ {"volume", "volatility", "liquidity", "regime", "confirmations", "quality"} = J \cup {"quality"}
    OBVIOUS
  <1>2. \A S, x : IsFiniteSet(S) => IsFiniteSet(S \cup {x})
    BY FS_AddElement
  <1>3. IsFiniteSet({})
    BY FS_EmptySet
  <1>4. IsFiniteSet(A) /\ IsFiniteSet(F)
    BY <1>2, <1>3
  <1> HIDE DEF A, F
  <1>5. IsFiniteSet(B) /\ IsFiniteSet(G)
    BY <1>2, <1>4
  <1> HIDE DEF B, G
  <1>6. IsFiniteSet(C) /\ IsFiniteSet(H)
    BY <1>2, <1>5
  <1> HIDE DEF C, H
  <1>7. IsFiniteSet(E) /\ IsFiniteSet(I)
    BY <1>2, <1>6
  <1> HIDE DEF E, I
  <1>8. IsFiniteSet(J)
    BY <1>2, <1>7
  <1> HIDE DEF J
  <1>9. IsFiniteSet(E \cup {"risk"}) /\ IsFiniteSet(J \cup {"quality"})
    BY <1>2, <1>7, <1>8
  <1>. QED BY <1>1, <1>9

LEMMA ClampedGrade == ASSUME NEW x \in Int PROVE ClampGrade(x) \in 0 .. 100
  BY DEF ClampGrade, Larger, Smaller

LEMMA ScoreGraded ==
    ASSUME NEW g \in [DOMAIN ScoreWeights -> Int]
    PROVE  Score(g) \in 0 .. 100
  <1> DEFINE S == DOMAIN ScoreWeights
             of(c) == IF c = "risk" THEN ClampGrade(100 - g[c]) ELSE ClampGrade(g[c])
             grade == [c \in S |-> of(c)]
             f == [c \in S |-> ScoreWeights[c] * of(c)]
  <1>1. \A c \in S : ScoreWeights[c] \in Nat
    BY DEF ScoreWeights
  <1>2. IsFiniteSet(S)
    <2>1. S = {"quality", "strength", "context", "probability", "risk"}
      BY DEF ScoreWeights
    <2>. QED BY <2>1, FiniteNames
  <1>3. \A c \in S : of(c) \in 0 .. 100
    <2> TAKE c \in S
    <2>1. g[c] \in Int /\ 100 - g[c] \in Int
      OBVIOUS
    <2>. QED BY <2>1, ClampedGrade
  <1>4. \A c \in S : grade[c] \in 0 .. 100 /\ f[c] = ScoreWeights[c] * grade[c]
    <2> HIDE DEF of
    <2>. QED BY <1>3
  <1>5. Score(g) = SumFunctionOnSet(f, S) \div 100
    BY Zenon DEF Score, AddUp
  <1>6. SumsTo(ScoreWeights, S, 100)
    BY ScoreWeightsAddUp
  <1> HIDE DEF S, f, grade
  <1>. QED BY <1>1, <1>2, <1>4, <1>5, <1>6, WeighedGrades

LEMMA ConfidenceGraded ==
    ASSUME NEW s, NEW ctx, ctx.quality \in Int, NEW passed \in Nat, NEW asked \in Nat, passed <= asked
    PROVE  Confidence(s, ctx, passed, asked) \in 0 .. 100
  <1> DEFINE regime == RegimeScore(ctx.regime, PreferredRegimes(s))
             confirmed == IF asked = 0 THEN 75 ELSE (100 * passed) \div asked
             quality == ClampGrade(ctx.quality)
             factor == [volume |-> IF ctx.volumeSufficient THEN 100 ELSE 30,
                        volatility |-> IF ctx.volatility \in PreferredVolatility(s) THEN 100 ELSE 60,
                        liquidity |-> IF ctx.spreadElevated THEN 50 ELSE 100,
                        regime |-> regime, confirmations |-> confirmed, quality |-> quality]
             S == DOMAIN factor
             f == [c \in S |-> ConfidenceWeights[c] * factor[c]]
  <1>1. regime \in 0 .. 100
    BY DEF RegimeScore
  <1>2. confirmed \in 0 .. 100
    <2>1. CASE asked = 0
      BY <2>1
    <2>2. CASE asked # 0
      BY <2>2, ShareIsGrade
    <2>. QED BY <2>1, <2>2
  <1>3. quality \in 0 .. 100
    BY ClampedGrade
  <1>4. Confidence(s, ctx, passed, asked) = SumFunctionOnSet(f, S) \div 100
    BY Zenon DEF Confidence, AddUp
  <1> HIDE DEF regime, confirmed, quality
  <1>5. S = {"volume", "volatility", "liquidity", "regime", "confirmations", "quality"}
    OBVIOUS
  <1>6. S = DOMAIN ConfidenceWeights /\ \A c \in S : ConfidenceWeights[c] \in Nat
    BY DEF ConfidenceWeights
  <1>7. \A c \in S : factor[c] \in 0 .. 100
    BY <1>1, <1>2, <1>3
  <1>8. \A c \in S : f[c] = ConfidenceWeights[c] * factor[c]
    OBVIOUS
  <1>9. SumsTo(ConfidenceWeights, S, 100)
    BY <1>6, ConfidenceWeightsAddUp
  <1>10. IsFiniteSet(S)
    BY <1>5, FiniteNames
  <1> HIDE DEF S, f, factor
  <1>. QED BY <1>4, <1>6, <1>7, <1>8, <1>9, <1>10, WeighedGrades

(* A strategy asks for one or two confirmations, and no more can pass.       *)
LEMMA ConfirmationsCounted ==
    ASSUME NEW s, NEW passed \in SUBSET ConfirmationsOf(s)
    PROVE  /\ Cardinality(passed) \in Nat /\ Cardinality(ConfirmationsOf(s)) \in Nat
           /\ Cardinality(passed) <= Cardinality(ConfirmationsOf(s))
  <1>1. \/ ConfirmationsOf(s) = {"volume", "delta"} \/ ConfirmationsOf(s) = {"volatility", "volume"}
        \/ ConfirmationsOf(s) = {"delta", "cvd"} \/ ConfirmationsOf(s) = {"volume", "spread"}
        \/ ConfirmationsOf(s) = {"delta", "spread"} \/ ConfirmationsOf(s) = {"delta"}
        \/ ConfirmationsOf(s) = {"volume"}
    BY DEF ConfirmationsOf
  <1>2. IsFiniteSet(ConfirmationsOf(s))
    <2>1. \A S, x : IsFiniteSet(S) => IsFiniteSet(S \cup {x})
      BY FS_AddElement
    <2>2. IsFiniteSet({})
      BY FS_EmptySet
    <2>3. \A a : IsFiniteSet({} \cup {a})
      BY <2>1, <2>2
    <2>4. \A a : {} \cup {a} = {a}
      OBVIOUS
    <2>5. \A a : IsFiniteSet({a})
      BY <2>3, <2>4
    <2>6. \A a, b : IsFiniteSet({a} \cup {b})
      BY <2>1, <2>5
    <2>7. \A a, b : {a} \cup {b} = {a, b}
      OBVIOUS
    <2>8. \A a, b : IsFiniteSet({a, b})
      <3> TAKE a, b
      <3>1. IsFiniteSet({a} \cup {b}) /\ {a} \cup {b} = {a, b}
        BY <2>6, <2>7
      <3>. QED BY <3>1, Zenon
    <2>. QED BY <1>1, <2>5, <2>8
  <1>3. IsFiniteSet(passed) /\ Cardinality(passed) <= Cardinality(ConfirmationsOf(s))
    BY <1>2, FS_Subset
  <1>. QED BY <1>2, <1>3, FS_CardinalityType

(* What a strategy answers is a signal with two grades.                      *)
LEMMA AnalyzeGraded ==
    ASSUME NEW s \in Library, NEW w, NEW ctx \in Situations, NEW minCandles, NEW minScore
    PROVE  IsSignal(Analyze(s, w, ctx, minCandles, minScore))
  <1> DEFINE setup == Evaluate(s, w, ctx)
             passed == {n \in ConfirmationsOf(s) : Confirmed(n, w, ctx, setup.direction)}
  <1>1. \/ Analyze(s, w, ctx, minCandles, minScore) = None
        \/ setup # None /\ Analyze(s, w, ctx, minCandles, minScore) = SignalOf(s, ctx, setup, passed)
    BY Zenon DEF Analyze, Judged
  <1>2. setup # None => setup.direction \in {"LONG", "SHORT"}
    <2>1. Sound(setup)
      BY EvaluationSound
    <2>. QED BY <2>1 DEF Sound, IsSetup, Directions
  <1>3. passed \in SUBSET ConfirmationsOf(s)
    OBVIOUS
  <1> HIDE DEF setup, passed
  <1>4. ctx.quality \in Int /\ ctx.grades \in [DOMAIN ScoreWeights -> Int]
    BY DEF Situations
  <1>5. Score(ctx.grades) \in 0 .. 100
    BY <1>4, ScoreGraded
  <1>6. Confidence(s, ctx, Cardinality(passed), Cardinality(ConfirmationsOf(s))) \in 0 .. 100
    BY <1>3, <1>4, ConfirmationsCounted, ConfidenceGraded
  <1>7. LET x == SignalOf(s, ctx, setup, passed)
        IN /\ x.direction = setup.direction /\ x.score = Score(ctx.grades)
           /\ x.confidence = Confidence(s, ctx, Cardinality(passed), Cardinality(ConfirmationsOf(s)))
    BY DEF SignalOf
  <1>. QED BY <1>1, <1>2, <1>5, <1>6, <1>7 DEF IsSignal

(* A study stays within its bounds, its chart in a context of the market.    *)
Bounded == /\ study.kind \in {"chart", "tape", "vote"}
           /\ Charted => Len(Window) <= WindowSize /\ Context \in Situations
           /\ study.kind = "tape" => Window \in Seq(Trades) /\ Len(Window) <= MaxTrades
           /\ study.kind = "vote" => Len(Window) <= MaxVotes

LEMMA BoundedInit == StudyInit => Bounded
  <1> SUFFICES ASSUME StudyInit PROVE Bounded
    OBVIOUS
  <1>0. Len(<< >>) = 0 /\ MaxTrades \in Nat /\ MaxVotes \in Nat /\ << >> \in Seq(Trades)
    BY StudyBounds
  <1>1. CASE \E w \in Charts, ctx \in Contexts : study = Chart(w, ctx, 0)
    <2>1. PICK w \in Charts, ctx \in Contexts : study = Chart(w, ctx, 0)
      BY <1>1
    <2>2. Len(w) <= WindowSize /\ ctx \in Situations
      BY StudyBounds, ChartsAndVotes
    <2>. QED BY <2>1, <2>2 DEF Bounded, Chart, Charted, Window, Context
  <1>2. CASE study = Tape(<< >>)
    BY <1>0, <1>2 DEF Bounded, Tape, Charted, Window
  <1>3. CASE study = Vote(<< >>)
    BY <1>0, <1>3 DEF Bounded, Vote, Charted, Window
  <1>. QED BY <1>1, <1>2, <1>3 DEF StudyInit

(* The day began one candle nearer the oldest of the window.                 *)
LEMMA AnchorMoves ==
    ASSUME NEW ctx \in Situations
    PROVE  [ctx EXCEPT !.anchor = @ - 1] \in Situations
  <1>1. ctx.anchor \in Int
    BY DEF Situations
  <1>2. ctx.anchor - 1 \in Int
    BY <1>1
  <1>. QED BY <1>2, Zenon DEF Situations

LEMMA BoundedNext == Studied /\ Bounded /\ [StudyNext]_study => Bounded'
  <1> SUFFICES ASSUME Studied, Bounded, [StudyNext]_study PROVE Bounded'
    OBVIOUS
  <1>0. \A S, k : \A w \in Seq(S) : k \in S => Append(w, k) \in Seq(S) /\ Len(Append(w, k)) = Len(w) + 1 /\ Len(w) \in Nat
    OBVIOUS
  <1>1. CASE CandleCloses
    <2>1. PICK k \in Shapes : study' = IF Len(study.data) < WindowSize THEN Grown(k) ELSE Slid(k)
      BY <1>1 DEF CandleCloses
    <2>2. /\ study.data \in Seq(Candles) /\ k \in Candles /\ WindowSize \in Nat
          /\ Len(study.data) <= WindowSize /\ study.context \in Situations
      BY <1>1, ChartsAndVotes, StudyBounds
         DEF CandleCloses, Studied, Bounded, Charted, Window, Context
    <2>3. [study.context EXCEPT !.anchor = @ - 1] \in Situations
      BY <2>2, AnchorMoves
    <2>4. CASE Len(study.data) < WindowSize
      <3>1. Len(Append(study.data, k)) <= WindowSize
        BY <1>0, <2>2, <2>4
      <3>2. study' = Grown(k)
        BY <2>1, <2>4
      <3>. QED BY <2>2, <3>1, <3>2 DEF Bounded, Grown, Chart, Charted, Window, Context
    <2>5. CASE ~(Len(study.data) < WindowSize)
      <3>1. Append(study.data, k) \in Seq(Candles) /\ Len(Append(study.data, k)) = Len(study.data) + 1
        BY <1>0, <2>2
      <3>2. Len(Tail(Append(study.data, k))) <= WindowSize
        BY <2>2, <3>1
      <3>3. study' = Slid(k)
        BY <2>1, <2>5
      <3>. QED BY <2>3, <3>2, <3>3 DEF Bounded, Slid, Chart, Charted, Window, Context
    <2>. QED BY <2>4, <2>5
  <1>2. CASE TradePrints
    <2>1. PICK t \in Trades : study' = Tape(Append(study.data, t))
      BY <1>2 DEF TradePrints
    <2>2. study.data \in Seq(Trades) /\ Len(study.data) < MaxTrades /\ MaxTrades \in Nat
      BY <1>2, StudyBounds DEF TradePrints, Bounded, Window
    <2>3. Append(study.data, t) \in Seq(Trades) /\ Len(Append(study.data, t)) <= MaxTrades
      BY <1>0, <2>2
    <2>. QED BY <2>1, <2>3 DEF Bounded, Tape, Charted, Window
  <1>3. CASE SignalJoins
    <2>1. PICK v \in Votes : study' = Vote(Append(study.data, v))
      BY <1>3 DEF SignalJoins
    <2>2. study.data \in Seq(Votes) /\ Len(study.data) < MaxVotes /\ MaxVotes \in Nat
      BY <1>3, StudyBounds DEF SignalJoins, Studied, Window
    <2>3. Len(Append(study.data, v)) <= MaxVotes
      BY <1>0, <2>2
    <2>. QED BY <2>1, <2>3 DEF Bounded, Vote, Charted, Window
  <1>4. CASE UNCHANGED study
    BY <1>4 DEF Bounded, Charted, Window, Context
  <1>. QED BY <1>1, <1>2, <1>3, <1>4 DEF StudyNext

(* Whatever the candles, the context and the votes, a signal names a side    *)
(* and its score and confidence are grades out of a hundred, and so is the   *)
(* agreement of a consensus (strategies/base/quant_strategy.py:234-278,      *)
(* engine/consensus/algorithms.py:48-204).                                   *)
THEOREM GradesHold == StudySpec => []StudyTypeOK
  <1> DEFINE Inv == Studied /\ Bounded
  <1>1. StudyInit => Inv
    BY StudiedInit, BoundedInit
  <1>2. Inv /\ [StudyNext]_study => Inv'
    BY StudiedNext, BoundedNext
  <1>3. Inv => StudyTypeOK
    <2> SUFFICES ASSUME Studied, Bounded PROVE StudyTypeOK
      OBVIOUS
    <2>0. Charted \/ study.kind = "tape" \/ study.kind = "vote"
      BY DEF Bounded, Charted
    <2>1. CASE Charted
      <3>1. \A s \in Library : IsSignal(Analyze(s, Window, Context, 3, 0))
        BY <2>1, AnalyzeGraded DEF Bounded
      <3>. QED BY <2>1, <3>1 DEF StudyTypeOK, Bounded, Charted
    <2>2. CASE study.kind = "tape"
      BY <2>2 DEF StudyTypeOK, Bounded, Charted
    <2>3. CASE study.kind = "vote"
      <3>1. \A m \in D!Methods : Graded(D!Consensus(m, Window, Panel))
        BY <2>3, ConsensusGraded DEF Studied
      <3>. QED BY <2>3, <3>1 DEF StudyTypeOK, Bounded, Studied, Graded, Charted, D!Directions
    <2>. QED BY <2>0, <2>1, <2>2, <2>3
  <1>. QED BY <1>1, <1>2, <1>3, PTL DEF StudySpec

=============================================================================
