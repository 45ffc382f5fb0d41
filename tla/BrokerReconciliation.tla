------------------------ MODULE BrokerReconciliation ------------------------
(***************************************************************************)
(* Demo mode: the execution engine's position book against the account it  *)
(* trades, through app/brokers/mt5, for one symbol.  The account belongs   *)
(* to somebody else: the broker executes stops and targets, the operator   *)
(* trades in the terminal, and either may happen between any two calls the *)
(* engine makes.  A management pass is therefore one step for the          *)
(* reconciliation and one per position it then visits.                     *)
(*                                                                         *)
(* The engine sends every entry and every close at the market and waits    *)
(* for the answer.  Only TRADE_RETCODE_DONE is a fill to it: an answer     *)
(* that is lost (None) or partial (10010) reads as a rejection, whatever   *)
(* the account did.  Volumes, prices, the balance and why a position exits *)
(* are left out: a visit may keep or close any position.  A restart is the *)
(* one of the default configuration, without app/production: the book      *)
(* starts empty and adopts what it finds.                                  *)
(*                                                                         *)
(* The terminal may lose the account, the operator may open positions and  *)
(* the answer to an entry may be lost; `mishaps' remembers which of them   *)
(* has happened, so that every property says what it withstands.           *)
(***************************************************************************)
EXTENDS Integers, FiniteSets

CONSTANTS
    MaxPositionsPerSymbol,  \* ExecutionRiskSettings.max_positions_per_symbol
    MaxTickets              \* bound: positions ever opened in the account

Sides == {"long", "short"}
Tickets == 1..MaxTickets    \* handed out in the order of opening

ASSUME ReconciliationAssumption ==
    /\ MaxPositionsPerSymbol \in Nat
    /\ MaxTickets \in Nat

VARIABLES
    live,       \* the positions open in the account
    issued,     \* tickets handed out
    link,       \* whether the terminal reaches the account
    connected,  \* MT5Connection._connected
    tracked,    \* PositionManager: the open positions
    phase,      \* where the management pass is
    todo,       \* positions the pass has still to visit
    settled,    \* how often the engine has booked the close of each ticket;
                \* 2 stands for more than once
    mishaps     \* history: "link", the terminal lost the account; "stranger",
                \* the operator opened a position; "unanswered", an entry
                \* the engine takes for rejected opened one

account == <<live, issued>>
pass == <<phase, todo>>
vars == <<account, link, connected, tracked, pass, settled, mishaps>>

(* bot: the position carries the magic number of the engine's orders. *)
Position == [ticket : Tickets, side : Sides, bot : BOOLEAN]

TicketsOf(ps) == {p.ticket : p \in ps}

TypeOK ==
    /\ live \in SUBSET Position
    /\ issued \in 0..MaxTickets
    /\ link \in BOOLEAN
    /\ connected \in BOOLEAN
    /\ tracked \in SUBSET {p \in Position : p.bot}
    /\ phase \in {"idle", "visit"}
    /\ todo \in SUBSET Position
    /\ settled \in [Tickets -> 0..2]
    /\ mishaps \in SUBSET {"link", "stranger", "unanswered"}

Init ==
    /\ live = {} /\ issued = 0
    /\ link = TRUE /\ connected = TRUE
    /\ tracked = {}
    /\ phase = "idle" /\ todo = {}
    /\ settled = [t \in Tickets |-> 0]
    /\ mishaps = {}

(* The terminal answers: otherwise order_send rejects, and positions_get *)
(* returns nothing, which reads as an account without positions.         *)
Answers == connected /\ link

-----------------------------------------------------------------------------
(* The account. *)

Opened(side, bot) ==
    /\ issued < MaxTickets
    /\ issued' = issued + 1
    /\ live' = live \cup {[ticket |-> issued + 1, side |-> side, bot |-> bot]}

(* A stop or target is hit, or the operator closes it in the terminal. *)
BrokerCloses(p) ==
    /\ p \in live
    /\ live' = live \ {p}
    /\ UNCHANGED <<issued, link, connected, tracked, pass, settled, mishaps>>

OperatorOpens(side) ==
    /\ Opened(side, FALSE)
    /\ mishaps' = mishaps \cup {"stranger"}
    /\ UNCHANGED <<link, connected, tracked, pass, settled>>

LinkDown ==
    /\ link
    /\ link' = FALSE
    /\ mishaps' = mishaps \cup {"link"}
    /\ UNCHANGED <<account, connected, tracked, pass, settled>>

LinkUp ==
    /\ ~link
    /\ link' = TRUE
    /\ UNCHANGED <<account, connected, tracked, pass, settled, mishaps>>

(* The periodic gate evaluation asks for the broker's health. *)
Healthcheck ==
    /\ phase = "idle"
    /\ connected /\ ~link
    /\ connected' = FALSE
    /\ UNCHANGED <<account, link, tracked, pass, settled, mishaps>>

(* The market feed restarts, and its provider connects again. *)
Reconnect ==
    /\ ~connected /\ link
    /\ connected' = TRUE
    /\ UNCHANGED <<account, link, tracked, pass, settled, mishaps>>

-----------------------------------------------------------------------------
(* The engine. *)

HasRoom == Cardinality(tracked) < MaxPositionsPerSymbol

Enter(side) ==
    /\ phase = "idle"
    /\ HasRoom
    /\ Answers
    /\ Opened(side, TRUE)
    /\ tracked' = tracked \cup {[ticket |-> issued + 1, side |-> side, bot |-> TRUE]}
    /\ UNCHANGED <<link, connected, pass, settled, mishaps>>

(* The order is executed and the engine told otherwise: the position is in *)
(* the account, with the engine's magic number, and in no book until the   *)
(* next process adopts it.                                                 *)
UnansweredEntry(side) ==
    /\ phase = "idle"
    /\ HasRoom
    /\ Answers
    /\ Opened(side, TRUE)
    /\ mishaps' = mishaps \cup {"unanswered"}
    /\ UNCHANGED <<link, connected, tracked, pass, settled>>

Booked(times) == IF times < 2 THEN times + 1 ELSE 2

(* Reconciliation: what the account does not show any more was closed there. *)
Visible == IF Answers THEN live ELSE {}
Mutant_NeverGone == {}
Gone == {p \in tracked : p.ticket \notin TicketsOf(Visible)}

StartPass ==
    /\ phase = "idle"
    /\ tracked' = tracked \ Gone
    /\ settled' = [t \in Tickets |->
                      IF t \in TicketsOf(Gone) THEN Booked(settled[t]) ELSE settled[t]]
    /\ phase' = "visit"
    /\ todo' = tracked'
    /\ UNCHANGED <<account, link, connected, mishaps>>

Keep(p) ==
    /\ p \in todo
    /\ todo' = todo \ {p}
    /\ UNCHANGED <<account, link, connected, tracked, phase, settled, mishaps>>

(* A close names a ticket: the oldest live position of the side to be closed, *)
(* whoever opened it.                                                         *)
Matching(p) == {q \in live : q.side = p.side}
Oldest(ps) == CHOOSE q \in ps : \A r \in ps : q.ticket <= r.ticket

FilledClose(p) ==
    /\ Answers /\ Matching(p) # {}
    /\ live' = live \ {Oldest(Matching(p))}
    /\ tracked' = tracked \ {p}
    /\ settled' = [settled EXCEPT ![p.ticket] = Booked(@)]

Close(p) ==
    /\ p \in todo
    /\ todo' = todo \ {p}
    /\ FilledClose(p)
    /\ UNCHANGED <<issued, link, connected, phase, mishaps>>

(* Executed, and the engine told otherwise: its position stays in the book *)
(* for the next reconciliation to find gone.                               *)
UnansweredClose(p) ==
    /\ p \in todo
    /\ Answers /\ Matching(p) # {}
    /\ live' = live \ {Oldest(Matching(p))}
    /\ todo' = todo \ {p}
    /\ UNCHANGED <<issued, link, connected, tracked, phase, settled, mishaps>>

(* No such position, or no terminal: the close is rejected, and the next *)
(* pass tries again.                                                     *)
RejectedClose(p) ==
    /\ p \in todo
    /\ ~Answers \/ Matching(p) = {}
    /\ todo' = todo \ {p}
    /\ UNCHANGED <<account, link, connected, tracked, phase, settled, mishaps>>

EndPass ==
    /\ phase = "visit" /\ todo = {}
    /\ phase' = "idle"
    /\ UNCHANGED <<account, link, connected, tracked, todo, settled, mishaps>>

(* A new process connects and adopts what carries its magic number. *)
Mutant_AdoptsNothing == {}
Adoptable == {p \in live : p.bot}

Restart ==
    /\ connected' = link
    /\ tracked' = IF link THEN Adoptable ELSE {}
    /\ phase' = "idle" /\ todo' = {}
    /\ UNCHANGED <<account, link, settled, mishaps>>

PassStep ==
    \/ \E p \in todo : Keep(p) \/ Close(p) \/ UnansweredClose(p) \/ RejectedClose(p)
    \/ EndPass

Next ==
    \/ \E p \in live : BrokerCloses(p)
    \/ \E side \in Sides : OperatorOpens(side) \/ Enter(side) \/ UnansweredEntry(side)
    \/ LinkDown \/ LinkUp \/ Healthcheck \/ Reconnect
    \/ StartPass \/ PassStep
    \/ Restart

(* The management loop keeps running passes and finishes each. *)
Fairness == WF_vars(StartPass) /\ WF_vars(PassStep)

Spec == Init /\ [][Next]_vars
FairSpec == Spec /\ Fairness

-----------------------------------------------------------------------------
(* Properties *)

OwnLive == {p \in live : p.bot}

(* While the terminal answers, every entry too, and nobody else opens        *)
(* positions, every one the engine opened and the account still holds is in  *)
(* the engine's book, so that somebody trails its stop, exits it and counts  *)
(* it: across stops executed in the middle of a pass, rejected closes,       *)
(* closes whose answer is lost and restarts                                  *)
(* (execution_engine/engine.py:242-292, 540-562).                            *)
NoOrphans == mishaps = {} => OwnLive \subseteq tracked

(* There too a close is booked once, and only for a position the account no  *)
(* longer holds, although the account may lose a position between the moment *)
(* the pass reconciles and the moment it sends the close, or close it and    *)
(* have the answer lost (engine.py:483-499, 595-654, 740-800;                *)
(* brokers/mt5/broker.py:302-319).                                           *)
BookedWhenClosed ==
    mishaps = {} =>
        \A t \in Tickets : settled[t] > 0 => settled[t] = 1 /\ t \notin TicketsOf(live)

(* A position closed outside the engine leaves its book sooner or later      *)
(* (engine.py:540-549: otherwise "el Position Manager nunca se entera").     *)
ExternalCloseNoticed ==
    \A t \in Tickets :
        t \in TicketsOf(tracked) /\ t \notin TicketsOf(live) ~> t \notin TicketsOf(tracked)

(* While nothing of the sort happens the engine's book is the account, and   *)
(* what leaves it is booked once (execution_engine/engine.py:242-292,        *)
(* 483-499, 540-654, 740-800).                                               *)
BookIsKept == TypeOK /\ NoOrphans /\ BookedWhenClosed
=============================================================================
