------------------------------ MODULE TradeBook ------------------------------
(***************************************************************************)
(* What the trading desk promises its readers (app/execution/api.py): a    *)
(* trade is entered once, on terms that never change; while it lives it is *)
(* among the open ones, and it leaves them exactly when its single record  *)
(* enters the journal; nothing is entered while trading is halted or the   *)
(* desk is full.  How prices, fees, limits and passes bring that about is  *)
(* the business of ExecutionEngine, which implements this module.          *)
(***************************************************************************)
EXTENDS Integers, Sequences, FiniteSets

CONSTANTS
    Limit,          \* the most trades open at once
    Terms,          \* what a trade may be entered on
    Records         \* what the journal may say of one; it names the trade by .id

VARIABLES
    trades,         \* the terms of every trade ever entered, in order; id = index
    open,           \* ids of the trades alive
    booked,         \* the journal: one record per finished trade, oldest first
    halted          \* the kill switch

book == <<trades, open, booked, halted>>

Init ==
    /\ trades = <<>>
    /\ open = {}
    /\ booked = <<>>
    /\ halted = FALSE

(* One entry more, and nothing before it touched. *)
Extends(new, old, Entries) ==
    /\ Len(new) = Len(old) + 1
    /\ new[Len(new)] \in Entries
    /\ new = Append(old, new[Len(new)])

Enter ==
    /\ ~halted
    /\ Cardinality(open) < Limit
    /\ Extends(trades', trades, Terms)
    /\ open' = open \cup {Len(trades')}
    /\ UNCHANGED <<booked, halted>>

(* The result is whatever the market makes of it; the id is not. *)
Finish(id) ==
    /\ open' = open \ {id}
    /\ Extends(booked', booked, Records)
    /\ booked'[Len(booked')].id = id
    /\ UNCHANGED <<trades, halted>>

Halt ==
    /\ ~halted
    /\ halted' = TRUE
    /\ UNCHANGED <<trades, open, booked>>

Release ==
    /\ halted
    /\ halted' = FALSE
    /\ UNCHANGED <<trades, open, booked>>

Next ==
    \/ Enter
    \/ \E id \in open : Finish(id)
    \/ Halt
    \/ Release

Spec == Init /\ [][Next]_book

(* What follows from the promise alone: the journal holds each finished trade *)
(* once, and every trade entered is either alive or in it.                    *)
EveryTradeOnce ==
    /\ \A k, m \in DOMAIN booked : booked[k].id = booked[m].id => k = m
    /\ DOMAIN trades = open \cup {booked[k].id : k \in DOMAIN booked}
    /\ \A k \in DOMAIN booked : booked[k].id \notin open
=============================================================================
