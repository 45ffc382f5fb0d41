-------------------------------- MODULE Orders --------------------------------
(* The order book-keeping of the engine (app/execution: order_manager and    *)
(* models/orders.py): what became of every order, the counters the dashboard *)
(* shows, and groups of which one order cancels the others.                  *)
(*                                                                           *)
(* An order is the number of its creation; quantities are in lots.           *)
EXTENDS Integers, Sequences, FiniteSets

CONSTANTS
    Quantities,    \* of the requests
    Groups,        \* names of the OCO groups
    MaxOrders      \* bound: orders created

ASSUME OrdersAssumption == Quantities \subseteq Nat \ {0} /\ MaxOrders \in Nat

VARIABLES
    orders,        \* OrderManager._orders
    counted,       \* _filled, _rejected and _cancelled
    oco            \* _oco: the group of each name, or <<>>

orderVars == <<orders, counted, oco>>

Orders == DOMAIN orders
Statuses == {"pending", "partial", "filled", "rejected", "cancelled"}

IsTerminal(status) == status \in {"filled", "rejected", "cancelled"}
Active == {n \in Orders : ~IsTerminal(orders[n].status)}

-----------------------------------------------------------------------------
(* Steps. *)

OrdersInit ==
    /\ orders = <<>>
    /\ counted = [filled |-> 0, rejected |-> 0, cancelled |-> 0]
    /\ oco = [g \in Groups |-> <<>>]

Requested(quantity) == [asked |-> quantity, done |-> 0, status |-> "pending"]

CreateOrder(quantity) ==
    /\ Len(orders) < MaxOrders
    /\ orders' = Append(orders, Requested(quantity))
    /\ UNCHANGED <<counted, oco>>

WithFill(order, quantity) ==
    LET done == order.done + quantity
    IN  [order EXCEPT !.done = done, !.status = IF done >= order.asked THEN "filled" ELSE "partial"]

(* The groups in which n is the first to be filled, and the other members.   *)
Hit(n) == {g \in Groups : oco[g] # <<>> /\ oco[g].active /\ n \in oco[g].members}
Siblings(n) == (UNION {oco[g].members : g \in Hit(n)}) \ {n}

Mutant_PendingOnly(set) == {n \in set : orders[n].status = "pending"}
Cancellable(set) == set \cap Active

(* A last fill counts the order and cancels what is left of its siblings.    *)
ApplyFill(n, quantity) ==
    /\ n \in Active
    /\ LET order == WithFill(orders[n], quantity)
           gone == IF order.status = "filled" THEN Cancellable(Siblings(n)) ELSE {}
       IN  /\ orders' = [m \in Orders |->
                            CASE m = n -> order
                              [] m \in gone -> [orders[m] EXCEPT !.status = "cancelled"]
                              [] OTHER -> orders[m]]
           /\ counted' = [counted EXCEPT !.filled = @ + (IF order.status = "filled" THEN 1 ELSE 0),
                                         !.cancelled = @ + Cardinality(gone)]
           /\ oco' = IF order.status # "filled" THEN oco
                     ELSE [g \in Groups |-> IF g \in Hit(n) THEN [oco[g] EXCEPT !.active = FALSE]
                                            ELSE oco[g]]

(* Of an order nothing has been filled of.                                   *)
RejectOrder(n) ==
    /\ n \in Orders /\ orders[n].status = "pending"
    /\ orders' = [orders EXCEPT ![n].status = "rejected"]
    /\ counted' = [counted EXCEPT !.rejected = @ + 1]
    /\ UNCHANGED oco

CancelOrder(n) ==
    /\ n \in Cancellable(Orders)
    /\ orders' = [orders EXCEPT ![n].status = "cancelled"]
    /\ counted' = [counted EXCEPT !.cancelled = @ + 1]
    /\ UNCHANGED oco

OcoGroup(members) == [members |-> members, active |-> TRUE]

(* A group is made of orders none of which is filled yet.                    *)
CreateOco(g, members) ==
    /\ oco[g] = <<>> /\ Cardinality(members) > 1
    /\ \A n \in members : orders[n].status = "pending"
    /\ oco' = [oco EXCEPT ![g] = OcoGroup(members)]
    /\ UNCHANGED <<orders, counted>>

OrdersNext ==
    \/ \E quantity \in Quantities : CreateOrder(quantity)
    \/ \E n \in Orders :
          \/ RejectOrder(n) \/ CancelOrder(n)
          \/ \E quantity \in 1..orders[n].asked - orders[n].done : ApplyFill(n, quantity)
    \/ \E g \in Groups, members \in SUBSET Orders : CreateOco(g, members)

OrdersSpec == OrdersInit /\ [][OrdersNext]_orderVars

-----------------------------------------------------------------------------
(* Properties. *)

OrdersTypeOK ==
    /\ \A n \in Orders : /\ orders[n].asked \in Quantities /\ orders[n].done \in 0..orders[n].asked
                         /\ orders[n].status \in Statuses
    /\ \A kind \in DOMAIN counted : counted[kind] \in 0..Len(orders)
    /\ \A g \in Groups : oco[g] # <<>> => oco[g].members \subseteq Orders

(* Every order created is active or counted under one ending, whichever      *)
(* group's fill cancelled it (order_manager/manager.py:41-98).               *)
CountersAddUp ==
    Len(orders) = counted.filled + counted.rejected + counted.cancelled + Cardinality(Active)

(* Of a group one order is filled at most, and then none of the others goes  *)
(* on, also where orders are in several groups (manager.py:50-84).           *)
OneSiblingFills ==
    \A g \in Groups : oco[g] # <<>> =>
        LET full == {n \in oco[g].members : orders[n].status = "filled"}
        IN  Cardinality(full) <= 1 /\ (full # {} => oco[g].members \cap Active = {})

(* An order is filled when, and only when, its fills come to what was asked  *)
(* (models/orders.py:203-219).                                               *)
FilledIsWhole ==
    \A n \in Orders : (orders[n].status = "filled") = (orders[n].done = orders[n].asked)
===============================================================================
