------------------------- MODULE MCExecutionEngine -------------------------
(* Model-checking instances of ExecutionEngine. *)
EXTENDS ExecutionEngine

DayAndWeek == {[len |-> 2, limit |-> 3], [len |-> 4, limit |-> 4]}
NoPeriods == {}
PairGroup == {Symbols}
NoGroups == {}
=============================================================================
