------------------------- MODULE MCRestartRecovery -------------------------
(* Model-checking instances of RestartRecovery. *)
EXTENDS RestartRecovery

WinsAndLosses == {-1, 0, 2}

(* Bound: how many kinds of mishap and lost lines one behaviour combines;    *)
(* each may happen any number of times.                                      *)
FewMishaps == Cardinality(mishaps) + Cardinality(unwritten) <= 2
=============================================================================
