---------------------------- MODULE MCPlDatabase ----------------------------
(* One key: a fact with it, and a rule whose first argument is a variable. *)
EXTENDS PlDatabase
CONSTANT k1
MCKeys == {k1}
MCClauses == {[key |-> k1, rule |-> FALSE], [key |-> Var, rule |-> TRUE]}
=============================================================================
