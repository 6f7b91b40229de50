------------------------------ MODULE MCCoexpr ------------------------------
(* Co-expressions on a small instance. *)
EXTENDS Coexpr
=============================================================================
