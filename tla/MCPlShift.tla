------------------------------ MODULE MCPlShift ------------------------------
(* Two goals, interchangeable, and Main.                                     *)
EXTENDS PlShift, TLC

GoalsAlike == Permutations(Goals)

=============================================================================
