----------------------------- MODULE MCEvalCode -----------------------------
EXTENDS EvalCode, TLC
TextSymmetry == Permutations(Texts)
=============================================================================
