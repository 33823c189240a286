------------------------- MODULE MCModelDeployment -------------------------
(* Small instances of ModelDeployment for TLC.                              *)
EXTENDS ModelDeployment, TLC

Symmetric == Permutations(Callers) \cup Permutations(Assets)
=============================================================================
