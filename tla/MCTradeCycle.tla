---------------------------- MODULE MCTradeCycle ----------------------------
(* The instance TLC runs. *)
EXTENDS TradeCycle, TLC

CONSTANTS e1, e2, m1

Symmetric == Permutations(Engines)
=============================================================================
