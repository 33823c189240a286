-------------------------- MODULE MCExitProtection --------------------------
(* The instance TLC runs: one trade, which both jobs, the worker, the operator *)
(* and the settlement work on.                                                 *)
EXTENDS ExitProtection

CONSTANT t1
=============================================================================
