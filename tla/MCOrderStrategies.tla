------------------------- MODULE MCOrderStrategies -------------------------
(* The instance of OrderStrategies for TLC.                                 *)
EXTENDS OrderStrategies
=============================================================================
