------------------------- MODULE MCExecutionLifecycle -------------------------
(***************************************************************************)
(* Instances of ExecutionLifecycle for TLC.                                *)
(***************************************************************************)
EXTENDS ExecutionRefinement, ExecutionInvariants

CONSTANTS t1, m1

\* All the trades are on one market.
OneMarket == [t \in Trades |-> m1]
=============================================================================
