-------------------------- MODULE MCResearchAgent --------------------------
(* The instance of ResearchAgent for TLC: two agents (a take-over needs two), *)
(* small budgets.  No symmetry: the run checks liveness.                      *)
EXTENDS ResearchAgent
=============================================================================
