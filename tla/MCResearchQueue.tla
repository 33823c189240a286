-------------------------- MODULE MCResearchQueue --------------------------
(* Small instances of ResearchQueue for TLC.                               *)
EXTENDS ResearchQueue

\* The last planned step has lost its config row.
MCInvalid == {NumSteps}
=============================================================================
