--------------------------- MODULE MCOrchestrator ---------------------------
(* Orchestrator with a run that is clarified twice.                        *)
EXTENDS Orchestrator

ThreeAttempts == 3
=============================================================================
