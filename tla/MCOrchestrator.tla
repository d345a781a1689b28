--------------------------- MODULE MCOrchestrator ---------------------------
(* A small instance of Orchestrator.                                         *)
EXTENDS Orchestrator
=============================================================================
