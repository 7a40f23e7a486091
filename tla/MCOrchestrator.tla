--------------------------- MODULE MCOrchestrator ---------------------------
(***************************************************************************)
(* Orchestrator with two concurrent requests for one repository.           *)
(***************************************************************************)
EXTENDS Orchestrator
=============================================================================
