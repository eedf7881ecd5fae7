-------------------------- MODULE MCOrchestrator --------------------------
(* TLC instance of Orchestrator. *)
EXTENDS Orchestrator, TLC

Symmetry == Permutations(Tasks) \cup Permutations(Locals) \cup Permutations(Goals)
===========================================================================
