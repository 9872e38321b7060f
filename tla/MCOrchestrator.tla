--------------------------- MODULE MCOrchestrator ---------------------------
(* Instances of Orchestrator for TLC. *)
EXTENDS Orchestrator, TLC

\* Sessions, workers and ports are interchangeable (safety runs only).
Symmetry == Permutations(Session) \cup Permutations(Worker) \cup Permutations(Port)

=============================================================================
