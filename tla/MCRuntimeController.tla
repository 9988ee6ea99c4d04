------------------------ MODULE MCRuntimeController ------------------------
(* Instances of RuntimeController for TLC. *)
EXTENDS RuntimeController, TLC

Interchangeable == Permutations(Handlers) \cup Permutations(Executions)
=============================================================================
