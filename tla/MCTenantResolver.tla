------------------------- MODULE MCTenantResolver -------------------------
(* Instances of TenantResolver for TLC. *)
EXTENDS TenantResolver, TLC

Interchangeable == Permutations(Replicas) \cup Permutations(Lookups)
=============================================================================
