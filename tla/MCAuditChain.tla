---------------------------- MODULE MCAuditChain ----------------------------
(* Instances of AuditChain for TLC. *)
EXTENDS AuditChain

(* A new installation, and one upgraded with a single legacy entry.        *)
LegacyChains ==
  {NoRows, [i \in {1} |-> Row(1, GENESIS_HASH, <<"old">>, "e1", DEFAULT, FALSE, FALSE)]}
(* A service's ordinary call, one on behalf of a given tenant, and one with *)
(* a payload that is not a JSON object.                                     *)
Calls ==
  {[payload |-> "json", event |-> "e1", tenant |-> NULL],
   [payload |-> "json", event |-> NULL, tenant |-> CHOOSE t \in Tenants : t # DEFAULT],
   [payload |-> "raw", event |-> NULL, tenant |-> NULL]}
=============================================================================
