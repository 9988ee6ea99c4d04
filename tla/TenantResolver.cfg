SPECIFICATION Spec
CONSTANTS
  Replicas = {p1, p2}
  Hosts = {h1}
  Lookups = {r1, r2}
  Writers = {w1}
  Requested = {"provision_enterprise_tenant", "update_tenant", "suspend_tenant", "reactivate_tenant", "schedule_deletion", "cancel_deletion"}
  Ttl = 3
  MaxLatency = 1
  Horizon = 9
  MaxRevision = 1
  NULL = NULL
SYMMETRY Interchangeable
INVARIANTS
  TypeOK
  StaleAtMostTwice
  StaleAtMostOnce
