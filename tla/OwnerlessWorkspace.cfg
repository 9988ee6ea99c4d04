SPECIFICATION Spec
CONSTANTS
  alice = alice
  bob = bob
  carol = carol
  k1 = k1
  k2 = k2
  Users = {alice, bob, carol}
  PlatformAdmins = {alice, bob}
  Creator = alice
  Challenges = {k1, k2}
  Sessions = {s1, s2}
  WORKSPACE = ws
  NULL = NULL
  Requests <- AllRequests
  MaxJoins = 2
INVARIANTS
  AlwaysAnOwner
