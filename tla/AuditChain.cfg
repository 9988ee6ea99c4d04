SPECIFICATION FairSpec
CONSTANTS
  Sessions = {s1, s2}
  DEFAULT = default
  Tenants = {default, acme}
  STAFF = staff
  JsonPayloads = {"json"}
  RawPayloads = {"raw"}
  EventIds = {"e1"}
  NULL = NULL
  Legacy <- LegacyChains
  Requests <- Calls
  MaxEntries = 4
INVARIANTS
  TypeOK
  VerifyAcceptsChain
  StaffNumberIsFree
  BoundarySeparatesFormats
PROPERTIES
  AppendEnds
  ImplementsLog
