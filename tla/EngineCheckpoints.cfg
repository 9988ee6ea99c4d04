SPECIFICATION Spec
CONSTANTS
  NoSession = NoSession
  Versions = {1}
  FirstVersion = 1
  Precompleted = {{}}
  Sessions = {s1, s2}
  StepsOf <- ChainSteps
  DepsOf <- ChainDeps
  Gates = {}
  TimeoutAction <- NoTimeouts
  Capture = {"a", "b"}
  CheckpointInterval = 5
  MaxEvents = 6
  MaxLaunches = 2
  MaxLapses = 0
  MaxCheckpoints = 3
  Schedulers = 1
  Calls = {"tick", "completed", "rollback", "rollback_fails", "gc", "capture_fails", "abort", "overage"}
INVARIANTS TypeOK CheckpointNumbersUnique SnapshotMatchesJournal
 
SYMMETRY SessionSymmetry
CHECK_DEADLOCK FALSE
