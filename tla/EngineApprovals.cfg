SPECIFICATION Spec
CONSTANTS
  NoSession = NoSession
  Versions = {1}
  FirstVersion = 1
  Precompleted = {{}}
  Sessions = {s1, s2}
  StepsOf <- TwoGatesSteps
  DepsOf <- TwoGatesDeps
  Gates = {"g", "h"}
  TimeoutAction <- SkipOrFail
  Capture = {}
  CheckpointInterval = 100
  MaxEvents = 7
  MaxLaunches = 2
  MaxLapses = 2
  MaxCheckpoints = 3
  Schedulers = 1
  Calls = {"tick", "failed", "approve", "reject", "scan", "abort", "leak"}
PROPERTIES LaunchesFollowDependencies
SYMMETRY SessionSymmetry
INVARIANTS WaitingIsUndecidedOrRejected
CHECK_DEADLOCK FALSE
