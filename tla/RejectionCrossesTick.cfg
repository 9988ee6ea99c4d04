SPECIFICATION Spec
CONSTANTS
  NoSession = NoSession
  Versions = {1}
  FirstVersion = 1
  Precompleted = {{}}
  Sessions = {s1, s2}
  StepsOf <- GatedSteps
  DepsOf <- GateAfterADeps
  Gates = {"g"}
  TimeoutAction <- FailOnTimeout
  Capture = {}
  CheckpointInterval = 100
  MaxEvents = 8
  MaxLaunches = 2
  MaxLapses = 2
  MaxCheckpoints = 3
  Schedulers = 1
  Calls = {"tick", "completed", "failed", "reject"}
SYMMETRY SessionSymmetry
INVARIANTS WaitingHasPendingWait
CHECK_DEADLOCK FALSE
