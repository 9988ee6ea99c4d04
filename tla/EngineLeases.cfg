SPECIFICATION Spec
CONSTANTS
  NoSession = NoSession
  Versions = {1}
  FirstVersion = 1
  Precompleted = {{"a"}}
  Sessions = {s1, s2}
  StepsOf <- ChainSteps
  DepsOf <- ChainDeps
  Gates = {}
  TimeoutAction <- NoTimeouts
  Capture = {}
  CheckpointInterval = 100
  MaxEvents = 6
  MaxLaunches = 3
  MaxLapses = 2
  MaxCheckpoints = 3
  Schedulers = 1
  Calls = {"tick", "completed", "lapse", "runtime_started", "redelivery", "abort", "launch_fails", "resume", "sla", "read"}
SYMMETRY SessionSymmetry
INVARIANTS OneLiveLease  CompletedMeansAllSteps
CHECK_DEADLOCK FALSE
