SPECIFICATION Spec
CONSTANTS
  NoSession = NoSession
  Versions = {1}
  FirstVersion = 1
  Precompleted = {{}}
  Sessions = {s1, s2}
  StepsOf <- ChainSteps
  DepsOf <- ChainDeps
  Gates = {}
  TimeoutAction <- NoTimeouts
  Capture = {"a"}
  CheckpointInterval = 100
  MaxEvents = 7
  MaxLaunches = 3
  MaxLapses = 2
  MaxCheckpoints = 3
  Schedulers = 1
  Calls = {"tick", "completed", "failed", "resume"}
INVARIANTS ResumeKeepsCompletedSteps
SYMMETRY SessionSymmetry
CHECK_DEADLOCK FALSE
