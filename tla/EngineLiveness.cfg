SPECIFICATION FairSpec
CONSTANTS
  NoSession = NoSession
  Versions = {1, 2}
  FirstVersion = 1
  Precompleted = {{}, {"a"}}
  Sessions = {s1, s2}
  StepsOf <- GateHotSteps
  DepsOf <- GateHotDeps
  Gates = {"g"}
  TimeoutAction <- SkipOnTimeout
  Capture = {}
  CheckpointInterval = 100
  MaxEvents = 5
  MaxLaunches = 2
  MaxLapses = 0
  MaxCheckpoints = 3
  Schedulers = 1
  Calls = {"tick", "completed", "failed", "approve", "reject", "scan", "cancel", "pause", "hot_change", "compensate"}
PROPERTIES WaitingEnds
CHECK_DEADLOCK FALSE
