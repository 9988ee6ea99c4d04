SPECIFICATION FairSpec
CONSTANTS
  Executions = {e1}
  Handlers = {h1, h2}
  Requests = {"LaunchRuntime", "PauseRuntime", "ResumeRuntime", "StopRuntime"}
  Silent = {e1}
  MaxTarget = 0
  MaxRestarts = 1
  NULL = NULL
INVARIANT TypeOK
PROPERTIES OrphansAreRemoved LostRuntimesAreNoticed GoneForGood
CHECK_DEADLOCK FALSE
