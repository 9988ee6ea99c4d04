SPECIFICATION FairSpec
CONSTANTS
  Executions = {e1}
  Handlers = {h1}
  Requests = {"LaunchRuntime"}
  Silent = {}
  MaxTarget = 1
  MaxRestarts = 1
  NULL = NULL
PROPERTIES OrphansAreRemoved LostRuntimesAreNoticed
CHECK_DEADLOCK FALSE
