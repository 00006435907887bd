SPECIFICATION ComposeSpec
CONSTANTS
  Job = {j1}
  CaseId = {c1}
  Worker = {w1}
  None = None
  MaxAttempts = 3
  LeaseTime = 1
  BackoffStep = 1
  BackoffCap = 2
  MaxCrashes = 0
CHECK_DEADLOCK FALSE
PROPERTIES
  DurableWork
