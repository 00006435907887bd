SPECIFICATION Spec
CONSTANTS
  s1 = s1
  s2 = s2
  Session <- TwoSessions
  None = None
  SupportedActions <- ActionType
  MaxAutomaticRetries = 2
  RepeatedFailureLimit = 3
  HighValueThreshold = 1
  AllowHumanEscalation = TRUE
  Window = 1
  TransactionCap = 3
  AttemptCap = 3
  TimeCap = 2
CHECK_DEADLOCK FALSE
PROPERTY
  FinishedStaysFinished
