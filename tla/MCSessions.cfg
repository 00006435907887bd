SPECIFICATION FairSpec
CONSTANTS
  s1 = s1
  s2 = s2
  Session <- TwoSessions
  None = None
  SupportedActions <- ActionType
  MaxAutomaticRetries = 2
  RepeatedFailureLimit = 3
  HighValueThreshold = 1
  AllowHumanEscalation = TRUE
  Window = 0
  TransactionCap = 3
  AttemptCap = 2
  TimeCap = 1
CHECK_DEADLOCK FALSE
INVARIANTS
  TypeOK
  TrailGapFree
  OneWriter
  TrailTellsOrder
  
PROPERTIES
  SessionsEnd
