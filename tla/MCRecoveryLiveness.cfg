SPECIFICATION FairSpec
CONSTANTS
  p1 = p1
  c1 = c1
  c2 = c2
  a1 = a1
  a2 = a2
  a3 = a3
  a4 = a4
  a5 = a5
  None = None
  PaymentId <- OnePayment
  CaseId <- OneCase
  ActionId <- ThreeActions
  Amounts <- MCAmounts
  Reasons <- MCReasons
  SupportedActions <- ActionType
  MaxAutomaticRetries = 4
  RepeatedFailureLimit = 2
  HighValueThreshold = 1
  AllowHumanEscalation = TRUE
  Delay = 1
  AttemptCap = 2
  TimeCap = 3
CHECK_DEADLOCK FALSE
INVARIANT
  FailuresBounded
PROPERTIES
  EveryCaseSettles

