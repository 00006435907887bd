SPECIFICATION Spec
CONSTANTS
  p1 = p1
  c1 = c1
  c2 = c2
  a1 = a1
  a2 = a2
  a3 = a3
  a4 = a4
  a5 = a5
  None = None
  PaymentId <- OnePayment
  CaseId <- TwoCases
  ActionId <- FiveActions
  Amounts <- MCAmounts
  Reasons <- MCReasons
  SupportedActions <- ActionType
  MaxAutomaticRetries = 3
  RepeatedFailureLimit = 2
  HighValueThreshold = 1
  AllowHumanEscalation = TRUE
  Delay = 2
  AttemptCap = 4
  TimeCap = 4
SYMMETRY Symmetric
CHECK_DEADLOCK FALSE
INVARIANTS
  TypeOK
  ScheduleConsistent
  NeverEarly
  OneOpenCase
  ChargeBudget
  RevenueVerified
  HighValueNeverCharged
PROPERTIES
  KeepsPromise
