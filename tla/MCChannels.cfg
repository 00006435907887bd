SPECIFICATION FiguresSpec
CONSTANTS
  p1 = p1
  c1 = c1
  c2 = c2
  a1 = a1
  a2 = a2
  a3 = a3
  a4 = a4
  None = None
  PaymentId <- OnePayment
  CaseId <- TwoCases
  ActionId <- FourActions
  Amounts <- MCAmounts
  Reasons <- MCReasons
  SupportedActions <- ActionType
  MaxAutomaticRetries = 3
  RepeatedFailureLimit = 2
  HighValueThreshold = 1
  AllowHumanEscalation = TRUE
  Delay = 1
  AttemptCap = 3
  TimeCap = 2
  Window = 1
  CallsApart = TRUE
SYMMETRY Symmetric
CHECK_DEADLOCK FALSE
INVARIANTS
  ChannelsTypeOK
  ScheduleConsistent
  RevenueReported
  AutopilotFinishesCases
  FiguresAgree
PROPERTIES
  RecoveredOnlyWhenPaid
