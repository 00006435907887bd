SPECIFICATION PipelineSpec
CONSTANTS
  p1 = p1
  p2 = p2
  c1 = c1
  c2 = c2
  u1 = u1
  None = None
  PaymentId <- TwoPayments
  CaseId <- TwoCases
  ActionId <- FourActions
  Customer <- OneCustomer
  CustomerOf <- Theirs
  ProfileOf <- Profiles
  Seeds <- MCSeeds
  Amounts <- MCAmounts
  Reasons <- MCReasons
  SupportedActions <- ActionType
  CostOverrides <- NoOverride
  FrictionOverrides <- NoOverride
  Overrides <- MCOverrides
  OutcomeWindow = 3
  MaxAutomaticRetries = 3
  RepeatedFailureLimit = 2
  HighValueThreshold = 5000000
  AllowHumanEscalation = TRUE
  Delay = 1
  AttemptCap = 3
  TimeCap = 1
SYMMETRY Symmetric
CHECK_DEADLOCK FALSE
INVARIANTS
  PipelineTypeOK
  BenchmarkStable
  ProjectionComesTrue
  LooserLimitsHelp
PROPERTIES
  OneOutcomeMovesLittle
  OwnOutcomeUnseen
