SPECIFICATION Spec
CONSTANTS
  o1 = o1  q1 = q1  q2 = q2  s1 = s1  s2 = s2
  Key = {"k1"}
  Order <- OneOrder
  ProviderPayment <- TwoPays
  Session <- TwoSessions
  None = None
  ErrorClass = {"BANK_TIMEOUT"}
  AttemptCap = 2
SYMMETRY Symmetric
INVARIANTS TypeOK AttemptsNumbered DeliveryActsOnce FailureIsTakenUp
PROPERTY CaptureOverturnedOnlyBy
CHECK_DEADLOCK FALSE
