SPECIFICATION Spec
CONSTANTS
  o1 = o1  q1 = q1  q2 = q2  s1 = s1  s2 = s2
  Key = {"k1"}
  Order <- OneOrder
  ProviderPayment <- TwoPays
  Session <- OneSession
  None = None
  ErrorClass = {"BANK_TIMEOUT"}
  AttemptCap = 3
PROPERTY CapturedNeverCharged
CHECK_DEADLOCK FALSE
