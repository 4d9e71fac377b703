CONSTANTS
  mpesa = mpesa
  Provider = {mpesa}
  Call = {m1, m2}
  ProviderOf <- AllToMpesa
  MaxTokens = 4
SPECIFICATION FairSpec
INVARIANTS
  PaymentTypeOK
  RetryUsesAnotherToken
PROPERTIES
  ImplementsPaymentCall
  RequestEnds
CHECK_DEADLOCK FALSE
