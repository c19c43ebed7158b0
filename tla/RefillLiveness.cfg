\* The smallest threshold the benchmark uses, and a caller that goes on after errors.
CONSTANTS
  BankCount = 2
  TokensPerBank = 2
  Threshold = 1
  MaxCalls = 7
  RetryAfterError = TRUE
SPECIFICATION FairSpec
PROPERTIES
  AcquireReturns
  DestroyReturns
