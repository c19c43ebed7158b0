\* Two banks of two tokens, as the benchmark has two, and a caller that goes on after errors.
CONSTANTS
  BankCount = 2
  TokensPerBank = 2
  Threshold = 1
  MaxCalls = 9
  RetryAfterError = TRUE
SPECIFICATION Spec
INVARIANTS
  RefillAvoidsLiveBanks
  JoinReachesBusyThread
  NoUseAfterFree
  IInv
PROPERTIES
  TokensSignedInOrder
  ImplementsTokenService
