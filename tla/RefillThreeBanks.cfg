\* Three banks and the benchmark's eager threshold: a refill is asked for at every acquire.
CONSTANTS
  BankCount = 3
  TokensPerBank = 2
  Threshold = 6
  MaxCalls = 7
  RetryAfterError = FALSE
SPECIFICATION Spec
INVARIANTS
  QueueMatchesBanks
  NoQueueError
