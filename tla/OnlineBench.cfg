\* Five tokens, teams of one to three threads, every way to verify.
CONSTANTS
  Tokens = 5
  MaxThreads = 3
SPECIFICATION Spec
INVARIANTS
  CountsExact
  LengthsWritten
  SignedOnce
