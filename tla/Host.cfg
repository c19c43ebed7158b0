SPECIFICATION MCSpec
CONSTANTS
  Half = 8
  Squares <- SmallSquares
  Bound = 6
  MaxTerms = 6
  Nothing = Nothing
  SignerThreads = {t1, t2}
  Tokens = {k1, k2}
  Messages = {m1, m2}
  Chunks = {a}
  Logns = {0, 4}
  MaxChunks = 1
  MaxAttempts = 2
  MaxEvents = 3
  LogBlock = 2
  MaxSigns = 2
  MaxTokens = 4
  MaxThreads = 3
  MaxBatch = 4
  MaxLength = 3
  MaxIterations = 3
  Coefficients = 4
  Over = 7
  Rate = 4
  MaxMessage = 10
  MaxOutput = 10
  MaxCall = 6
  BlockCount = 2
  BlockWords = 4
  ValueWords = 2
  MaxCounter = 4
  MaxCopy = 9
INVARIANTS
  ShortExactly DeviceRight StreamsRight KeyStateRight
  BatchesRight ChainsRight ApiRight
PROPERTIES NothingTakenBack
CHECK_DEADLOCK FALSE
CONSTRAINT MCContinued
