SPECIFICATION MCSpec
CONSTANTS
  Logns = {1, 2, 3}
  Modulus = 17
  W = 12
  PRIMES <- Primes12
  MaxBlSmall <- SmallLens
  MaxBlLarge <- LargeLens
  MinBits <- Mins
  MaxBits <- Maxs
  Gain = 7
  Slack = 3
  Drawn <- Candidates
  NormBound = 120
  FgLim = 8
  Lim = 15
INVARIANTS ArithmeticRight BezoutRight OnlySolutions PlanRight
CHECK_DEADLOCK FALSE
