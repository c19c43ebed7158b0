SPECIFICATION MCSpec
CONSTANTS
  P = 127
  LogN = 5
  WRe = 7
  WIm = 29
  L2Bound = 7800
  MaxLogn = 4
  Seeds = {1, 2, 3, 4, 5, 6, 7}
  MaxAttempts = 3
  Rejected = Rejected
  NoResult = NoResult
INVARIANTS
  ArithmeticExact VerificationRight EncodingsUnique
  SamplerRight TransformsRight SigningRight SizesRight
CHECK_DEADLOCK FALSE
