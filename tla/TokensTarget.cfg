\* Does success mean that the tokens are what the header says?
CONSTANTS
  Keys = {k1}
  NoKey = none
SPECIFICATION Spec
INVARIANT SuccessMeansTarget
