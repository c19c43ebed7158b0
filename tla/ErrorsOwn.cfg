\* Does an error mean that the call failed?
CONSTANTS
  Keys = {k1}
  NoKey = none
SPECIFICATION Spec
INVARIANT ErrorMeansFailure
