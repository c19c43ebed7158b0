\* Two keys, every failure of a CUDA call.
CONSTANTS
  Keys = {k1, k2}
  NoKey = none
SPECIFICATION Spec
INVARIANTS
  OwnKeyUsed
  TablesUsed
  AllReleased
  CallsResolved
