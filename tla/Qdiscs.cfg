SPECIFICATION Spec
CONSTANTS
  Setters <- Handlers
  Locking <- Mutexed
  Bypassing <- WithBypass
  Values = {low, high}
  None = None
  MaxCalls = 3
  MaxFails = 1
INVARIANTS
  TypeOK
  ShapedAsAsked
