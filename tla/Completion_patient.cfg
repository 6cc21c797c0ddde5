\* A serial caller, both engines, no POST ever times out.
CONSTANTS
  i1 = i1
  i2 = i2
  i3 = i3
  Invocation <- Three
  Engines <- BothEngines
  Callers <- SerialOnly
  MayTimeOut = FALSE
  None = None
  Error = Error
SPECIFICATION Spec
INVARIANTS TypeOK OwnResult
PROPERTY ServiceSpec
CHECK_DEADLOCK FALSE
