\* Overlapping calls: an invocation may return another one's terminal state.
CONSTANTS
  i1 = i1
  i2 = i2
  i3 = i3
  Invocation <- Three
  Engines <- BothEngines
  Callers <- OverlapOnly
  MayTimeOut = FALSE
  None = None
  Error = Error
SPECIFICATION Spec
INVARIANT OwnResult
CHECK_DEADLOCK FALSE
