\* Overlapping first calls on an HTTP engine: the second does not wait for the listener.  TLC shows a counterexample.
CONSTANTS
  i1 = i1
  i2 = i2
  i3 = i3
  Invocation <- Two
  Engines <- HttpOnly
  Callers <- OverlapOnly
  MayTimeOut = FALSE
  None = None
  Error = Error
SPECIFICATION Spec
INVARIANT ListensBeforeStart
CHECK_DEADLOCK FALSE
