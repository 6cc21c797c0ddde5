\* A serial caller on an HTTP engine: it may never be answered.  TLC shows a counterexample.
CONSTANTS
  i1 = i1
  i2 = i2
  i3 = i3
  Invocation <- Two
  Engines <- HttpOnly
  Callers <- SerialOnly
  MayTimeOut = FALSE
  None = None
  Error = Error
SPECIFICATION FairSpec
PROPERTY AlwaysAnswered
CHECK_DEADLOCK FALSE
