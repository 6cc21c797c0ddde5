\* Serial and overlapping calls, both engines, POSTs that may time out.
CONSTANTS
  i1 = i1
  i2 = i2
  i3 = i3
  Invocation <- Three
  Engines <- BothEngines
  Callers <- AnyCaller
  MayTimeOut = TRUE
  None = None
  Error = Error
SPECIFICATION FairSpec
INVARIANT NoLeakedFuture
INVARIANT NoSharedResult
INVARIANT ReturnsAfterOwnProcess
INVARIANT ForeignResultOnlyFromAbandoned
PROPERTY AnsweredUnlessUnreported
CHECK_DEADLOCK FALSE
