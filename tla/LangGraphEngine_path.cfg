\* A hook writes back the path it has read.  TLC shows a counterexample.
CONSTANTS
  Scenarios <- SkipOrHalt
  TaskOutcomes = {"completed"}
  RecursionLimit = 9
  MaxRebuilds = 0
SPECIFICATION Spec
INVARIANT PathIsTrace
CHECK_DEADLOCK FALSE
