\* A hook skips a task, or terminates the process.  TLC shows a counterexample.
CONSTANTS
  Scenarios <- SkipOrHalt
  TaskOutcomes = {"completed"}
  RecursionLimit = 9
  MaxRebuilds = 0
SPECIFICATION Spec
INVARIANT DeviationsRecorded
CHECK_DEADLOCK FALSE
