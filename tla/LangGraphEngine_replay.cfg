\* A hook removes the last task of a line.
CONSTANTS
  Scenarios <- RemoveLast
  TaskOutcomes = {"completed"}
  RecursionLimit = 9
  MaxRebuilds = 2
SPECIFICATION Spec
INVARIANT NoReplay
CHECK_DEADLOCK FALSE
