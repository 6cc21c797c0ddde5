\* A hook that may not skip a task sets the mark that does.  TLC shows a counterexample.
CONSTANTS
  Scenarios <- MarkSet
  TaskOutcomes = {"completed"}
  RecursionLimit = 9
  MaxRebuilds = 0
SPECIFICATION Spec
INVARIANT PermissionsHold
CHECK_DEADLOCK FALSE
