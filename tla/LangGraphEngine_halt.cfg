\* A hook in one of two parallel branches terminates.
CONSTANTS
  Scenarios <- HaltInBranch
  TaskOutcomes = {"completed"}
  RecursionLimit = 9
  MaxRebuilds = 0
SPECIFICATION Spec
INVARIANT HaltIsFinal
CHECK_DEADLOCK FALSE
