\* A hook jumps to a node that the process does not have.  TLC shows a counterexample.
CONSTANTS
  Scenarios <- Nowhere
  TaskOutcomes = {"completed"}
  RecursionLimit = 9
  MaxRebuilds = 0
SPECIFICATION Spec
INVARIANT CompletesAtEnd
CHECK_DEADLOCK FALSE
