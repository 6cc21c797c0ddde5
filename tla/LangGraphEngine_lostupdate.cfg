\* Two parallel tasks set a variable each.
CONSTANTS
  Scenarios <- Declared
  TaskOutcomes = {"completed"}
  RecursionLimit = 9
  MaxRebuilds = 0
SPECIFICATION Spec
INVARIANT UpdatesKept
CHECK_DEADLOCK FALSE
