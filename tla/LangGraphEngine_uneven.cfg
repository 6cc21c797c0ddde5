\* Two branches of unequal length meet in a parallel join.
CONSTANTS
  Scenarios <- Uneven
  TaskOutcomes = {"completed"}
  RecursionLimit = 9
  MaxRebuilds = 0
SPECIFICATION Spec
INVARIANT JoinWaits
CHECK_DEADLOCK FALSE
