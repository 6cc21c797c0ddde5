\* Two tokens: branches in step, at most one hook in a superstep.
CONSTANTS
  Scenarios <- Balanced
  TaskOutcomes = {"completed", "failed", "raised"}
  RecursionLimit = 9
  MaxRebuilds = 0
SPECIFICATION FairSpec
PROPERTIES OnlyCallsRaise GameSpec RunEnds
CHECK_DEADLOCK FALSE
