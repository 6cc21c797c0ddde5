\* Each of two parallel branches has a hook.  TLC shows a counterexample.
CONSTANTS
  Scenarios <- TwoHooks
  TaskOutcomes = {"completed"}
  RecursionLimit = 9
  MaxRebuilds = 0
SPECIFICATION Spec
INVARIANT AdaptationsMerged
CHECK_DEADLOCK FALSE
