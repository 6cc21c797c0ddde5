\* A hook in front of a gateway skips the next node.
CONSTANTS
  Scenarios <- BeforeGateway
  TaskOutcomes = {"completed"}
  RecursionLimit = 9
  MaxRebuilds = 0
SPECIFICATION Spec
INVARIANT SkipsTheNextNode
CHECK_DEADLOCK FALSE
