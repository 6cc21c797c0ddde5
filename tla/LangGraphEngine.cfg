\* One token: every hook action on a line of tasks and on a choice.
CONSTANTS
  Scenarios <- Sequential
  TaskOutcomes = {"completed", "failed", "raised"}
  RecursionLimit = 8
  MaxRebuilds = 2
SPECIFICATION FairSpec
INVARIANTS TypeOK PermissionsHold PathEndsInTrace NoReplay DiversionsRecorded SkipsTheNextNode HaltIsFinal CompletesAtEnd
PROPERTY RunEnds
CHECK_DEADLOCK FALSE
