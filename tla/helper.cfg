SPECIFICATION FairSpec
CONSTANTS
  Reqs = {r1, r2}
  Kinds = {"stream", "restore"}
  IdleAfter = 0
  MaxUses = 2
  Events = {"dockerFails", "agentDies", "removed"}
  MaxEvents = 1
CHECK_DEADLOCK FALSE
INVARIANTS
  OneMaker
  RemovedWhole
PROPERTIES
  ReapsTheSilent
  Answered
  IdleGoes
