SPECIFICATION Spec
CONSTANTS
  Reqs = {r1}
  Resumer = resumer
  Slot = slot
  Ops = {"start", "stop", "restart", "reinstall", "delete", "restore", "backup", "config", "watch"}
  Events = {"gameExits", "diskFills"}
  MaxEvents = 3
  ResumeAttempts = 2
CHECK_DEADLOCK FALSE
INVARIANTS
  LiveAsWanted
  ExclusiveFiles
  ShownIsReal
  DeletedLeavesNothing
PROPERTIES
  NoLiveReplaced
  KeepsPromise
