SPECIFICATION FairSpec
CONSTANTS
  Schedules = {s1, s2}
  Reqs = {r1}
  Ops = {"create", "update", "delete", "run"}
  Bodies <- MCBodies
  Grants = {{"backups"}, {"backups", "console"}}
  MaxTime = 2
  MaxEvents = 1
CHECK_DEADLOCK FALSE
INVARIANTS
  TypeOK
  EachOnce
  EnabledHasNext
PROPERTIES
  DueIsRun
