SPECIFICATION Spec
CONSTANTS
  Reqs = {r1, r2}
  Resumer = resumer
  Slot = slot
  Ops = {"restart", "restore", "delete", "update", "config"}
  Events = {"callFails", "boxRemoved", "panelDies"}
  MaxEvents = 1
  ResumeAttempts = 1
SYMMETRY RequestSymmetry
CHECK_DEADLOCK FALSE
INVARIANTS
  FlagsShown
PROPERTIES
  DeletedForGood
