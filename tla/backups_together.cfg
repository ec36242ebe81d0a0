SPECIFICATION Spec
CONSTANTS
  Reqs = {r1, r2}
  Ops = {"create", "schedule", "remove", "delete"}
  Keep = 1
  Limit = 2
  Sizes = {1, 2}
  MaxBackups = 3
  Events = {}
  MaxEvents = 0
CHECK_DEADLOCK FALSE
INVARIANTS
  ReadyHasFile
PROPERTIES
  HandMadeKept
