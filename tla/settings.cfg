SPECIFICATION Spec
CONSTANTS
  Ids = {"one", "two", "three"}
  Reqs = {r1, r2}
  Ports <- MCPorts
  Fields <- MCFields
  Listed <- MCListed
  Bodies <- MCBodies
  Edits <- MCEdits
  Secrets = {"s1", "s2"}
  Outsiders <- MCOutsiders
  SearchLimit = 4
  MaxPort = 8
  MaxAsked = 4
CHECK_DEADLOCK FALSE
SYMMETRY MCSymmetry
INVARIANTS
  PortsUnlessMissed
  RowsFit
PROPERTIES
  FirstFree
  LockedKept
  RestUnlessCrossed
