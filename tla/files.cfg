SPECIFICATION Spec
CONSTANTS
  Reqs = {r1, r2}
  Ops = {"mkdir", "rename", "move", "copy", "delete", "write", "upload", "extract"}
  Names = {"d", "f", "z", "e"}
  ZipName = "z"
  Stem = "e"
  Raw <- MCRaw
  Picks <- MCPicks
  MaxDepth = 3
  Sizes = {1, 2}
  Announced = 1
  Unpacks = {1, 2}
  Limit = 3
  Slack = 1
  MaxAsked = 2
  MaxFails = 1
CHECK_DEADLOCK FALSE
SYMMETRY Symmetry
INVARIANTS
  TypeOK
  OneAtATime
PROPERTIES
  NothingOverwritten
