SPECIFICATION Spec
CONSTANTS
  Reqs = {r1, r2}
  Keys <- MCKeys
  Values <- MCValues
  Hints = {"port", "mode", "motd"}
  Managed = {"port"}
  Fits <- MCFits
  AsInteger <- MCAsInteger
  Pieces <- MCPieces
  Alone <- MCAlone
  Contents <- MCContents
  Bodies <- MCBodies
  MaxAsked = 4
  MaxWritten = 2
CHECK_DEADLOCK FALSE
SYMMETRY MCSymmetry
INVARIANTS
  TypeOK
PROPERTIES
  OnlyWhatWasAsked
  StrangersKept
