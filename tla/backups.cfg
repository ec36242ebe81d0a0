SPECIFICATION FairSpec
CONSTANTS
  Reqs = {r1}
  Ops = {"create", "schedule", "remove", "other", "delete"}
  Keep = 2
  Limit = 2
  Sizes = {1, 2}
  MaxBackups = 3
  Events = {"archiveFails", "commandFails", "pruneFails", "removeFails", "panelDies", "shutdown"}
  MaxEvents = 1
CHECK_DEADLOCK FALSE
INVARIANTS
  NeverCutOff
  RowsAndFiles
  RoomKept
  SavesAgain
PROPERTIES
  BackupsSettle
