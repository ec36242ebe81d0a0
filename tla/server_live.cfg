SPECIFICATION FairSpec
CONSTANTS
  Reqs = {r1}
  Resumer = resumer
  Slot = slot
  Ops = {"start", "stop", "restart", "reinstall", "delete"}
  Events = {"agentLate", "panelDies", "reboot"}
  MaxEvents = 3
  ResumeAttempts = 2
CHECK_DEADLOCK FALSE
PROPERTIES
  WorkEnds
  BackAfterReboot
