SPECIFICATION Spec
CONSTANTS
  Users = {u1, u2}
  Reqs = {r1, r2}
  Ops = {"login", "logout", "password", "create", "grant", "reset", "disable", "remove"}
  Permissions = {"files"}
  Lifetime = 1
  MaxSessions = 2
  MaxPasswords = 2
CHECK_DEADLOCK FALSE
SYMMETRY Symmetry
INVARIANTS
  AnAdministrator
  SessionsFit
  NothingLeft
