SPECIFICATION Spec
CONSTANTS
  Users = {u1, u2}
  Reqs = {r1, r2}
  Ops = {"login", "create", "demote"}
  Permissions = {"files"}
  Lifetime = 1
  MaxSessions = 2
  MaxPasswords = 2
CHECK_DEADLOCK FALSE
INVARIANT SomeAdministrator
SYMMETRY Symmetry
