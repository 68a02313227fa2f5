SPECIFICATION Spec
CONSTANTS
  u1 = u1
  u2 = u2
  s1 = s1
  s2 = s2
  d1 = d1
  Users = {u1, u2}
  Main = main_user
  None = None
  Sessions = {s1, s2}
  Daemon = daemon
  Drives = {d1}
  MaxTurns = 3
  MaxSummaries = 2
SYMMETRY Symmetry
INVARIANTS
  UsersApart
PROPERTIES
  PrefixIsOwn
CHECK_DEADLOCK FALSE
