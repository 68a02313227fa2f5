SPECIFICATION FairSpec
CONSTANTS
  dead = dead
  p1 = p1
  p2 = p2
  r1 = r1
  Free = Free
  Fresh = Fresh
  Stale = Stale
  Processes = {dead, p1, p2}
  Manual = {p1}
  Dead = {dead}
  Requests = {r1}
  Policies = {"graceful", "immediate"}
  Signals = TRUE
  Turns = TRUE
  CanCrash = TRUE
  Leftovers = {dead, Free, Fresh, Stale}

  
PROPERTIES
  ReclaimsStale
  StopHonoured
CHECK_DEADLOCK FALSE
