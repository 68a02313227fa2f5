SPECIFICATION FairSpec
CONSTANTS
  Jobs = {"j1", "j2", "j3", "j4"}
  Requests = {"r1"}
  Slots = 2
INVARIANTS
  JobsAccounted
PROPERTIES
  ShutdownEnds
CHECK_DEADLOCK FALSE
