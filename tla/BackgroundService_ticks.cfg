SPECIFICATION FairSpec
CONSTANTS
  Manual = {"cli"}
  Requests = {"r1"}
  MaxEligible = 1
INVARIANTS
  StopIsHeeded
PROPERTIES
  StopEnds
  KeepsTicking
