SPECIFICATION TurnFairSpec
CONSTANTS
  c1 = c1
  c2 = c2
  Callers = {c1, c2}
  MaxTurns = 2
  MaxMishaps = 1
  Faults = {"llm", "store", "crash", "cancel", "evict", "args", "protocol"}
  MaxCalls = 2
  Long = 5
  Frame = 1
  MaxContext = 7
  TruncateAt = 3
  HandoverAt = 5
  MinRemaining = 1
  MaxRetries = 1
  BlockAfter = 1
  MaxToolIterations = 1
  MaxLLMRounds = 3
  MarkerSize <- Marker
  NoteSize = 5
  FactsSize = 6
  ReplayMarker = 3
  TriedOutputs <- Outputs
  TriedCalls <- Calls
  TriedLimits <- Limits
  TriedTrims = {0, 4, 20}
INVARIANTS
  CallsAndResultsAgree
  HandedOverOnce
  
  
  OutputsStayReadable
PROPERTIES
  ImplementsSessionHistory
  TurnEnds

CHECK_DEADLOCK FALSE
