SPECIFICATION FairSpec
CONSTANTS
  NSessions = 2
  MaxSources = 2
  Traces <- LastIsTrace
  BatchSize = 2
  MinSources = 1
  backlog = backlog
  Workers = {}
  Faults = {"llm", "yield"}
  MaxMishaps = 1
INVARIANTS
  ExtractedOnce

  
