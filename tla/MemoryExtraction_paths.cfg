SPECIFICATION Spec
CONSTANTS
  NSessions = 1
  MaxSources = 2
  Traces <- NoTraces
  BatchSize = 1
  MinSources = 1
  backlog = backlog
  Workers = {w1, w2}
  Faults = {"llm", "yield", "trace", "crash"}
  MaxMishaps = 2
INVARIANTS
  ClaimHasOwner
