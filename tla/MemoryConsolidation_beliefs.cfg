SPECIFICATION FairSpec
CONSTANTS
  NBeliefs = 3
  Scope <- OneScope
  Expiring = {3}
  MinDrafts = 1
  daemon = daemon
  cli = cli
  Clis = {cli}
  Faults = {"llm", "yield", "crash"}
  MaxMishaps = 1
INVARIANTS
  SaidOnce
PROPERTIES
  ImplementsBeliefLifecycle
  
