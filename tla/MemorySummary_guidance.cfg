SPECIFICATION SummaryFairSpec
CONSTANTS
  NBeliefs = 3
  Traits <- GuidanceTraits
  Expiring = {1}
  peer <- OnePeer
  Queries <- ThreeQueries
  SourceLimit = 2
  ScanLimit = 2
  CandidateLimit = 2
  MaxIds = 2
  Units <- GuidanceUnits
  InitialMin = 1
  ChangedMin = 1
  InvalidatedMin = 1
  Replies <- SummaryReplies
  MaxSummaries = 2
  Faults = {"llm", "yield", "store", "crash"}
  MaxMishaps = 1
  Contexts <- StageContexts
  Outputs <- FormOutputs
INVARIANTS
  RecallAnswers
  OneActiveSummary
  SummaryOnTarget
  AcceptedIsPersistable
PROPERTIES
  
  SummaryEventuallyFresh
CHECK_DEADLOCK FALSE
