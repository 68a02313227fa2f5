SPECIFICATION FairSpec
CONSTANTS
  background = background
  consolidation = consolidation
  drive = drive
  turn1 = turn1
  turn2 = turn2
  NoLoop = NoLoop
  NoName = NoName
  Priority <- MCPriority
  Name <- MCName
  Loops <- ScheduledLoops
  Blocking <- ScheduledBlocking
  Yielders <- ScheduledYielders
  MaxChecks = 2
PROPERTIES
  EntryOrder
  ImplementsSubjectLock
  NoLoopStarves
