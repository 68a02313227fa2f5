SPECIFICATION FileFairSpec
CONSTANTS
  NL = "nl"
  Turns = {t1, t2}
  Paths = {"f", "g"}
  Order <- TwoPaths
  Views <- OneView
  Requests <- SomeRequests
  FirstTexts <- FirstText
  OtherTexts <- OtherText
  MaxSize = 3
  MaxCalls = 3
  MaxOthers = 1
  MaxTime = 1
  MaxMishaps = 1
  Atoms <- SmallAtoms
  Texts <- SmallTexts
  Ranges <- SomeRanges
  Hunks <- SomeHunks
  Strings <- SomeStrings
INVARIANTS
  
  OwnWritesAreSeen
  EditsWhatWasMeant
PROPERTIES
  AllOrNothing
  
CHECK_DEADLOCK FALSE
