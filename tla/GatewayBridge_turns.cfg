SPECIFICATION FairSpec
CONSTANTS
  NoMessage = NoMessage
  m1 = m1
  m2 = m2
  m3 = m3
  m4 = m4
  h1 = h1
  h2 = h2
  Messages = {m1, m2, m3, m4}
  Fallback = {m2}
  Local = {m3, m4}
  Control = {m4}
  Handlers = {h1, h2}
  MaxCrashes = 1
  Session <- CommandsApart
INVARIANTS
  RunOnce
  
PROPERTIES
  ReplyArrives
