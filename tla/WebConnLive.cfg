SPECIFICATION FairSpec
PROPERTIES CatchesUp HoleNoticed
CONSTANTS
  Nil = Nil
  Chains = {c1, c2}
  deadQueueSize = 2
  sendQueueSize = 2
  MaxEvents = 3
  Droppable = {2}
  MaxConnIDs = 5
  MaxBreaks = 1
  MaxEncodeErrors = 1
  MaxResponses = 1
CHECK_DEADLOCK FALSE
