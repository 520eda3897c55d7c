SPECIFICATION Spec
INVARIANT DeadQueueCleared
CONSTANTS
  Nil = Nil
  Chains = {c1, c2}
  deadQueueSize = 4
  sendQueueSize = 2
  MaxEvents = 4
  Droppable = {}
  MaxConnIDs = 3
  MaxBreaks = 2
  MaxEncodeErrors = 1
  MaxResponses = 0
CHECK_DEADLOCK FALSE
SYMMETRY MCSymmetry
