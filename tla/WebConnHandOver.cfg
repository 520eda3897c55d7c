SPECIFICATION Spec
INVARIANT NoSilentLossEver
CONSTANTS
  Nil = Nil
  Chains = {c1, c2}
  deadQueueSize = 3
  sendQueueSize = 2
  MaxEvents = 4
  Droppable = {3}
  MaxConnIDs = 3
  MaxBreaks = 2
  MaxEncodeErrors = 0
  MaxResponses = 1
CHECK_DEADLOCK FALSE
