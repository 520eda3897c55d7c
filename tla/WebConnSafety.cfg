SPECIFICATION Spec
INVARIANTS TypeOK DeadQueueExact DeadQueueCleared ClearsOnlyFull NoSilentLoss
PROPERTY StreamSpec
CONSTANTS
  Nil = Nil
  Chains = {c1, c2}
  deadQueueSize = 3
  sendQueueSize = 2
  MaxEvents = 4
  Droppable = {3}
  MaxConnIDs = 3
  MaxBreaks = 2
  MaxEncodeErrors = 0
  MaxResponses = 0
CHECK_DEADLOCK FALSE
SYMMETRY MCSymmetry
