SPECIFICATION Spec
INVARIANT IndexAgrees
CONSTANTS
  Conns = {w1, w2}
  Users = {u1}
  NoUser = NoUser
  sendQueueSize = 2
  MaxSessionErrors = 1
  ReAuthenticates = TRUE
CHECK_DEADLOCK FALSE
