SPECIFICATION FairSpec
PROPERTIES StopReturns DeadGoesInactive
CONSTANTS
  Conns = {w1, w2}
  Users = {u1}
  NoUser = NoUser
  sendQueueSize = 1
  MaxSessionErrors = 1
  ReAuthenticates = FALSE
CHECK_DEADLOCK FALSE
