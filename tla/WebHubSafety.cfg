SPECIFICATION Spec
INVARIANTS TypeOK IndexAgrees EachServedOnce IndexedAreOpen OneWriter CountSettles
CONSTANTS
  Conns = {w1, w2, w3}
  Users = {u1, u2}
  NoUser = NoUser
  sendQueueSize = 1
  MaxSessionErrors = 0
  ReAuthenticates = FALSE
CHECK_DEADLOCK FALSE
SYMMETRY MCSymmetry
